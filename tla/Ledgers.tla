------------------------------ MODULE Ledgers ------------------------------
(***************************************************************************)
(* What is remembered of a filing beside the queue's own row: the text     *)
(* fingerprint (crates/intern-queue/src/pipeline.rs), the description in   *)
(* the destination folder (crates/intern-intake/src/descriptions.rs), and  *)
(* the marker teammates read in the intake folder (filed.rs), written by   *)
(* the sinks of src-tauri/src/intake.rs.  A filing, or its undo, is over   *)
(* before it is reported; the report is several writes, any of which may   *)
(* fail, and the thread that makes them runs beside the others.            *)
(*                                                                         *)
(* All documents here have the same bytes, so that each is a duplicate of  *)
(* the others and they share one marker; each came to one machine, and     *)
(* all are filed into one shared folder.  A sync client may leave a        *)
(* conflict copy beside a marker or a description.                         *)
(***************************************************************************)
EXTENDS Naturals, FiniteSets

CONSTANTS
  Machine, Document, Name,
  Nothing,        \* no name, no document, no marker
  MaxFilings,     \* bound on filings
  MaxLosses     \* bound on failures, crashes, settings changes and sync copies

ASSUME NothingAssumption == Nothing \notin Document \cup Name
ASSUME LedgerBounds == {MaxFilings, MaxLosses} \subseteq Nat

VARIABLES
  machineOf,    \* the machine a document came to
  row,          \* where a document is, the name it is filed under, its last receipt
  fingerprints, \* the documents with a row in fingerprints
  record,       \* the description under a name: the document it is of
  recordCopies, \* conflict copies of descriptions: <<name, document>>
  marker,       \* the marker of the content, or Nothing
  markerCopies, \* conflict copies of it
  watching,     \* the machines whose settings watch the intake folder
  describing,   \* the machines whose settings record descriptions
  reports,      \* reports under way
  backfill,     \* of a machine: the filings it has yet to describe
  astray,       \* documents a report of which failed, was unheard or was overtaken
  filings, losses

ledgerVars == <<machineOf, row, fingerprints, record, recordCopies, marker, markerCopies,
                watching, describing, reports, backfill, astray, filings, losses>>
recordVars == <<record, recordCopies>>
markerVars == <<marker, markerCopies>>
settingsVars == <<machineOf, watching, describing>>

FilingRow == [at : {"here", "filed", "cleared"}, name : Name \cup {Nothing}, receipt : {"none", "apply", "undo"}]
Report == [what : {"filed", "unfiled"}, document : Document, name : Name \cup {Nothing},
           at : {"read", "fingerprint", "record", "marker"}]

Loss == losses < MaxLosses /\ losses' = losses + 1
NoLoss == UNCHANGED losses

Filed(d) == row[d].at \in {"filed", "cleared"}
Reported(d) == {report \in reports : report.document = d}
Listed(d) == \E m \in Machine : \E filing \in backfill[m] : filing.document = d

\* A report that another overtakes may be the last to write.
Overtaken(d) == IF Reported(d) # {} \/ Listed(d) THEN {d} ELSE {}

Moves(report, place) == reports' = (reports \ {report}) \cup {[report EXCEPT !.at = place]}
Over(report) == reports' = reports \ {report}

-----------------------------------------------------------------------------
(* The queue: apply_if_unchanged and undo, and what they report *)

\* A machine's scheduler reports one filing and its commands one undo at a
\* time.
Busy(what, d) == \E report \in reports : report.what = what /\ machineOf[report.document] = machineOf[d]

\* A name nothing has in the destination.
FreeName(name) == \A d \in Document : row[d].name # name

File(d) ==
  /\ filings < MaxFilings /\ filings' = filings + 1
  /\ row[d].at = "here" /\ ~ Busy("filed", d)
  /\ \E name \in Name :
       /\ FreeName(name)
       /\ row' = [row EXCEPT ![d] = [at |-> "filed", name |-> name, receipt |-> "apply"]]
  /\ astray' = astray \cup Overtaken(d)
  /\ reports' = reports \cup {[what |-> "filed", document |-> d, name |-> Nothing, at |-> "read"]}
  /\ UNCHANGED <<settingsVars, fingerprints, recordVars, markerVars, backfill, losses>>

\* The name is vacated; the undo's receipt remembers it.
Undo(d) ==
  /\ row[d].at = "filed" /\ ~ Busy("unfiled", d)
  /\ row' = [row EXCEPT ![d] = [at |-> "here", name |-> Nothing, receipt |-> "undo"]]
  /\ astray' = astray \cup Overtaken(d)
  /\ reports' = reports \cup {[what |-> "unfiled", document |-> d, name |-> row[d].name, at |-> "read"]}
  /\ UNCHANGED <<settingsVars, fingerprints, recordVars, markerVars, backfill, filings, losses>>

\* The rows of a machine's filed documents go, and their fingerprints.
clear_history(m) ==
  /\ Loss
  /\ LET gone == {d \in Document : machineOf[d] = m /\ row[d].at = "filed"} IN
     /\ gone # {}
     /\ row' = [d \in Document |-> IF d \in gone THEN [row[d] EXCEPT !.at = "cleared", !.receipt = "none"]
                                   ELSE row[d]]
     /\ fingerprints' = fingerprints \ gone
     /\ astray' = astray \cup UNION {Overtaken(d) : d \in gone}
  /\ UNCHANGED <<settingsVars, recordVars, markerVars, reports, backfill, filings>>

\* report_settled and report_filed read the newest receipt: a report that
\* was overtaken finds another one and says nothing.
ReadReceipt(report) ==
  /\ report.at = "read"
  /\ LET d == report.document IN
     CASE report.what = "filed" /\ row[d].receipt = "apply" ->
            reports' = (reports \ {report})
                         \cup {[report EXCEPT !.at = "fingerprint", !.name = row[d].name]}
       [] report.what = "unfiled" /\ row[d].receipt = "undo" -> Moves(report, "fingerprint")
       [] OTHER -> Over(report)
  /\ UNCHANGED <<settingsVars, row, fingerprints, recordVars, markerVars, backfill, astray, filings,
                 losses>>

\* remember_fingerprint, a write nobody looks after, or forget_fingerprint.
Fingerprint(report) ==
  /\ report.at = "fingerprint"
  /\ Moves(report, "record")
  /\ \/ /\ fingerprints' = IF report.what = "filed" /\ row[report.document].at # "cleared"
                           THEN fingerprints \cup {report.document}
                           ELSE fingerprints \ {report.document}
        /\ UNCHANGED astray /\ NoLoss
     \/ Loss /\ astray' = astray \cup {report.document} /\ UNCHANGED fingerprints
  /\ UNCHANGED <<settingsVars, row, recordVars, markerVars, backfill, filings>>

-----------------------------------------------------------------------------
(* LedgerSink and DescriptionLedger *)

\* A slip: what the sync client left beside the record stays.
copies_ofNone(name) == {}

\* A key is a hash: whatever else begins with it is a copy.
copies_of(name) == {copy \in recordCopies : copy[1] = name}

Describe(filing) == record' = [record EXCEPT ![filing.name] = filing.document] /\ UNCHANGED recordCopies

retract_record(name) ==
  /\ record' = [record EXCEPT ![name] = Nothing]
  /\ recordCopies' = recordCopies \ copies_of(name)

\* Nothing is written or removed; or the record goes, and a copy of it that
\* cannot be removed stays without a word.
LedgerFails(report) ==
  \/ UNCHANGED recordVars
  \/ /\ report.what = "unfiled"
     /\ record' = [record EXCEPT ![report.name] = Nothing]
     /\ UNCHANGED recordCopies

\* LedgerSink::filed and unfiled: nothing at all when records are off.
TellLedger(report) ==
  /\ report.at = "record"
  /\ Moves(report, "marker")
  /\ IF machineOf[report.document] \notin describing
     THEN /\ astray' = IF report.what = "unfiled" THEN astray \cup {report.document} ELSE astray
          /\ UNCHANGED <<recordVars, losses>>
     ELSE \/ /\ IF report.what = "filed" THEN Describe(report) ELSE retract_record(report.name)
             /\ UNCHANGED astray /\ NoLoss
          \/ Loss /\ astray' = astray \cup {report.document} /\ LedgerFails(report)
  /\ UNCHANGED <<settingsVars, row, fingerprints, markerVars, backfill, filings>>

-----------------------------------------------------------------------------
(* SharedFiledIndex and FiledIndex *)

\* The marker says which machine filed which document; a filing by anyone
\* replaces it, and an undo removes it only when it is the machine's own.
retract_marker(m) ==
  marker' = IF marker # Nothing /\ machineOf[marker] = m THEN Nothing ELSE marker

TellIndex(report) ==
  /\ report.at = "marker"
  /\ Over(report)
  /\ LET m == machineOf[report.document] IN
     IF m \notin watching
     THEN /\ astray' = IF report.what = "unfiled" THEN astray \cup {report.document} ELSE astray
          /\ UNCHANGED <<marker, losses>>
     ELSE \/ /\ IF report.what = "filed" THEN marker' = report.document ELSE retract_marker(m)
             /\ UNCHANGED astray /\ NoLoss
          \/ Loss /\ astray' = astray \cup {report.document} /\ UNCHANGED marker
  /\ UNCHANGED <<settingsVars, row, fingerprints, recordVars, markerCopies, backfill, filings>>

\* filed_elsewhere: the marker under the content's own name.
lookup == IF marker = Nothing THEN {} ELSE {marker}

\* A slip: every file that parses is a marker.
lookup_similarInCopies == lookup \cup markerCopies

\* A marker under any name but its content's is a conflict copy.
lookup_similar == lookup

\* Not this machine's own record of the very document.
known_filing(m, d, found) == ~ (machineOf[found] = m /\ found = d)

\* find_completed_duplicate: a filed row of the same content on this machine.
completed_duplicate(d) == \E e \in Document \ {d} : machineOf[e] = machineOf[d] /\ row[e].at = "filed"

filed_elsewhere(d) ==
  machineOf[d] \in watching /\ \E found \in lookup : known_filing(machineOf[d], d, found)

\* flag_if_completed_duplicate, then flag_if_filed_elsewhere.
HeldAsDuplicate(d) == completed_duplicate(d) \/ filed_elsewhere(d)

\* The machine's own history, with the document itself left out.
find_similar(d) == {e \in fingerprints \ {d} : machineOf[e] = machineOf[d]}

similar_elsewhere(d) == IF machineOf[d] \in watching THEN lookup_similar ELSE {}

\* What a second scan is told it looks like.
near_duplicate_of(d) == find_similar(d) \cup similar_elsewhere(d)

-----------------------------------------------------------------------------
(* descriptions_backfill *)

\* filed_documents: the completed rows whose newest receipt is an apply.
StartBackfill(m) ==
  /\ m \in describing /\ backfill[m] = {}
  /\ Loss
  /\ backfill' = [backfill EXCEPT ![m] =
       {[document |-> d, name |-> row[d].name] :
          d \in {e \in Document : machineOf[e] = m /\ row[e].at = "filed" /\ row[e].receipt = "apply"}}]
  /\ UNCHANGED <<settingsVars, row, fingerprints, recordVars, markerVars, reports, astray, filings>>

Backfill(m) ==
  /\ \E filing \in backfill[m] :
       /\ Describe(filing)
       /\ backfill' = [backfill EXCEPT ![m] = @ \ {filing}]
  /\ UNCHANGED <<settingsVars, row, fingerprints, markerVars, reports, astray, filings, losses>>

-----------------------------------------------------------------------------
(* The machines and the sync client *)

\* What was being reported is never reported again.
MachineCrashes(m) ==
  /\ Loss
  /\ LET lost == {report \in reports : machineOf[report.document] = m} IN
     /\ lost # {}
     /\ reports' = reports \ lost
     /\ astray' = astray \cup {report.document : report \in lost}
  /\ backfill' = [backfill EXCEPT ![m] = {}]
  /\ UNCHANGED <<settingsVars, row, fingerprints, recordVars, markerVars, filings>>

ChangeSettings(m) ==
  /\ Loss
  /\ \/ /\ watching' = IF m \in watching THEN watching \ {m} ELSE watching \cup {m}
        /\ UNCHANGED describing
     \/ /\ describing' = IF m \in describing THEN describing \ {m} ELSE describing \cup {m}
        /\ UNCHANGED watching
  /\ UNCHANGED <<machineOf, row, fingerprints, recordVars, markerVars, reports, backfill, astray,
                 filings>>

LeaveCopy ==
  /\ Loss
  /\ \/ /\ marker # Nothing
        /\ markerCopies' = markerCopies \cup {marker}
        /\ UNCHANGED recordCopies
     \/ /\ \E name \in Name :
             /\ record[name] # Nothing
             /\ recordCopies' = recordCopies \cup {<<name, record[name]>>}
        /\ UNCHANGED markerCopies
  /\ UNCHANGED <<settingsVars, row, fingerprints, record, marker, reports, backfill, astray, filings>>

LedgerInit ==
  /\ machineOf \in [Document -> Machine]
  /\ machineOf[CHOOSE d \in Document : TRUE] = CHOOSE m \in Machine : TRUE
  /\ row = [d \in Document |-> [at |-> "here", name |-> Nothing, receipt |-> "none"]]
  /\ fingerprints = {} /\ astray = {} /\ reports = {}
  /\ record = [name \in Name |-> Nothing] /\ recordCopies = {}
  /\ marker = Nothing /\ markerCopies = {}
  /\ watching = Machine /\ describing = Machine
  /\ backfill = [m \in Machine |-> {}]
  /\ filings = 0 /\ losses = 0

LedgerNext ==
  \/ \E d \in Document : File(d) \/ Undo(d)
  \/ \E report \in reports :
       ReadReceipt(report) \/ Fingerprint(report) \/ TellLedger(report) \/ TellIndex(report)
  \/ \E m \in Machine : clear_history(m) \/ StartBackfill(m) \/ Backfill(m) \/ MachineCrashes(m) \/ ChangeSettings(m)
  \/ LeaveCopy

LedgerSpec == LedgerInit /\ [][LedgerNext]_ledgerVars

LedgerTypeOK ==
  /\ machineOf \in [Document -> Machine]
  /\ row \in [Document -> FilingRow]
  /\ fingerprints \subseteq Document /\ astray \subseteq Document
  /\ record \in [Name -> Document \cup {Nothing}]
  /\ recordCopies \subseteq Name \X Document
  /\ marker \in Document \cup {Nothing} /\ markerCopies \subseteq Document
  /\ watching \subseteq Machine /\ describing \subseteq Machine
  /\ reports \subseteq Report
  /\ \A m \in Machine : backfill[m] \subseteq [document : Document, name : Name]

-----------------------------------------------------------------------------
\* Whoever has nothing left to report and was heard every time.
Settled(d) == Reported(d) = {} /\ ~ Listed(d) /\ d \notin astray

\* A description, or any copy of one the flow would read, is of a document
\* that is filed under that name, whatever was filed and put back beside it
\* (DescriptionLedger::retract, "leaving one behind would keep describing a
\* document that is no longer filed").
DescribedIsFiled ==
  \A d \in Document : Settled(d) /\ ~ Filed(d) =>
    \A name \in Name : record[name] # d /\ <<name, d>> \notin recordCopies

\* What a second scan is said to repeat is a document that is filed, here or
\* by a teammate, and not one that was put back (FiledIndex::lookup_similar,
\* "Reading the copy would go on reporting a filing that has been undone").
\* And none is held as a duplicate of itself, even when its own marker was
\* left behind: somebody's other document was filed, or the word of it was
\* lost (known_filing).
RepeatedIsFiled ==
  /\ \A d, e \in Document : e \in near_duplicate_of(d) /\ Settled(e) => Filed(e)
  /\ \A d \in Document : row[d].at = "here" /\ HeldAsDuplicate(d) =>
       \E e \in Document \ {d} : Filed(e) \/ ~ Settled(e)
=============================================================================
