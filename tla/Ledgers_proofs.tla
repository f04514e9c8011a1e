--------------------------- MODULE Ledgers_proofs ---------------------------
(***************************************************************************)
(* Nothing that is remembered of a filing outlives it, except of a         *)
(* document a report of which was lost: for any number of machines,        *)
(* documents, names, filings, undos, crashes and changes of settings.      *)
(***************************************************************************)
EXTENDS Ledgers, TLAPS

-----------------------------------------------------------------------------
(* The inductive invariant *)

Types ==
  /\ machineOf \in [Document -> Machine]
  /\ row \in [Document -> FilingRow]
  /\ record \in [Name -> Document \cup {Nothing}]
  /\ marker \in Document \cup {Nothing}
  /\ reports \subseteq Report
  /\ backfill \in [Machine -> SUBSET [document : Document, name : Name \cup {Nothing}]]

\* The filing a backfill lists, as long as it stands.
Standing(d, name) == row[d].at = "filed" /\ row[d].receipt = "apply" /\ row[d].name = name

\* What a report of a document says is so, unless the document is astray.
True_(report) ==
  LET d == report.document IN
  /\ report.what = "filed" =>
       /\ row[d].at = "filed" /\ row[d].receipt = "apply"
       /\ report.at # "read" => report.name = row[d].name
  /\ report.what = "unfiled" => row[d].at = "here" /\ row[d].receipt = "undo"

\* The undo of a document that has yet to reach one of the ledgers.
Vacating(d, places) == {report \in reports : report.document = d /\ report.what = "unfiled" /\ report.at \in places}

OneReport(d) == \A one, other \in Reported(d) : one = other
ReportsAreTrue(d) == \A report \in Reported(d) : True_(report)
ListingsStand(d) ==
  \A m \in Machine : \A filing \in backfill[m] : filing.document = d => Standing(d, filing.name)

\* What is remembered of a document is of its filing, or about to go.
Described(d) ==
  \A name \in Name : record[name] = d \/ <<name, d>> \in recordCopies =>
    \/ Filed(d) /\ row[d].name = name
    \/ \E report \in Vacating(d, {"read", "fingerprint", "record"}) : report.name = name
Fingerprinted(d) == d \in fingerprints => Filed(d) \/ Vacating(d, {"read", "fingerprint"}) # {}
Marked(d) == marker = d => Filed(d) \/ Vacating(d, {"read", "fingerprint", "record", "marker"}) # {}

Heard(d) ==
  OneReport(d) /\ ReportsAreTrue(d) /\ ListingsStand(d) /\ Described(d) /\ Fingerprinted(d) /\ Marked(d)

IInv == Types /\ \A d \in Document \ astray : Heard(d)

-----------------------------------------------------------------------------
(* Types are kept *)

\* Whatever a report, a machine or the sync client does to the ledgers.
LEMMA NextTypes ==
  ASSUME Types, LedgerNext
  PROVE  Types'
<1> USE DEF settingsVars, recordVars, markerVars
<1>1. machineOf' \in [Document -> Machine]
  BY DEF Types, LedgerNext, File, Undo, ReadReceipt, Fingerprint, TellLedger, TellIndex, clear_history,
     StartBackfill, Backfill, MachineCrashes, ChangeSettings, LeaveCopy
<1>2. row' \in [Document -> FilingRow]
  <2>1. ASSUME NEW d \in Document, File(d) PROVE row' \in [Document -> FilingRow]
    BY <2>1 DEF Types, File, FilingRow
  <2>2. ASSUME NEW d \in Document, Undo(d) PROVE row' \in [Document -> FilingRow]
    BY <2>2 DEF Types, Undo, FilingRow
  <2>3. ASSUME NEW m \in Machine, clear_history(m) PROVE row' \in [Document -> FilingRow]
    <3>1. PICK gone \in SUBSET Document :
            row' = [d \in Document |->
                     IF d \in gone THEN [row[d] EXCEPT !.at = "cleared", !.receipt = "none"] ELSE row[d]]
      BY <2>3, Zenon DEF clear_history
    <3>2. ASSUME NEW d \in Document
          PROVE  [row[d] EXCEPT !.at = "cleared", !.receipt = "none"] \in FilingRow
      BY DEF Types, FilingRow
    <3>3. \A d \in Document : row[d] \in FilingRow
      BY DEF Types
    <3> QED BY <3>1, <3>2, <3>3
  <2>4. ASSUME NEW report \in reports,
               ReadReceipt(report) \/ Fingerprint(report) \/ TellLedger(report) \/ TellIndex(report)
        PROVE  row' = row
    BY <2>4 DEF ReadReceipt, Fingerprint, TellLedger, TellIndex
  <2>5. ASSUME NEW m \in Machine,
               StartBackfill(m) \/ Backfill(m) \/ MachineCrashes(m) \/ ChangeSettings(m)
        PROVE  row' = row
    BY <2>5 DEF StartBackfill, Backfill, MachineCrashes, ChangeSettings
  <2>6. LeaveCopy => row' = row
    BY DEF LeaveCopy
  <2>7. (\E d \in Document : File(d) \/ Undo(d)) \/ (\E m \in Machine : clear_history(m)) \/ row' = row
    BY <2>4, <2>5, <2>6 DEF LedgerNext
  <2> QED BY <2>1, <2>2, <2>3, <2>7 DEF Types
<1>3. record' \in [Name -> Document \cup {Nothing}]
  <2>1. ASSUME NEW report \in reports, TellLedger(report) PROVE record' \in [Name -> Document \cup {Nothing}]
    BY <2>1 DEF Types, TellLedger, LedgerFails, Describe, retract_record, Report
  <2>2. ASSUME NEW m \in Machine, Backfill(m) PROVE record' \in [Name -> Document \cup {Nothing}]
    <3>1. PICK filing \in backfill[m] : Describe(filing)
      BY <2>2 DEF Backfill
    <3>2. filing.document \in Document
      BY DEF Types
    <3> QED BY <3>1, <3>2 DEF Types, Describe
  <2>3. (\E report \in reports : TellLedger(report)) \/ (\E m \in Machine : Backfill(m)) \/ record' = record
    BY DEF LedgerNext, File, Undo, ReadReceipt, Fingerprint, TellIndex, clear_history,
       StartBackfill, MachineCrashes, ChangeSettings, LeaveCopy
  <2> QED BY <2>1, <2>2, <2>3 DEF Types
<1>4. marker' \in Document \cup {Nothing}
  <2>1. ASSUME NEW report \in reports, TellIndex(report) PROVE marker' \in Document \cup {Nothing}
    BY <2>1 DEF Types, TellIndex, retract_marker, Report
  <2>2. (\E report \in reports : TellIndex(report)) \/ marker' = marker
    BY DEF LedgerNext, File, Undo, ReadReceipt, Fingerprint, TellLedger, clear_history,
       StartBackfill, Backfill, MachineCrashes, ChangeSettings, LeaveCopy
  <2> QED BY <2>1, <2>2 DEF Types
<1>5. reports' \subseteq Report
  <2>1. ASSUME NEW d \in Document, File(d) \/ Undo(d) PROVE reports' \subseteq Report
    <3>1. row[d].name \in Name \cup {Nothing}
      BY DEF Types, FilingRow
    <3>2. \A what \in {"filed", "unfiled"} : \A name \in Name \cup {Nothing} :
            [what |-> what, document |-> d, name |-> name, at |-> "read"] \in Report
      BY DEF Report
    <3> QED BY <2>1, <3>1, <3>2 DEF Types, File, Undo
  <2>2. ASSUME NEW report \in reports, ReadReceipt(report) \/ Fingerprint(report) \/ TellLedger(report) \/ TellIndex(report)
        PROVE  reports' \subseteq Report
    <3>1. report \in Report /\ row[report.document].name \in Name \cup {Nothing}
      BY DEF Types, Report, FilingRow
    <3>2. \A place \in {"fingerprint", "record", "marker"} : \A name \in Name \cup {Nothing} :
            [report EXCEPT !.at = place] \in Report /\ [report EXCEPT !.at = place, !.name = name] \in Report
      BY <3>1 DEF Report
    <3> QED BY <2>2, <3>1, <3>2 DEF Types, ReadReceipt, Fingerprint, TellLedger, TellIndex, Moves, Over
  <2>3. \/ \E d \in Document : File(d) \/ Undo(d)
        \/ \E report \in reports : ReadReceipt(report) \/ Fingerprint(report) \/ TellLedger(report) \/ TellIndex(report)
        \/ reports' \subseteq reports
    BY DEF LedgerNext, clear_history, StartBackfill, Backfill, MachineCrashes, ChangeSettings, LeaveCopy
  <2> QED BY <2>1, <2>2, <2>3 DEF Types
<1>6. backfill' \in [Machine -> SUBSET [document : Document, name : Name \cup {Nothing}]]
  <2>1. ASSUME NEW m \in Machine, StartBackfill(m)
        PROVE  backfill' \in [Machine -> SUBSET [document : Document, name : Name \cup {Nothing}]]
    <3>1. \A d \in Document : [document |-> d, name |-> row[d].name] \in [document : Document, name : Name \cup {Nothing}]
      BY DEF Types, FilingRow
    <3> QED BY <2>1, <3>1 DEF Types, StartBackfill
  <2>2. ASSUME NEW m \in Machine, Backfill(m) \/ MachineCrashes(m)
        PROVE  backfill' \in [Machine -> SUBSET [document : Document, name : Name \cup {Nothing}]]
    BY <2>2 DEF Types, Backfill, MachineCrashes
  <2>3. (\E m \in Machine : StartBackfill(m) \/ Backfill(m) \/ MachineCrashes(m)) \/ backfill' = backfill
    BY DEF LedgerNext, File, Undo, ReadReceipt, Fingerprint, TellLedger, TellIndex, clear_history,
       ChangeSettings, LeaveCopy
  <2> QED BY <2>1, <2>2, <2>3 DEF Types
<1> QED BY <1>1, <1>2, <1>3, <1>4, <1>5, <1>6 DEF Types

-----------------------------------------------------------------------------
(* What is known of a document that is not astray *)

\* Nobody comes back: what was lost once may have been the last word.
LEMMA AstrayStays ==
  ASSUME LedgerNext
  PROVE  astray \subseteq astray'
BY DEF LedgerNext, File, Undo, ReadReceipt, Fingerprint, TellLedger, TellIndex, clear_history,
   StartBackfill, Backfill, MachineCrashes, ChangeSettings, LeaveCopy

\* A step that has nothing to do with a document: no report of it moves, and
\* nothing is remembered of it that was not.
Untouched(d) ==
  /\ row'[d] = row[d]
  /\ \A report : report.document = d => (report \in reports' <=> report \in reports)
  /\ \A m \in Machine : \A filing \in backfill'[m] : filing.document = d => filing \in backfill[m]
  /\ \A name \in Name : record'[name] = d => record[name] = d
  /\ \A name \in Name : <<name, d>> \in recordCopies' => <<name, d>> \in recordCopies \/ record[name] = d
  /\ d \in fingerprints' => d \in fingerprints
  /\ marker' = d => marker = d

\* Then what is known of it is what was known.
LEMMA UntouchedIsHeard ==
  ASSUME NEW d \in Document, Heard(d), Untouched(d)
  PROVE  Heard(d)'
<1>1. Reported(d)' = Reported(d) /\ \A places : Vacating(d, places)' = Vacating(d, places)
  BY DEF Untouched, Reported, Vacating
<1>2. OneReport(d)' /\ ReportsAreTrue(d)'
  <2>1. \A report \in Reported(d) : True_(report) => True_(report)'
    BY DEF Reported, True_, Untouched
  <2> QED BY <1>1, <2>1 DEF Heard, OneReport, ReportsAreTrue
<1>3. ListingsStand(d)'
  BY DEF Heard, ListingsStand, Standing, Untouched
<1>4. Described(d)'
  BY <1>1 DEF Heard, Described, Filed, Untouched
<1>5. Fingerprinted(d)' /\ Marked(d)'
  BY <1>1 DEF Heard, Fingerprinted, Marked, Filed, Untouched
<1> QED BY <1>2, <1>3, <1>4, <1>5 DEF Heard

\* A filing, and an undo, of a document of which nothing is under way.
LEMMA QueueIsHeard ==
  ASSUME Types, NEW d \in Document, NEW e \in Document, File(e) \/ Undo(e), d \notin astray', Heard(d)
  PROVE  Heard(d)'
<1> USE DEF settingsVars, recordVars, markerVars
<1>1. PICK report : /\ reports' = reports \cup {report} /\ report.document = e /\ report.at = "read"
                    /\ \/ File(e) /\ report.what = "filed"
                       \/ Undo(e) /\ report.what = "unfiled" /\ report.name = row[e].name
  <2>1. CASE File(e)
    <3> DEFINE new == [what |-> "filed", document |-> e, name |-> Nothing, at |-> "read"]
    <3>1. reports' = reports \cup {new}
      BY <2>1 DEF File
    <3>2. new.document = e /\ new.at = "read" /\ new.what = "filed"
      OBVIOUS
    <3> QED BY <2>1, <3>1, <3>2
  <2>2. CASE Undo(e)
    <3> DEFINE new == [what |-> "unfiled", document |-> e, name |-> row[e].name, at |-> "read"]
    <3>1. reports' = reports \cup {new}
      BY <2>2 DEF Undo
    <3>2. new.document = e /\ new.at = "read" /\ new.what = "unfiled" /\ new.name = row[e].name
      OBVIOUS
    <3> QED BY <2>2, <3>1, <3>2
  <2> QED BY <2>1, <2>2
<1>2. /\ UNCHANGED <<fingerprints, record, recordCopies, marker, backfill>>
      /\ astray' = astray \cup Overtaken(e)
      /\ \A o \in Document \ {e} : row'[o] = row[o]
  BY DEF File, Undo, Types
<1>3. CASE d # e
  BY <1>1, <1>2, <1>3, UntouchedIsHeard DEF Untouched
<1>4. CASE d = e
  <2>1. Reported(d) = {} /\ ~ Listed(d)
    BY <1>2, <1>4 DEF Overtaken
  <2>2. Reported(d)' = {report}
    BY <1>1, <1>4, <2>1 DEF Reported
  <2>3. ListingsStand(d)'
    BY <1>2, <2>1 DEF ListingsStand, Listed
  <2>4. \A places : Vacating(d, places) = {}
    BY <2>1 DEF Reported, Vacating
  <2>5. CASE File(e)
    <3>1. row[d].at = "here" /\ row'[d].at = "filed" /\ row'[d].receipt = "apply"
      BY <1>4, <2>5 DEF File, Types
    <3>2. report.what = "filed"
      BY <1>1, <2>5 DEF File, Undo
    <3>3. OneReport(d)' /\ ReportsAreTrue(d)'
      BY <1>1, <1>4, <2>2, <3>1, <3>2 DEF OneReport, ReportsAreTrue, True_
    <3>4. Described(d)'
      BY <1>2, <2>4, <3>1 DEF Heard, Described, Filed
    <3>5. Fingerprinted(d)' /\ Marked(d)'
      BY <3>1 DEF Fingerprinted, Marked, Filed
    <3> QED BY <2>3, <3>3, <3>4, <3>5 DEF Heard
  <2>6. CASE Undo(e)
    <3>1. row[d].at = "filed" /\ row'[d].at = "here" /\ row'[d].receipt = "undo"
      BY <1>4, <2>6 DEF Undo, Types
    <3>2. report.what = "unfiled" /\ report.name = row[e].name
      BY <1>1, <2>6, <3>1, <1>4 DEF File
    <3>3. OneReport(d)' /\ ReportsAreTrue(d)'
      BY <1>1, <1>4, <2>2, <3>1, <3>2 DEF OneReport, ReportsAreTrue, True_
    <3>4. /\ report \in Vacating(d, {"read", "fingerprint", "record"})'
          /\ report \in Vacating(d, {"read", "fingerprint"})'
          /\ report \in Vacating(d, {"read", "fingerprint", "record", "marker"})'
      BY <1>1, <1>4, <3>2 DEF Vacating
    <3>5. Described(d)'
      BY <1>2, <1>4, <2>4, <3>2, <3>4 DEF Heard, Described
    <3>6. Fingerprinted(d)' /\ Marked(d)'
      BY <3>4 DEF Fingerprinted, Marked
    <3> QED BY <2>3, <3>3, <3>5, <3>6 DEF Heard
  <2> QED BY <2>5, <2>6
<1> QED BY <1>3, <1>4

\* A report of a document moves on, is over, or is another document's.
LEMMA OneIsReported ==
  ASSUME NEW d \in Document, Heard(d), NEW report \in reports, report.document = d
  PROVE  /\ Reported(d) = {report} /\ True_(report)
         /\ \A next : next.document = d /\ reports' = (reports \ {report}) \cup {next} => Reported(d)' = {next}
         /\ reports' = reports \ {report} => Reported(d)' = {}
BY DEF Heard, Reported, OneReport, ReportsAreTrue

\* A report reads the receipt, writes a ledger or is over.
LEMMA ReportIsHeard ==
  ASSUME Types, NEW d \in Document, d \notin astray', Heard(d), NEW report \in reports,
         ReadReceipt(report) \/ Fingerprint(report) \/ TellLedger(report) \/ TellIndex(report)
  PROVE  Heard(d)'
<1> USE DEF settingsVars, recordVars, markerVars
<1> DEFINE e == report.document
<1>1. e \in Document /\ report \in Report /\ NothingAssumption
  BY NothingAssumption DEF Types, Report
<1>2. UNCHANGED <<row, backfill, machineOf>>
  BY DEF ReadReceipt, Fingerprint, TellLedger, TellIndex
<1>3. \/ reports' = reports \ {report}
      \/ \E next \in Report : /\ reports' = (reports \ {report}) \cup {next}
                              /\ next.document = e /\ next.what = report.what
  <2>1. \A place \in {"fingerprint", "record", "marker"} : \A name \in Name \cup {Nothing} :
          LET next == [report EXCEPT !.at = place, !.name = name] IN
          next \in Report /\ next.document = e /\ next.what = report.what
    BY <1>1 DEF Report
  <2>2. \A place \in {"fingerprint", "record", "marker"} :
          LET next == [report EXCEPT !.at = place] IN
          next \in Report /\ next.document = e /\ next.what = report.what
    BY <1>1 DEF Report
  <2>3. row[e].name \in Name \cup {Nothing}
    BY <1>1 DEF Types, FilingRow
  <2>4. CASE ReadReceipt(report)
    BY <2>1, <2>2, <2>3, <2>4 DEF ReadReceipt, Moves, Over
  <2>5. CASE Fingerprint(report) \/ TellLedger(report) \/ TellIndex(report)
    BY <2>2, <2>5 DEF Fingerprint, TellLedger, TellIndex, Moves, Over
  <2> QED BY <2>4, <2>5
<1>4. CASE d # e
  <2>1. \A other : other.document = d => (other \in reports' <=> other \in reports)
    BY <1>3, <1>4
  <2>2. /\ \A name \in Name : record'[name] = d => record[name] = d
        /\ \A name \in Name : <<name, d>> \in recordCopies' => <<name, d>> \in recordCopies \/ record[name] = d
    <3>1. CASE TellLedger(report)
      BY <1>1, <1>4, <3>1 DEF TellLedger, LedgerFails, Describe, retract_record, Types
    <3>2. CASE UNCHANGED <<record, recordCopies>>
      BY <3>2
    <3> QED BY <3>1, <3>2 DEF ReadReceipt, Fingerprint, TellIndex
  <2>3. d \in fingerprints' => d \in fingerprints
    BY <1>4 DEF ReadReceipt, Fingerprint, TellLedger, TellIndex
  <2>4. marker' = d => marker = d
    BY <1>1, <1>4 DEF ReadReceipt, Fingerprint, TellLedger, TellIndex, retract_marker
  <2> QED BY <1>2, <2>1, <2>2, <2>3, <2>4, UntouchedIsHeard DEF Untouched
<1>5. CASE d = e
  <2>1. Reported(d) = {report} /\ True_(report)
    BY <1>5, OneIsReported
  <2>2. ListingsStand(d)'
    BY <1>2 DEF Heard, ListingsStand, Standing
  <2>3. CASE ReadReceipt(report)
    <3>1. UNCHANGED <<fingerprints, record, recordCopies, marker>>
      BY <2>3 DEF ReadReceipt
    <3>2. PICK next : /\ reports' = (reports \ {report}) \cup {next}
                      /\ next.document = d /\ next.what = report.what /\ next.at = "fingerprint"
                      /\ report.what = "filed" => next.name = row[d].name
                      /\ report.what = "unfiled" => next.name = report.name
      <4>1. CASE report.what = "filed"
        <5> DEFINE new == [report EXCEPT !.at = "fingerprint", !.name = row[d].name]
        <5>1. reports' = (reports \ {report}) \cup {new}
          BY <1>5, <2>1, <2>3, <4>1 DEF ReadReceipt, True_
        <5>2. new.document = d /\ new.what = report.what /\ new.at = "fingerprint" /\ new.name = row[d].name
          BY <1>1, <1>5 DEF Report
        <5> QED BY <4>1, <5>1, <5>2
      <4>2. CASE report.what = "unfiled"
        <5> DEFINE new == [report EXCEPT !.at = "fingerprint"]
        <5>1. reports' = (reports \ {report}) \cup {new}
          BY <1>5, <2>1, <2>3, <4>2 DEF ReadReceipt, True_, Moves
        <5>2. new.document = d /\ new.what = report.what /\ new.at = "fingerprint" /\ new.name = report.name
          BY <1>1, <1>5 DEF Report
        <5> QED BY <4>2, <5>1, <5>2
      <4> QED BY <1>1, <4>1, <4>2 DEF Report
    <3>3. Reported(d)' = {next}
      BY <1>5, <3>2, OneIsReported
    <3>4. OneReport(d)' /\ ReportsAreTrue(d)'
      BY <1>2, <1>5, <2>1, <3>2, <3>3 DEF OneReport, ReportsAreTrue, True_
    <3>5. report.at = "read"
      BY <2>3 DEF ReadReceipt
    <3>6. report.what = "unfiled" =>
            /\ next \in Vacating(d, {"read", "fingerprint", "record"})'
            /\ next \in Vacating(d, {"read", "fingerprint"})'
            /\ next \in Vacating(d, {"read", "fingerprint", "record", "marker"})'
      BY <3>2 DEF Vacating
    <3>7. \A places : Vacating(d, places) # {} => report.what = "unfiled"
      BY <2>1 DEF Vacating, Reported
    <3>8. \A places : \A other \in Vacating(d, places) : other = report
      BY <2>1 DEF Vacating, Reported
    <3>9. Described(d)'
      BY <1>2, <3>1, <3>2, <3>6, <3>7, <3>8 DEF Heard, Described, Filed
    <3>10. Fingerprinted(d)' /\ Marked(d)'
      BY <1>2, <3>1, <3>6, <3>7 DEF Heard, Fingerprinted, Marked, Filed
    <3> QED BY <2>2, <3>4, <3>9, <3>10 DEF Heard
  <2>4. CASE Fingerprint(report)
    <3> DEFINE next == [report EXCEPT !.at = "record"]
    <3>1. /\ UNCHANGED <<record, recordCopies, marker>> /\ reports' = (reports \ {report}) \cup {next}
          /\ report.at = "fingerprint"
          /\ fingerprints' = IF report.what = "filed" /\ row[d].at # "cleared"
                             THEN fingerprints \cup {d} ELSE fingerprints \ {d}
      BY <1>5, <2>4 DEF Fingerprint, Moves
    <3>2. next.document = d /\ next.what = report.what /\ next.at = "record" /\ next.name = report.name
      BY <1>1, <1>5 DEF Report
    <3> HIDE DEF next
    <3>3. Reported(d)' = {next}
      BY <1>5, <3>1, <3>2, OneIsReported
    <3>4. OneReport(d)' /\ ReportsAreTrue(d)'
      BY <1>2, <1>5, <2>1, <3>1, <3>2, <3>3 DEF OneReport, ReportsAreTrue, True_
    <3>5. report.what = "unfiled" =>
            /\ next \in Vacating(d, {"read", "fingerprint", "record"})'
            /\ next \in Vacating(d, {"read", "fingerprint", "record", "marker"})'
      BY <3>1, <3>2 DEF Vacating
    <3>6. \A places : \A other \in Vacating(d, places) : other = report /\ report.what = "unfiled"
      BY <2>1 DEF Vacating, Reported
    <3>7. Described(d)' /\ Marked(d)'
      BY <1>2, <3>1, <3>2, <3>5, <3>6 DEF Heard, Described, Marked, Filed
    <3>8. Fingerprinted(d)'
      BY <1>2, <1>5, <2>1, <3>1 DEF Fingerprinted, Filed, True_
    <3> QED BY <2>2, <3>4, <3>7, <3>8 DEF Heard
  <2>5. CASE TellLedger(report)
    <3> DEFINE next == [report EXCEPT !.at = "marker"]
    <3>1. /\ UNCHANGED <<fingerprints, marker>> /\ reports' = (reports \ {report}) \cup {next}
          /\ report.at = "record"
      BY <2>5 DEF TellLedger, Moves
    <3>2. next.document = d /\ next.what = report.what /\ next.at = "marker" /\ next.name = report.name
      BY <1>1, <1>5 DEF Report
    <3> HIDE DEF next
    <3>3. Reported(d)' = {next}
      BY <1>5, <3>1, <3>2, OneIsReported
    <3>4. OneReport(d)' /\ ReportsAreTrue(d)'
      BY <1>2, <1>5, <2>1, <3>1, <3>2, <3>3 DEF OneReport, ReportsAreTrue, True_
    <3>5. report.what = "unfiled" => next \in Vacating(d, {"read", "fingerprint", "record", "marker"})'
      BY <3>1, <3>2 DEF Vacating
    <3>6. \A places : \A other \in Vacating(d, places) : other = report /\ report.what = "unfiled" /\ "record" \in places
      BY <2>1, <3>1 DEF Vacating, Reported
    <3>7. Marked(d)' /\ Fingerprinted(d)'
      BY <1>2, <3>1, <3>2, <3>5, <3>6 DEF Heard, Fingerprinted, Marked, Filed
    <3>8. CASE report.what = "filed"
      <4>1. /\ recordCopies' = recordCopies
            /\ record' = record \/ record' = [record EXCEPT ![report.name] = d]
        BY <1>5, <2>5, <3>8 DEF TellLedger, Describe
      <4>2. Filed(d)' /\ row'[d].name = report.name /\ row'[d] = row[d]
        BY <1>2, <1>5, <2>1, <3>1, <3>8 DEF True_, Filed
      <4>3. Described(d)'
        BY <3>6, <3>8, <4>1, <4>2 DEF Heard, Described, Filed, Types
      <4> QED BY <2>2, <3>4, <3>7, <4>3 DEF Heard
    <3>9. CASE report.what = "unfiled"
      <4>1. retract_record(report.name)
        BY <1>5, <2>5, <3>9 DEF TellLedger
      <4>2. ~ Filed(d)
        BY <1>5, <2>1, <3>9 DEF True_, Filed
      <4>3. \A name \in Name : record'[name] # d /\ <<name, d>> \notin recordCopies'
        BY <1>1, <3>6, <4>1, <4>2 DEF Heard, Described, retract_record, copies_of, Types, NothingAssumption
      <4>4. Described(d)'
        BY <4>3 DEF Described
      <4> QED BY <2>2, <3>4, <3>7, <4>4 DEF Heard
    <3> QED BY <1>1, <3>8, <3>9 DEF Report
  <2>6. CASE TellIndex(report)
    <3>1. /\ UNCHANGED <<fingerprints, record, recordCopies>> /\ reports' = reports \ {report}
          /\ report.at = "marker"
      BY <2>6 DEF TellIndex, Over
    <3>2. Reported(d)' = {}
      BY <1>5, <3>1, OneIsReported
    <3>3. OneReport(d)' /\ ReportsAreTrue(d)'
      BY <3>2 DEF OneReport, ReportsAreTrue
    <3>4. \A places : \A other \in Vacating(d, places) : other = report /\ report.what = "unfiled" /\ "marker" \in places
      BY <2>1, <3>1 DEF Vacating, Reported
    <3>5. Described(d)' /\ Fingerprinted(d)'
      BY <1>2, <3>1, <3>4 DEF Heard, Described, Fingerprinted, Filed
    <3>6. Marked(d)'
      <4>1. CASE report.what = "filed"
        BY <1>2, <1>5, <2>1, <4>1 DEF Marked, Filed, True_
      <4>2. CASE report.what = "unfiled"
        <5>1. retract_marker(machineOf[d])
          BY <1>5, <2>6, <4>2 DEF TellIndex
        <5>2. marker' # d
          BY <1>1, <5>1 DEF retract_marker, NothingAssumption
        <5> QED BY <5>2 DEF Marked
      <4> QED BY <1>1, <4>1, <4>2 DEF Report
    <3> QED BY <2>2, <3>3, <3>5, <3>6 DEF Heard
  <2> QED BY <2>3, <2>4, <2>5, <2>6
<1> QED BY <1>4, <1>5

\* A machine clears its history, lists its filings, describes one, crashes.
LEMMA MachineIsHeard ==
  ASSUME Types, NEW d \in Document, d \notin astray', Heard(d), NEW m \in Machine,
         \A filing \in backfill[m] : filing.document \in astray \/ Standing(filing.document, filing.name),
         clear_history(m) \/ StartBackfill(m) \/ Backfill(m) \/ MachineCrashes(m) \/ ChangeSettings(m)
  PROVE  Heard(d)'
<1> USE DEF settingsVars, recordVars, markerVars
<1>1. CASE clear_history(m)
  <2> DEFINE gone == {e \in Document : machineOf[e] = m /\ row[e].at = "filed"}
  <2>1. /\ row' = [e \in Document |-> IF e \in gone THEN [row[e] EXCEPT !.at = "cleared", !.receipt = "none"] ELSE row[e]]
        /\ fingerprints' = fingerprints \ gone
        /\ astray' = astray \cup UNION {Overtaken(e) : e \in gone}
        /\ UNCHANGED <<record, recordCopies, marker, reports, backfill>>
    BY <1>1 DEF clear_history
  <2>2. CASE d \notin gone
    BY <2>1, <2>2, UntouchedIsHeard DEF Untouched
  <2>3. CASE d \in gone
    <3>1. Overtaken(d) \subseteq astray'
      BY <2>1, <2>3
    <3>2. Reported(d) = {} /\ ~ Listed(d)
      BY <3>1 DEF Overtaken
    <3>3. Reported(d)' = {} /\ \A places : Vacating(d, places) = {}
      BY <2>1, <3>2 DEF Reported, Vacating
    <3>4. row'[d].at = "cleared" /\ row'[d].name = row[d].name /\ row[d].at = "filed"
      BY <2>1, <2>3 DEF Types, FilingRow
    <3>5. Filed(d)' /\ Filed(d)
      BY <3>4 DEF Filed
    <3>6. Described(d)'
      BY <2>1, <3>3, <3>4, <3>5 DEF Heard, Described
    <3>7. OneReport(d)' /\ ReportsAreTrue(d)' /\ Fingerprinted(d)' /\ Marked(d)'
      BY <3>3, <3>5 DEF OneReport, ReportsAreTrue, Fingerprinted, Marked
    <3>8. ListingsStand(d)'
      BY <2>1, <3>2 DEF ListingsStand, Listed
    <3> QED BY <3>6, <3>7, <3>8 DEF Heard
  <2> QED BY <2>2, <2>3
<1>2. CASE StartBackfill(m)
  <2>1. UNCHANGED <<row, fingerprints, record, recordCopies, marker, reports>>
    BY <1>2 DEF StartBackfill
  <2>2. ASSUME NEW n \in Machine, NEW filing \in backfill'[n], filing.document = d
        PROVE  Standing(d, filing.name)
    <3>1. CASE n # m
      BY <1>2, <2>2, <3>1 DEF StartBackfill, Types, Heard, ListingsStand
    <3>2. CASE n = m
      BY <1>2, <2>2, <3>2 DEF StartBackfill, Types, Standing
    <3> QED BY <3>1, <3>2
  <2>3. ListingsStand(d)'
    BY <2>1, <2>2 DEF ListingsStand, Standing
  <2>4. OneReport(d)' /\ ReportsAreTrue(d)' /\ Described(d)' /\ Fingerprinted(d)' /\ Marked(d)'
    BY <2>1 DEF Heard, OneReport, ReportsAreTrue, True_, Described, Fingerprinted, Marked, Reported, Vacating, Filed
  <2> QED BY <2>3, <2>4 DEF Heard
<1>3. CASE Backfill(m)
  <2>1. PICK filing \in backfill[m] : Describe(filing) /\ backfill' = [backfill EXCEPT ![m] = @ \ {filing}]
    BY <1>3 DEF Backfill
  <2>2. UNCHANGED <<row, fingerprints, recordCopies, marker, reports>>
    BY <1>3, <2>1 DEF Backfill, Describe
  <2>3. \A n \in Machine : backfill'[n] \subseteq backfill[n]
    BY <2>1 DEF Types
  <2>4. CASE filing.document # d
    <3>1. \A name \in Name : record'[name] = d => record[name] = d
      BY <2>1, <2>4 DEF Describe, Types
    <3> QED BY <2>2, <2>3, <3>1, UntouchedIsHeard DEF Untouched
  <2>5. CASE filing.document = d
    <3>1. d \notin astray
      BY <1>3 DEF Backfill
    <3>2. Filed(d) /\ row[d].name = filing.name
      BY <2>5, <3>1 DEF Standing, Filed
    <3>3. \A name \in Name : record'[name] = d => record[name] = d \/ name = filing.name
      BY <2>1 DEF Describe, Types
    <3>4. Described(d)'
      BY <2>2, <3>2, <3>3 DEF Heard, Described, Filed, Vacating
    <3>5. ListingsStand(d)'
      BY <2>2, <2>3 DEF Heard, ListingsStand, Standing
    <3>6. OneReport(d)' /\ ReportsAreTrue(d)' /\ Fingerprinted(d)' /\ Marked(d)'
      BY <2>2 DEF Heard, OneReport, ReportsAreTrue, True_, Fingerprinted, Marked, Reported, Vacating, Filed
    <3> QED BY <3>4, <3>5, <3>6 DEF Heard
  <2> QED BY <2>4, <2>5
<1>4. CASE MachineCrashes(m)
  <2> DEFINE lost == {report \in reports : machineOf[report.document] = m}
  <2>1. /\ reports' = reports \ lost /\ astray' = astray \cup {report.document : report \in lost}
        /\ backfill' = [backfill EXCEPT ![m] = {}]
        /\ UNCHANGED <<row, fingerprints, record, recordCopies, marker>>
    BY <1>4 DEF MachineCrashes
  <2>2. \A report \in lost : report.document # d
    BY <2>1
  <2>3. \A report : report.document = d => (report \in reports' <=> report \in reports)
    BY <2>1, <2>2
  <2>4. \A n \in Machine : backfill'[n] \subseteq backfill[n]
    BY <2>1 DEF Types
  <2> QED BY <2>1, <2>3, <2>4, UntouchedIsHeard DEF Untouched
<1>5. CASE ChangeSettings(m)
  BY <1>5, UntouchedIsHeard DEF Untouched, ChangeSettings
<1> QED BY <1>1, <1>2, <1>3, <1>4, <1>5

\* The sync client leaves a copy of what is there.
LEMMA CopyIsHeard ==
  ASSUME Types, NEW d \in Document, Heard(d), LeaveCopy
  PROVE  Heard(d)'
BY UntouchedIsHeard DEF Untouched, LeaveCopy, settingsVars

-----------------------------------------------------------------------------
(* The theorems *)

\* Before anything is filed.
LEMMA InitIInv == LedgerInit => IInv
<1> SUFFICES ASSUME LedgerInit PROVE IInv
  OBVIOUS
<1>1. Types
  BY DEF LedgerInit, Types, FilingRow
<1>2. ASSUME NEW d \in Document PROVE Heard(d)
  <2>1. OneReport(d) /\ ReportsAreTrue(d) /\ ListingsStand(d)
    BY DEF LedgerInit, OneReport, ReportsAreTrue, ListingsStand, Reported
  <2>2. Described(d) /\ Fingerprinted(d) /\ Marked(d)
    BY NothingAssumption DEF LedgerInit, Described, Fingerprinted, Marked
  <2> QED BY <2>1, <2>2 DEF Heard
<1> QED BY <1>1, <1>2 DEF IInv

\* What is known of a document that is not astray is known of it always.
LEMMA NextIInv == IInv /\ [LedgerNext]_ledgerVars => IInv'
<1>1. ASSUME IInv, LedgerNext PROVE IInv'
  <2>1. Types'
    BY <1>1, NextTypes DEF IInv
  <2>2. ASSUME NEW d \in Document, d \notin astray' PROVE Heard(d)'
    <3>1. Types /\ Heard(d)
      BY <1>1, <2>2, AstrayStays DEF IInv
    <3>2. ASSUME NEW e \in Document, File(e) \/ Undo(e) PROVE Heard(d)'
      BY <2>2, <3>1, <3>2, QueueIsHeard
    <3>3. ASSUME NEW report \in reports,
                 ReadReceipt(report) \/ Fingerprint(report) \/ TellLedger(report) \/ TellIndex(report)
          PROVE  Heard(d)'
      BY <2>2, <3>1, <3>3, ReportIsHeard
    <3>4. ASSUME NEW m \in Machine,
                 clear_history(m) \/ StartBackfill(m) \/ Backfill(m) \/ MachineCrashes(m) \/ ChangeSettings(m)
          PROVE  Heard(d)'
      <4>1. \A filing \in backfill[m] : filing.document \in astray \/ Standing(filing.document, filing.name)
        BY <1>1 DEF IInv, Types, Heard, ListingsStand
      <4> QED BY <2>2, <3>1, <3>4, <4>1, MachineIsHeard
    <3>5. CASE LeaveCopy
      BY <3>1, <3>5, CopyIsHeard
    <3> QED BY <1>1, <3>2, <3>3, <3>4, <3>5 DEF LedgerNext
  <2> QED BY <2>1, <2>2 DEF IInv
<1>2. ASSUME IInv, UNCHANGED ledgerVars PROVE IInv'
  <2>1. Types' /\ astray' = astray
    BY <1>2 DEF IInv, Types, ledgerVars
  <2>2. ASSUME NEW d \in Document, d \notin astray' PROVE Heard(d)'
    BY <1>2, <2>1, <2>2, UntouchedIsHeard DEF IInv, Untouched, ledgerVars
  <2> QED BY <2>1, <2>2 DEF IInv
<1> QED BY <1>1, <1>2

\* Whatever is filed, put back, described late or lost, what is remembered
\* of a document every report of which was heard is of its filing, or an
\* undo that will take it away is under way.
THEOREM LedgerInvariance == LedgerSpec => []IInv
BY InitIInv, NextIInv, PTL DEF LedgerSpec

\* No description, and no copy of one, is left of a document that was put
\* back, once its undo has been reported.
THEOREM DescriptionsAreOfFilings == LedgerSpec => []DescribedIsFiled
<1>1. IInv => DescribedIsFiled
  <2> SUFFICES ASSUME IInv, NEW d \in Document, Settled(d), ~ Filed(d), NEW name \in Name
               PROVE  record[name] # d /\ <<name, d>> \notin recordCopies
    BY DEF DescribedIsFiled
  <2>1. Heard(d) /\ Reported(d) = {}
    BY DEF IInv, Settled
  <2>2. Vacating(d, {"read", "fingerprint", "record"}) = {}
    BY <2>1 DEF Reported, Vacating
  <2> QED BY <2>1, <2>2 DEF Heard, Described
<1> QED BY <1>1, LedgerInvariance, PTL

\* No document repeats one that was put back, or itself.
THEOREM RepetitionsAreOfFilings == LedgerSpec => []RepeatedIsFiled
<1>1. ASSUME IInv, NEW e \in Document, Settled(e), e \in fingerprints \/ marker = e PROVE Filed(e)
  <2>1. Heard(e) /\ Reported(e) = {}
    BY <1>1 DEF IInv, Settled
  <2>2. \A places : Vacating(e, places) = {}
    BY <2>1 DEF Reported, Vacating
  <2> QED BY <1>1, <2>1, <2>2 DEF Heard, Fingerprinted, Marked
<1>2. ASSUME IInv PROVE \A d, e \in Document : e \in near_duplicate_of(d) /\ Settled(e) => Filed(e)
  BY <1>1, <1>2 DEF near_duplicate_of, find_similar, similar_elsewhere, lookup_similar, lookup
<1>3. ASSUME IInv, NEW d \in Document, row[d].at = "here", HeldAsDuplicate(d)
      PROVE  \E e \in Document \ {d} : Filed(e) \/ ~ Settled(e)
  <2>1. CASE completed_duplicate(d)
    BY <2>1 DEF completed_duplicate, Filed
  <2>2. CASE filed_elsewhere(d)
    <3>1. marker # Nothing /\ marker # d
      BY <2>2 DEF filed_elsewhere, lookup, known_filing
    <3>2. marker \in Document \ {d}
      BY <1>3, <3>1 DEF IInv, Types
    <3> QED BY <1>1, <1>3, <3>2
  <2> QED BY <1>3, <2>1, <2>2 DEF HeldAsDuplicate
<1>4. IInv => RepeatedIsFiled
  BY <1>2, <1>3 DEF RepeatedIsFiled
<1> QED BY <1>4, LedgerInvariance, PTL
=============================================================================
