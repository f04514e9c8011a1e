---------------------------- MODULE Extraction ----------------------------
(***************************************************************************)
(* What the worker process does with one document (crates/intern-worker/   *)
(* src): a snapshot of the source, then the reader its extension names,    *)
(* page by page or cell by cell, and the document it sends; and what the   *)
(* host makes of that document (adapt_document of crates/intern-engine/    *)
(* src/worker.rs).                                                         *)
(*                                                                         *)
(* A page is what the decisions look at: how much text it carries, how     *)
(* much of it is image, whether the text is broken, whether it is too      *)
(* large to render, and how well it can be recognized.  A cell is its      *)
(* position.  A cancel or the deadline is one failure among others.        *)
(***************************************************************************)
EXTENDS Naturals, Sequences, FiniteSets

CONSTANTS
  MaxPages,            \* bound on the pages of a document
  MaxChunks,           \* bound on the reads a snapshot takes
  MaxCells,            \* bound on the cells of a sheet
  Row, Column,         \* positions a cell may have
  MAX_SHEET_ROWS, MAX_SHEET_COLS,
  CELLS_BEFORE_PRUNE

ASSUME SheetAssumption ==
  /\ Row \subseteq Nat /\ Column \subseteq Nat
  /\ {MAX_SHEET_ROWS, MAX_SHEET_COLS, CELLS_BEFORE_PRUNE} \subseteq Nat \ {0}

VARIABLES
  reader,    \* the reader at work, or the stage before and after it
  version,   \* the version of the source on disk
  opened,    \* its metadata when it was opened
  copied,    \* the versions the snapshot has bytes of, and its chunks
  pages,     \* ExtractedDocument.pages
  warnings,
  image,     \* the page number of the optional image, or 0
  cells,     \* CappedSheet.cells
  corner,    \* start of the used range so far
  seen,      \* every cell the sheet has shown
  error      \* the code the document failed with

extractVars == <<reader, version, opened, copied, pages, warnings, image, cells, corner, seen,
                 error>>
sheetVars == <<cells, corner, seen>>
documentVars == <<pages, warnings, image>>
snapshotVars == <<version, opened, copied>>

\* Lengths stand for the class they begin: 20, 100 and 200 characters.
PageKind == [meaningful : {0, 20, 100, 200}, coverage : {0, 65, 90}, words : BOOLEAN,
             corrupt : {"none", "some", "many"}, large : BOOLEAN]

Page(n, source, confident, escalated) ==
  [page_number |-> n, source |-> source, confident |-> confident, vision_escalated |-> escalated]

Failure == {"CANCELED", "RESOURCE_LIMIT_EXCEEDED", "UNSUPPORTED_FORMAT", "NATIVE_ASSETS_MISSING",
            "PARSE_FAILED"}

Fails(code) == error' = code /\ reader' = "failed"

-----------------------------------------------------------------------------
(* snapshot_source *)

\* Another program writes to the source while it is being copied.
SourceChanges ==
  /\ version = 1
  /\ version' = 2
  /\ UNCHANGED <<reader, opened, copied, documentVars, sheetVars, error>>

Open ==
  /\ reader = "start"
  /\ \/ reader' = "copying" /\ opened' = version /\ UNCHANGED error
     \/ Fails("PARSE_FAILED") /\ UNCHANGED opened
  /\ UNCHANGED <<version, copied, documentVars, sheetVars>>

\* write_from_reader: one read of the open file; the size and what the
\* workspace may hold are looked at after each.
CopyChunk ==
  /\ reader = "copying"
  /\ Len(copied) < MaxChunks
  /\ \/ copied' = Append(copied, version) /\ UNCHANGED <<reader, error>>
     \/ Fails("RESOURCE_LIMIT_EXCEEDED") /\ UNCHANGED copied
  /\ UNCHANGED <<version, opened, documentVars, sheetVars>>

Readers == {"pdf", "image", "office", "text", "email", "workbook"}

\* A slip: the copy is taken for whole when its length is right.
SameMetadataByLength == TRUE

\* Length and time of the open file are what they were before the copy.
SameMetadata == version = opened

\* extract_path: the reader the extension names, once the copy is whole.
Route ==
  /\ reader = "copying"
  /\ copied # <<>>
  /\ IF SameMetadata
     THEN \/ reader' \in Readers /\ UNCHANGED error
          \/ Fails("UNSUPPORTED_FORMAT")
          \/ Fails("CANCELED")
     ELSE Fails("PARSE_FAILED")
  /\ UNCHANGED <<snapshotVars, documentVars, sheetVars>>

-----------------------------------------------------------------------------
(* extract_pdf and extract_image *)

\* Too little text for a page that is mostly image, a stamp on a page that
\* is all image, or text that is broken.
page_needs_ocr(page) ==
  \/ page.meaningful < 20 /\ page.coverage >= 65
  \/ page.meaningful < 200 /\ page.coverage >= 90
  \/ page.corrupt = "many"

page_needs_vision(page) == page.meaningful < 100 /\ page.coverage >= 65 /\ ~ page.words

\* A reading at 75 or more, or below it, whichever orientation it was found
\* in; or no engine, or no reading.
recognize == {"confident", "unsure", "NATIVE_ASSETS_MISSING", "PARSE_FAILED", "CANCELED"}

\* One page at most goes along as an image.
Escalate == image = 0

NativePage(n, page) ==
  LET escalated == ~ page.large /\ page_needs_vision(page) /\ Escalate IN
  /\ pages' = Append(pages, Page(n, "native", TRUE, escalated))
  /\ image' = IF escalated THEN n ELSE image
  /\ UNCHANGED <<warnings, reader, error>>

OcrPage(n, page) ==
  \E reading \in IF page.large THEN {"RESOURCE_LIMIT_EXCEEDED"} ELSE recognize :
    \/ /\ reading \in Failure
       /\ Fails(reading)
       /\ UNCHANGED documentVars
    \/ /\ reading \notin Failure
       /\ LET escalated == Escalate /\ reading = "unsure" IN
          /\ pages' = Append(pages, Page(n, "ocr", reading = "confident", escalated))
          /\ image' = IF escalated THEN n ELSE image
       /\ warnings' = warnings
             \cup (IF page.corrupt = "none" THEN {} ELSE {"NATIVE_TEXT_CORRUPT"})
             \cup IF reading = "unsure" THEN {"LOW_OCR_CONFIDENCE"} ELSE {}
       /\ UNCHANGED <<reader, error>>

PdfPage ==
  /\ reader = "pdf"
  /\ Len(pages) < MaxPages
  /\ \E page \in PageKind :
       IF page_needs_ocr(page) THEN OcrPage(Len(pages) + 1, page)
                               ELSE NativePage(Len(pages) + 1, page)
  /\ UNCHANGED <<snapshotVars, sheetVars>>

\* inspect: the pages are counted and looked at first; a page that cannot
\* be rendered for its image takes the document with it.
PdfEnds ==
  /\ reader = "pdf"
  /\ \/ reader' = "done" /\ UNCHANGED error
     \/ \E code \in Failure \ {"UNSUPPORTED_FORMAT"} : Fails(code)
  /\ UNCHANGED <<snapshotVars, documentVars, sheetVars>>

\* The first frame of an image file; the rest is reported as left out.
ReadImage ==
  /\ reader = "image"
  /\ \/ \E confident, unread \in BOOLEAN :
          /\ pages' = <<Page(1, "ocr", confident, TRUE)>>
          /\ image' = 1
          /\ warnings' = (IF confident THEN {} ELSE {"LOW_OCR_CONFIDENCE"})
                           \cup IF unread THEN {"TEXT_TRUNCATED"} ELSE {}
          /\ reader' = "done"
          /\ UNCHANGED error
     \/ \E code \in Failure \ {"UNSUPPORTED_FORMAT"} : Fails(code) /\ UNCHANGED documentVars
  /\ UNCHANGED <<snapshotVars, sheetVars>>

-----------------------------------------------------------------------------
(* One page: Office, text and mail *)

ReadOnePage ==
  /\ reader \in {"office", "text", "email"}
  /\ \/ /\ pages' = <<Page(1, IF reader = "office" THEN "anydoc" ELSE "text", TRUE, FALSE)>>
        /\ warnings' \in {{}} \cup IF reader = "text" THEN {{"NATIVE_TEXT_CORRUPT"}} ELSE {}
        /\ reader' = "done"
        /\ UNCHANGED <<image, error>>
     \/ \E code \in Failure \ {"NATIVE_ASSETS_MISSING"} :
          /\ code = "UNSUPPORTED_FORMAT" => reader = "office"
          /\ Fails(code)
          /\ UNCHANGED documentVars
  /\ UNCHANGED <<snapshotVars, sheetVars>>

-----------------------------------------------------------------------------
(* extract_xlsx *)

Lesser(a, b) == IF a < b THEN a ELSE b
Greatest(S) == CHOOSE a \in S : \A b \in S : b <= a

InWindow(cell, start) ==
  cell[1] - start[1] < MAX_SHEET_ROWS /\ cell[2] - start[2] < MAX_SHEET_COLS

\* A slip: whatever is past the first windowful is dropped as it comes.
prune_to_firsts(S, start) == {cell \in S : cell[1] < MAX_SHEET_ROWS /\ cell[2] < MAX_SHEET_COLS}

prune_to_window(S, start) == {cell \in S : InWindow(cell, start)}

\* read_capped_sheet: the corner only ever moves up and to the left.
NextCell ==
  /\ reader = "workbook"
  /\ Cardinality(seen) < MaxCells
  /\ \E cell \in (Row \X Column) \ seen :
       LET start == IF seen = {} THEN cell
                    ELSE <<Lesser(corner[1], cell[1]), Lesser(corner[2], cell[2])>>
           kept == cells \cup {cell} IN
       /\ seen' = seen \cup {cell}
       /\ corner' = start
       /\ cells' = IF Cardinality(kept) >= CELLS_BEFORE_PRUNE
                   THEN prune_to_window(kept, start) ELSE kept
  /\ UNCHANGED <<reader, snapshotVars, documentVars, error>>

\* How far the used range goes, and how far what is kept of it does.
Extent(S, n) == IF S = {} THEN 0 ELSE Greatest({cell[n] - corner[n] + 1 : cell \in S})

\* render_sheet: rows or columns of the used range that are not shown.
Elided(shown) ==
  \/ Extent(seen, 1) > Extent(shown, 1)
  \/ Extent(seen, 2) > Extent(shown, 2)

\* A sheet without cells makes no page, a workbook without pages none at all.
SheetEnds ==
  /\ reader = "workbook"
  /\ \/ /\ seen # {}
        /\ LET shown == prune_to_window(cells, corner) IN
           /\ cells' = shown
           /\ warnings' = IF Elided(shown) THEN {"TEXT_TRUNCATED"} ELSE {}
        /\ pages' = <<Page(1, "anydoc", TRUE, FALSE)>>
        /\ reader' = "done"
        /\ UNCHANGED <<image, error>>
     \/ /\ \E code \in Failure \ {"NATIVE_ASSETS_MISSING"} :
             (code = "UNSUPPORTED_FORMAT" => seen = {}) /\ Fails(code)
        /\ UNCHANGED <<cells, documentVars>>
  /\ UNCHANGED <<snapshotVars, corner, seen>>

-----------------------------------------------------------------------------
(* adapt_document, in the host *)

\* Pages are numbered once each, from one, and an image is of one of them.
adapt_document ==
  LET numbers == {pages[n].page_number : n \in DOMAIN pages} IN
  /\ 0 \notin numbers
  /\ Cardinality(numbers) = Len(pages)
  /\ image # 0 => image \in numbers

\* What the host adds to the warnings by looking at the pages itself.
parser_warnings ==
  warnings \cup
  IF \E n \in DOMAIN pages : pages[n].source = "ocr" /\ ~ pages[n].confident
  THEN {"LOW_OCR_CONFIDENCE"} ELSE {}

-----------------------------------------------------------------------------
ExtractInit ==
  /\ reader = "start"
  /\ version = 1
  /\ opened = 0
  /\ copied = <<>>
  /\ pages = <<>> /\ warnings = {} /\ image = 0
  /\ cells = {} /\ corner = <<0, 0>> /\ seen = {}
  /\ error = "none"

ExtractNext ==
  \/ SourceChanges \/ Open \/ CopyChunk \/ Route
  \/ PdfPage \/ PdfEnds \/ ReadImage \/ ReadOnePage
  \/ NextCell \/ SheetEnds

ExtractSpec == ExtractInit /\ [][ExtractNext]_extractVars

-----------------------------------------------------------------------------
(* What a document that was read can be relied on for *)

ExtractTypeOK ==
  /\ reader \in {"start", "copying", "done", "failed"} \cup Readers
  /\ {version, opened} \subseteq 0..2
  /\ copied \in Seq({1, 2})
  /\ warnings \subseteq {"LOW_OCR_CONFIDENCE", "NATIVE_TEXT_CORRUPT", "TEXT_TRUNCATED"}
  /\ cells \subseteq seen
  /\ error \in Failure \cup {"none"}
  /\ (error # "none") <=> (reader = "failed")

\* What is read is one version of the source, whoever writes to it during
\* the copy (snapshot_source, the comparison of its metadata).
SnapshotIsOneVersion ==
  reader \in Readers => \A a, b \in DOMAIN copied : copied[a] = copied[b]

\* The host accepts every document the worker sends, finds no warning the
\* worker forgot, and the image is of the one page marked for it.  Pruning a
\* sheet while it streams shows every cell of the window at the final corner,
\* and the document says so when it does not show a cell (adapt_document;
\* read_capped_sheet, "that corner only ever moves up and to the left").
DocumentIsWhatWasRead ==
  reader = "done" =>
    /\ adapt_document
    /\ parser_warnings = warnings
    /\ {pages[n].page_number : n \in {k \in DOMAIN pages : pages[k].vision_escalated}} = {image} \ {0}
    /\ seen # {} =>
         /\ cells = {cell \in seen : InWindow(cell, corner)}
         /\ ("TEXT_TRUNCATED" \in warnings) <=> (cells # seen)
=============================================================================
