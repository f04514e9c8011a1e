------------------------------ MODULE Analysis ------------------------------
(***************************************************************************)
(* What becomes of a model's reply before a document is named by it        *)
(* (crates/intern-engine/src): validate.rs checks each fact against the    *)
(* text, infer.rs reads the role of the date, the type of the title and    *)
(* the issuer of a bill off the page, and whatever is wrong sends the      *)
(* proposal to review; a proposal without a reason is filed unseen.        *)
(*                                                                         *)
(* A document is what those checks can tell of it: the statements of       *)
(* dates, each on a line and after some wording; its title; the parties,   *)
(* and the lines that say who is billed and who issued it.  A type is the  *)
(* whole title, the words it ends with, other words of the document, or    *)
(* words that are not in it.                                               *)
(***************************************************************************)
EXTENDS Naturals, Sequences, FiniteSets

CONSTANTS
  Sources,     \* the documents looked at
  Replies(_),  \* the replies to a document
  None         \* no date, no role, no type

VARIABLES digest, reply, validated

analysisVars == <<digest, reply, validated>>

Date == {"a", "b", "c"}

\* What is written before a date, as far as the windows reach: "reference"
\* names another agreement by it, and "wrapped" is the same with the line
\* broken right before the date; "title" is the document's whole type and
\* nothing else; "label" is a bare "Date:"; "plain" has no cue at all.
Wording == {"reference", "wrapped", "title", "effective", "signed", "invoiced", "label", "plain"}

Statement == [date : Date, line : Nat, wording : Wording]

\* "branded" is a title with a party's name, or a part of a document, in it.
Title == {"plain", "branded", "none"}

\* The families of types that are treated in a way of their own; "invoice"
\* stands for whatever one party issues.
Kind == {"agreement", "amendment", "invoice"}

Source ==
  [statements : SUBSET Statement,
   cued : SUBSET Nat,   \* lines with a word like "in force" besides
   title : Title, kind : Kind,
   parties : SUBSET STRING, customers : SUBSET STRING, issuers : SUBSET STRING,
   warned : BOOLEAN,    \* by the parser, of something that affects the facts
   readable : BOOLEAN]

Type == {"whole", "ending", "body", "invented"}

PartyRelation == {"between", "for", "with", "from", "to", "none"}

DateRole == {"effective", "execution", "amendment", "invoice", "other"}

Reply ==
  [type : Type \cup {None}, date : Date \cup {"invented", None}, role : DateRole \cup {None},
   parties : Seq(STRING), relation : PartyRelation,
   description : {"usable", "long", "fragment", "claims"},
   doubt : {"none", "unsure", "asks"}]

\* The documents and replies have these types, and nothing is None but None.
ASSUME AnalysisAssumption ==
  /\ Sources \subseteq Source
  /\ \A s \in Sources : Replies(s) \subseteq Reply
  /\ None \notin Type \cup Date \cup DateRole \cup {"invented"}

ReviewReason ==
  {"TypeMissing", "TypeUnsupported", "TypeInferred", "DateMissing", "DateUnsupported",
   "PartyUnsupported", "DescriptionInvalid", "DescriptionUnsupported", "LowConfidence",
   "ModelRequestedReview", "ParserWarning"}

When(condition, reason) == IF condition THEN {reason} ELSE {}

-----------------------------------------------------------------------------
(* The type *)

validate_document_type(r) ==
  IF r.type = None THEN [type |-> None, supported |-> TRUE]
  ELSE IF r.type = "invented" THEN [type |-> None, supported |-> FALSE]
  ELSE [type |-> r.type, supported |-> TRUE]

\* The first heading that names a kind of document.
infer_document_type(s) == IF s.title = "none" THEN None ELSE "whole"

\* Completed when the title adds a few plain words to it.
complete_type_from_title(type, s) ==
  IF type = "ending" /\ s.title = "plain" THEN infer_document_type(s) ELSE type

\* The family of a type: the title's own for the title and its last words.
TypeKind(type, s) == IF type \in {"whole", "ending"} THEN s.kind ELSE "unknown"

-----------------------------------------------------------------------------
(* The date *)

Stating(date, s) == {statement \in s.statements : statement.date = date}

digest_contains_date(date, s) == Stating(date, s) # {}

\* Read on its own line.  A bill that dates itself has no word for an
\* agreement before its date.
reference_introduced(statement, s) ==
  \/ statement.wording = "reference"
  \/ statement.wording = "title" /\ s.kind # "invoice"

\* Read with the line before it, when the sentence goes on.
reference_wrapped(statement, s) == reference_introduced(statement, s) \/ statement.wording = "wrapped"

names_this_document(statement, type) == statement.wording = "title" /\ type = "whole"

\* Every statement of the date is of another document's.
tainted(date, s, type) ==
  \A statement \in Stating(date, s) :
    reference_wrapped(statement, s) /\ ~ names_this_document(statement, type)

EffectiveLines(s) ==
  s.cued \cup {statement.line : statement \in {t \in s.statements : t.wording = "effective"}}

\* The other dates on a line about when something takes effect.
alternates(date, s) ==
  {statement.date : statement \in {t \in s.statements :
     t.date # date /\ t.line \in EffectiveLines(s) /\ ~ reference_introduced(t, s)}}

validate_date(r, s, type) ==
  IF r.date = None THEN [date |-> None, role |-> None, supported |-> TRUE]
  ELSE IF ~ digest_contains_date(r.date, s) THEN [date |-> None, role |-> None, supported |-> FALSE]
  ELSE IF ~ tainted(r.date, s, type) THEN [date |-> r.date, role |-> r.role, supported |-> TRUE]
  ELSE IF Cardinality(alternates(r.date, s)) = 1
       THEN [date |-> CHOOSE d \in alternates(r.date, s) : TRUE, role |-> "effective", supported |-> TRUE]
  ELSE [date |-> None, role |-> None, supported |-> FALSE]

role_from_wording(wording) ==
  CASE wording = "invoiced" -> {"invoice"}
    [] wording = "effective" -> {"effective"}
    [] wording = "signed" -> {"execution"}
    [] OTHER -> {}

\* A bill's "INVOICE dated" says no more than "Date:".
is_generic_label(statement, s) ==
  statement.wording = "label" \/ (statement.wording = "title" /\ s.kind = "invoice")

default_role(kind) ==
  CASE kind = "agreement" -> "effective" [] kind = "amendment" -> "amendment"
    [] kind = "invoice" -> "invoice" [] OTHER -> None

\* The most specific wording, an amendment's own date whatever the wording,
\* or what a bare label means on a document of this kind.
infer_date_role(date, s, type) ==
  LET own == {statement \in Stating(date, s) : ~ reference_wrapped(statement, s)}
      found == UNION {role_from_wording(statement.wording) : statement \in own}
      generic == \E statement \in own : is_generic_label(statement, s)
      by_wording == IF "invoice" \in found THEN "invoice" ELSE IF "effective" \in found THEN "effective"
                    ELSE IF "execution" \in found THEN "execution" ELSE None
      kind == TypeKind(type, s)
  IN IF kind = "amendment" /\ by_wording # "invoice" /\ (by_wording # None \/ generic) THEN "amendment"
     ELSE IF by_wording # None THEN by_wording
     ELSE IF generic THEN default_role(kind)
     ELSE None

-----------------------------------------------------------------------------
(* The parties *)

\* Where each supported name is given first.
Supported(names, s) ==
  {i \in DOMAIN names : names[i] \in s.parties /\ \A j \in 1..(i - 1) : names[j] # names[i]}

Earliest(places) == CHOOSE i \in places : \A j \in places : i <= j

\* Each of them once, as many as there is room for.
FirstTwo(names, s) ==
  LET places == Supported(names, s)
      rest == places \ {Earliest(places)}
  IN IF places = {} THEN <<>>
     ELSE IF rest = {} THEN <<names[Earliest(places)]>>
     ELSE <<names[Earliest(places)], names[Earliest(rest)]>>

AllSupported(names, s) == \A i \in DOMAIN names : names[i] \in s.parties

\* A slip: only the two names there is room for are looked up.
validate_partiesFirstTwo(r, s) ==
  LET names == SubSeq(r.parties, 1, IF Len(r.parties) < 2 THEN Len(r.parties) ELSE 2) IN
  [parties |-> FirstTwo(names, s), supported |-> AllSupported(names, s)]

validate_parties(r, s) ==
  [parties |-> FirstTwo(r.parties, s), supported |-> AllSupported(r.parties, s)]

\* "between" needs two sides.
relation_of(r, parties) ==
  IF parties = <<>> THEN "none"
  ELSE IF r.relation = "between" /\ Len(parties) < 2 THEN "with"
  ELSE r.relation

\* A slip: one line settles it, and two that agree do not.
nomineesOfOneCue(parties, s) ==
  LET cues == {<<i, i>> : i \in {j \in 1..2 : parties[j] \in s.issuers}}
                \cup {<<3 - i, i>> : i \in {j \in 1..2 : parties[j] \in s.customers}}
  IN IF Cardinality(cues) = 1 THEN {cue[1] : cue \in cues} ELSE {}

\* Who issued it, by a line of his own or because the other is billed.
nominees(parties, s) ==
  {i \in 1..2 : parties[i] \in s.issuers \/ parties[3 - i] \in s.customers}

repair_issued_relation(type, parties, relation, s) ==
  IF TypeKind(type, s) = "invoice" /\ Len(parties) = 2 /\ relation = "between"
       /\ Cardinality(nominees(parties, s)) = 1
  THEN [parties |-> <<parties[CHOOSE i \in nominees(parties, s) : TRUE]>>, relation |-> "from"]
  ELSE [parties |-> parties, relation |-> relation]

\* A one-sided relation is about one party.
truncate(parties, relation) ==
  IF relation \in {"for", "with", "from", "to"} THEN SubSeq(parties, 1, 1) ELSE parties

-----------------------------------------------------------------------------
(* validate, and what the engine makes of it *)

validate_description(r) ==
  When(r.description \in {"long", "fragment"}, "DescriptionInvalid")
    \cup When(r.description = "claims", "DescriptionUnsupported")

validate(r, s) ==
  LET typed == validate_document_type(r)
      completed == complete_type_from_title(typed.type, s)
      type == IF completed = None THEN infer_document_type(s) ELSE completed
      dated == validate_date(r, s, type)
      inferred == IF dated.date = None THEN None ELSE infer_date_role(dated.date, s, type)
      named == validate_parties(r, s)
      repaired == repair_issued_relation(type, named.parties, relation_of(r, named.parties), s)
  IN [type |-> type, date |-> dated.date, role |-> IF inferred = None THEN dated.role ELSE inferred,
      parties |-> truncate(repaired.parties, repaired.relation), relation |-> repaired.relation,
      reasons |->
        When(~ typed.supported, "TypeUnsupported")
          \cup When(completed = None /\ type # None, "TypeInferred")
          \cup When(type = None /\ typed.supported, "TypeMissing")
          \cup When(~ dated.supported, "DateUnsupported")
          \cup When(dated.supported /\ dated.date = None, "DateMissing")
          \cup When(~ named.supported, "PartyUnsupported")
          \cup validate_description(r)
          \cup When(r.doubt = "unsure", "LowConfidence")
          \cup When(r.doubt = "asks", "ModelRequestedReview")
          \cup When(s.warned, "ParserWarning")]

\* A page image came with next to no text.
barely_readable(s) == ~ s.readable

Unset == [type |-> None]

\* The extraction hands a document over, the model replies.
Distill == /\ digest = Unset
           /\ digest' \in Sources
           /\ UNCHANGED <<reply, validated>>

analyze_digest ==
  /\ digest # Unset /\ validated = Unset
  /\ \E r \in Replies(digest) :
       /\ reply' = r
       /\ validated' = [validate(r, digest) EXCEPT !.reasons =
                        @ \cup When(barely_readable(digest), "ParserWarning")]
  /\ UNCHANGED digest

AnalysisInit == digest = Unset /\ reply = Unset /\ validated = Unset

AnalysisNext == Distill \/ analyze_digest

AnalysisSpec == AnalysisInit /\ [][AnalysisNext]_analysisVars

Outcome ==
  [type : Type \cup {None}, date : Date \cup {None}, role : DateRole \cup {None},
   parties : Seq(STRING), relation : PartyRelation, reasons : SUBSET ReviewReason]

AnalysisTypeOK ==
  /\ digest = Unset \/ digest \in Source
  /\ reply = Unset \/ reply \in Reply
  /\ validated = Unset \/ validated \in Outcome

-----------------------------------------------------------------------------
Judged == validated # Unset
Ready == Judged /\ validated.reasons = {}

\* The document states the date, but only to name another one by it.
Foreign(date) ==
  \A statement \in Stating(date, digest) : statement.wording \in {"reference", "wrapped"}

NamesIn(names) == {names[i] : i \in DOMAIN names}

\* The two names of the document that the reply gives first.
FirstNamed(party, other) ==
  /\ party # other /\ {party, other} \subseteq NamesIn(reply.parties) \cap digest.parties
  /\ \A i \in DOMAIN reply.parties : reply.parties[i] \in digest.parties \ {party, other} =>
       {party, other} \subseteq {reply.parties[j] : j \in 1..(i - 1)}

\* A bill is not said to be between two parties when its lines agree on who
\* issued it, and is said to be from one of them only when they do
\* (repair_issued_relation).
Issuer(party, other) == party \in digest.issuers \/ other \in digest.customers
BillIsFromItsIssuer ==
  Judged /\ reply.relation = "between" /\ TypeKind(validated.type, digest) = "invoice" =>
    \A party, other \in digest.parties : FirstNamed(party, other) =>
      /\ validated.relation = "between" => (Issuer(party, other) <=> Issuer(other, party))
      /\ validated.relation = "from" /\ validated.parties = <<party>> =>
           Issuer(party, other) /\ ~ Issuer(other, party)

\* What is filed unseen says what the model said and the document supports:
\* nothing was dropped, guessed or doubted on the way, a date it took from
\* the model is not another document's wherever its line was broken, and the
\* name carries as many parties as its relation is about (validate).
ReadyKeepsTheReply ==
  Ready =>
    /\ reply.type \notin {None, "invented"} /\ validated.type # None
    /\ validated.date # None /\ digest_contains_date(reply.date, digest)
    /\ validated.date = reply.date => ~ Foreign(reply.date)
    /\ NamesIn(reply.parties) \subseteq digest.parties
    /\ reply.description = "usable" /\ reply.doubt = "none"
    /\ digest.readable /\ ~ digest.warned
    /\ validated.relation = "between" => Len(validated.parties) = 2
    /\ validated.relation \in {"for", "with", "from", "to"} => Len(validated.parties) = 1
=============================================================================
