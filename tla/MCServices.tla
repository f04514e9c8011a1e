---------------------------- MODULE MCServices ----------------------------
(***************************************************************************)
(* The parts that work beside the queue, each by itself: a behaviour is    *)
(* one part's, chosen at the start, and the others stay as they began.     *)
(***************************************************************************)
EXTENDS Worker, Extraction, ModelServer, Download, Admission, Ledgers,
        Analysis

CONSTANT Part   \* the parts to check
VARIABLE part

\* Documents and replies that differ in their dates, ...
Dated ==
  LET At(date, line, wordings) ==
        {{}} \cup {{[date |-> date, line |-> line, wording |-> w]} : w \in wordings}
      Others == {"reference", "wrapped", "effective", "plain"}
  IN {[statements |-> s, cued |-> cued, title |-> title, kind |-> kind,
       parties |-> {}, customers |-> {}, issuers |-> {}, warned |-> FALSE, readable |-> TRUE] :
        s \in {one \cup two \cup three \cup four :
                 one \in At("a", 1, Wording), two \in At("a", 2, Wording),
                 three \in At("b", 1, Others), four \in At("c", 2, Others)},
        cued \in {{}, {2}}, title \in {"plain", "branded"}, kind \in Kind}

\* ... in their parties, ...
Billed ==
  {[statements |-> {[date |-> "a", line |-> 1, wording |-> "label"]}, cued |-> {}, title |-> title,
    kind |-> kind, parties |-> parties, customers |-> customers, issuers |-> issuers,
    warned |-> FALSE, readable |-> TRUE] :
      parties \in {{"p", "q"}, {"p", "q", "x"}}, title \in Title, kind \in Kind, customers \in SUBSET {"p", "q"}, issuers \in SUBSET {"p", "q"}}

\* ... and in whatever else can be wrong with them.
Doubtful ==
  {[statements |-> s, cued |-> {}, title |-> title, kind |-> "agreement", parties |-> {"p", "q"},
    customers |-> {}, issuers |-> {}, warned |-> warned, readable |-> readable] :
      s \in {{}, {[date |-> "a", line |-> 1, wording |-> "effective"]}},
      title \in Title, warned \in BOOLEAN, readable \in BOOLEAN}

Documents == Dated \cup Billed \cup Doubtful

AnswerOf(type, date, parties, relation, description, doubt) ==
  [type |-> type, date |-> date, role |-> "other", parties |-> parties, relation |-> relation,
   description |-> description, doubt |-> doubt]

ReplyTo(s) ==
  IF s.parties = {}
  THEN {AnswerOf(type, "a", <<>>, "none", "usable", "none") : type \in {"whole", "ending"}}
  ELSE {AnswerOf(type, "a", parties, relation, "usable", "none") :
          type \in Type \cup {None}, relation \in {"between", "from", "none"},
          parties \in {<<>>, <<"p">>, <<"p", "q">>, <<"q", "p">>, <<"p", "p">>, <<"x", "q", "p">>, <<"p", "q", "x">>}}
       \cup {AnswerOf(type, date, <<"p", "q">>, "between", description, doubt) :
               type \in Type \cup {None}, date \in {"a", "invented", None},
               description \in {"usable", "long", "fragment", "claims"}, doubt \in {"none", "unsure", "asks"}}

serviceVars == <<part, workerVars, extractVars, modelVars, downloadVars, admissionVars,
                 ledgerVars, analysisVars>>

\* What was there before differs for the part itself only.
Init ==
  /\ part \in Part
  /\ WorkerInit /\ ExtractInit /\ ServerInit /\ DownloadInit /\ AdmissionInit
  /\ LedgerInit /\ AnalysisInit
  /\ part # "server" => shown = "required"
  /\ part # "download" => final = "none"
  /\ part # "admission" => ~ guarded
  /\ part # "ledgers" => \A d, e \in Document : machineOf[d] = machineOf[e]

Next ==
  \/ /\ part = "worker" /\ WorkerNext
     /\ UNCHANGED <<part, extractVars, modelVars, downloadVars, admissionVars, ledgerVars,
                   analysisVars>>
  \/ /\ part = "extraction" /\ ExtractNext
     /\ UNCHANGED <<part, workerVars, modelVars, downloadVars, admissionVars, ledgerVars,
                   analysisVars>>
  \/ /\ part = "server" /\ ServerNext
     /\ UNCHANGED <<part, workerVars, extractVars, downloadVars, admissionVars, ledgerVars,
                   analysisVars>>
  \/ /\ part = "download" /\ DownloadNext
     /\ UNCHANGED <<part, workerVars, extractVars, modelVars, admissionVars, ledgerVars,
                   analysisVars>>
  \/ /\ part = "admission" /\ AdmissionNext
     /\ UNCHANGED <<part, workerVars, extractVars, modelVars, downloadVars, ledgerVars,
                   analysisVars>>
  \/ /\ part = "ledgers" /\ LedgerNext
     /\ UNCHANGED <<part, workerVars, extractVars, modelVars, downloadVars, admissionVars,
                   analysisVars>>
  \/ /\ part = "analysis" /\ AnalysisNext
     /\ UNCHANGED <<part, workerVars, extractVars, modelVars, downloadVars, admissionVars, ledgerVars>>

Spec == Init /\ [][Next]_serviceVars /\ WorkerFairness /\ DownloadFairness
=============================================================================
