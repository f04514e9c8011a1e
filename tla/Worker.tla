------------------------------ MODULE Worker ------------------------------
(***************************************************************************)
(* The reading of one document in another process.  SupervisedWorker       *)
(* (crates/intern-engine/src/worker.rs) launches the process, asks it over *)
(* a pipe, waits with a deadline and kills it; run_concurrent_worker       *)
(* (crates/intern-worker/src/protocol.rs) is the loop at the other end,    *)
(* which reads commands while a thread of its own extracts.                *)
(*                                                                         *)
(* The scheduler's thread calls extract and restart; a person's command or *)
(* the lease keeper calls cancel, and the end of the program stop, at any  *)
(* moment.  A request is named after the document and its failures, so a   *)
(* document a person retries is read under the name it had before.         *)
(* Progress lines are left out: the host forwards or ignores them.         *)
(***************************************************************************)
EXTENDS Naturals, Sequences, FiniteSets

CONSTANTS
  Request,       \* names of requests
  NoRequest,
  MaxCalls,      \* bound on calls of extract
  MaxCancels,    \* bound on calls of cancel and stop
  MaxCrashes     \* bound on processes that die by themselves

ASSUME RequestAssumption == NoRequest \notin Request
ASSUME WorkerBounds == {MaxCalls, MaxCancels, MaxCrashes} \subseteq Nat

VARIABLES
  running,   \* SupervisedWorker.running: the process kept for the next call, or 0
  active,    \* SupervisedWorker.active
  canceled,  \* SupervisedWorker.canceled
  process,   \* the processes launched so far
  caller,    \* the thread in extract or restart
  canceler,  \* the thread in cancel or stop
  calls, cancels, crashes

workerVars == <<running, active, canceled, process, caller, canceler, calls, cancels,
                crashes>>
workerBudgets == <<calls, cancels, crashes>>

\* One is kept, one may be on its way out, one has been left by mistake.
Pid == 1..3
Command == [type : {"parse", "cancel", "shutdown"}, request : Request \cup {NoRequest}]
Answer == {"parsed", "failed", "canceled", "busy", "progress", "partial"}
Line == [request : Request \cup {NoRequest}, event : Answer]

\* A process: the lines not read yet at either end, the request its map of
\* active requests holds, its token, and its extraction thread.
Process == [alive : BOOLEAN, input : Seq(Command), output : Seq(Line),
            parsing : Request \cup {NoRequest}, token : BOOLEAN, ending : BOOLEAN,
            thread : {"none", "extracting", "answering"}, answer : Line]
NotLaunched == [alive |-> FALSE, input |-> <<>>, output |-> <<>>,
                parsing |-> NoRequest, token |-> FALSE, ending |-> FALSE, thread |-> "none",
                answer |-> [request |-> NoRequest, event |-> "failed"]]
Idle == [at |-> "idle", request |-> NoRequest, process |-> 0, result |-> "none"]

-----------------------------------------------------------------------------
(* A process as its host sees it *)

\* terminate: kill and wait.  A line being written is cut short, and the
\* reader thread hands it over as a line.
Killed(p) ==
  {[process[p] EXCEPT !.alive = FALSE, !.thread = "none"]} \cup
  IF process[p].alive /\ process[p].thread = "answering"
  THEN {[process[p] EXCEPT !.alive = FALSE, !.thread = "none",
           !.output = Append(@, [request |-> NoRequest, event |-> "partial"])]}
  ELSE {}

terminate(p) == \E dead \in Killed(p) : process' = [process EXCEPT ![p] = dead]

\* A command written to a process that is gone is lost.
Written(p, command) ==
  IF process[p].alive THEN [process[p] EXCEPT !.input = Append(@, command)] ELSE process[p]

\* launch and handshake: a process that answered hello, or none.  It takes
\* the place of one that is gone and that no thread holds.
Free(p) == ~ process[p].alive /\ p \notin {running, canceler.process}
launch(p) ==
  /\ Free(p) /\ \A q \in Pid : q < p => ~ Free(q)
  /\ process' = [process EXCEPT ![p] = [NotLaunched EXCEPT !.alive = TRUE]]

LaunchFails ==
  /\ crashes < MaxCrashes
  /\ crashes' = crashes + 1
  /\ UNCHANGED process

-----------------------------------------------------------------------------
(* extract *)

To(place) == [caller EXCEPT !.at = place]
Ends(result) == [caller EXCEPT !.at = "leave", !.process = 0, !.result = result]

clear_running(p) == running' = IF running = p THEN 0 ELSE running

\* was_canceled takes the mark away.
CanceledOr(result) ==
  /\ canceled' = canceled \ {caller.request}
  /\ caller' = Ends(IF caller.request \in canceled THEN "canceled" ELSE result)

Extract ==
  /\ caller.at = "idle"
  /\ calls < MaxCalls
  /\ calls' = calls + 1
  /\ active = NoRequest
  /\ \E r \in Request :
       /\ active' = r
       /\ caller' = [Idle EXCEPT !.at = "start", !.request = r]
  /\ UNCHANGED <<running, canceled, process, canceler, cancels, crashes>>

\* The lock on running is held until the process has answered.
ensure_running ==
  /\ caller.at = "start"
  /\ IF running # 0
     THEN caller' = [To("write") EXCEPT !.process = running] /\ UNCHANGED <<running, process, crashes>>
     ELSE \/ \E p \in Pid :
               /\ launch(p)
               /\ running' = p
               /\ caller' = [To("write") EXCEPT !.process = p]
               /\ UNCHANGED crashes
          \/ LaunchFails /\ caller' = Ends("crashed") /\ UNCHANGED running
  /\ UNCHANGED <<active, canceled, canceler, calls, cancels>>

\* A write that fails ends the call, as a cancel if one was asked for.
WriteParse ==
  /\ caller.at = "write"
  /\ IF process[caller.process].alive
     THEN /\ process' = [process EXCEPT ![caller.process] =
               Written(caller.process, [type |-> "parse", request |-> caller.request])]
          /\ caller' = To("receive")
          /\ UNCHANGED <<running, canceled>>
     ELSE /\ clear_running(caller.process)
          /\ CanceledOr("crashed")
          /\ UNCHANGED process
  /\ UNCHANGED <<active, canceler, workerBudgets>>

\* A line, an end of the stream, or nothing yet.  A line that does not
\* decode kills the process; one that answers another request is passed
\* over.
Receive ==
  /\ caller.at = "receive"
  /\ LET p == caller.process
         line == Head(process[p].output)
         rest == [process[p] EXCEPT !.output = Tail(@)] IN
     IF process[p].output = <<>>
     THEN /\ ~ process[p].alive
          /\ clear_running(p)
          /\ CanceledOr("crashed")
          /\ UNCHANGED process
     ELSE /\ CASE line.event = "partial" ->
                    /\ process' = [process EXCEPT ![p] = [rest EXCEPT !.alive = FALSE]]
                    /\ clear_running(p)
                    /\ caller' = Ends("failed")
               [] line.event # "partial" /\ line.request # caller.request ->
                    /\ process' = [process EXCEPT ![p] = rest]
                    /\ UNCHANGED <<running, caller>>
               [] OTHER ->
                    /\ process' = [process EXCEPT ![p] = rest]
                    /\ caller' = Ends(line.event)
                    /\ UNCHANGED running
          /\ UNCHANGED canceled
  /\ UNCHANGED <<active, canceler, workerBudgets>>

\* A slip: the process is left to itself.
DeadlineAlone ==
  /\ caller.at = "receive"
  /\ clear_running(caller.process)
  /\ caller' = Ends("limit")
  /\ UNCHANGED <<process, active, canceled, canceler, workerBudgets>>

\* A slip: the clock is looked at only when a line has come.
DeadlineBetweenLines ==
  /\ caller.at = "receive"
  /\ process[caller.process].output # <<>>
  /\ terminate(caller.process)
  /\ clear_running(caller.process)
  /\ caller' = Ends("limit")
  /\ UNCHANGED <<active, canceled, canceler, workerBudgets>>

\* The time a reading may take is over.
Deadline ==
  /\ caller.at = "receive"
  /\ terminate(caller.process)
  /\ clear_running(caller.process)
  /\ caller' = Ends("limit")
  /\ UNCHANGED <<active, canceled, canceler, workerBudgets>>

Leave ==
  /\ caller.at = "leave"
  /\ active' = NoRequest
  /\ caller' = To("idle")
  /\ UNCHANGED <<running, canceled, process, canceler, workerBudgets>>

\* restart, after a crash: the old process goes before the new one is
\* launched, and the lock is not held in between.
RestartTake ==
  /\ caller.at = "idle"
  /\ caller.result = "crashed"
  /\ running' = 0
  /\ IF running # 0 THEN terminate(running) ELSE UNCHANGED process
  /\ caller' = To("restart")
  /\ UNCHANGED <<active, canceled, canceler, workerBudgets>>

RestartLaunch ==
  /\ caller.at = "restart"
  /\ \/ \E p \in Pid : launch(p) /\ running' = p /\ UNCHANGED crashes
     \/ LaunchFails /\ UNCHANGED running
  /\ caller' = Idle
  /\ UNCHANGED <<active, canceled, canceler, calls, cancels>>

-----------------------------------------------------------------------------
(* cancel and stop, on another thread *)

\* ITEM_NOT_ACTIVE, without a change, when another request is under way.
Cancel ==
  /\ canceler.at = "idle"
  /\ cancels < MaxCancels
  /\ cancels' = cancels + 1
  /\ active # NoRequest
  /\ canceler' = [Idle EXCEPT !.at = "mark", !.request = active]
  /\ UNCHANGED <<running, active, canceled, process, caller, calls, crashes>>

MarkCanceled ==
  /\ canceler.at = "mark"
  /\ canceled' = canceled \cup {canceler.request}
  /\ canceler' = [canceler EXCEPT !.at = "take"]
  /\ UNCHANGED <<running, active, process, caller, workerBudgets>>

\* Whatever process is kept is taken; without one the call fails.
TakeRunning ==
  /\ canceler.at = "take"
  /\ running' = 0
  /\ canceler' = IF running = 0 THEN Idle ELSE [canceler EXCEPT !.at = "tell", !.process = running]
  /\ UNCHANGED <<active, canceled, process, caller, workerBudgets>>

Stop ==
  /\ canceler.at = "idle"
  /\ cancels < MaxCancels
  /\ cancels' = cancels + 1
  /\ running # 0
  /\ running' = 0
  /\ canceler' = [Idle EXCEPT !.at = "tell", !.process = running]
  /\ UNCHANGED <<active, canceled, process, caller, calls, crashes>>

Tell ==
  /\ canceler.at = "tell"
  /\ process' = [process EXCEPT ![canceler.process] = Written(canceler.process,
        [type |-> IF canceler.request = NoRequest THEN "shutdown" ELSE "cancel",
         request |-> canceler.request])]
  /\ canceler' = [canceler EXCEPT !.at = "kill"]
  /\ UNCHANGED <<running, active, canceled, caller, workerBudgets>>

Kill ==
  /\ canceler.at = "kill"
  /\ terminate(canceler.process)
  /\ canceler' = Idle
  /\ UNCHANGED <<running, active, canceled, caller, workerBudgets>>

-----------------------------------------------------------------------------
(* The worker process: its loop over commands, and the extraction thread *)

Says(p, r, event) == Append(process[p].output, [request |-> r, event |-> event])

\* One document at a time: a second one is refused.  A thread that does
\* not start takes its request off the map and says so.
Parse(p, r) ==
  IF process[p].parsing # NoRequest
  THEN {[process[p] EXCEPT !.output = Says(p, r, "busy")]}
  ELSE {[process[p] EXCEPT !.parsing = r, !.token = FALSE, !.thread = "extracting"],
        [process[p] EXCEPT !.output = Says(p, r, "failed")]}

\* Only the request it names loses its token; the reply carries its own name.
CancelCommand(p, r) ==
  {[process[p] EXCEPT !.token = @ \/ process[p].parsing = r, !.output = Says(p, NoRequest, "progress")]}

ReadCommand ==
  /\ \E p \in Pid :
       /\ process[p].alive /\ ~ process[p].ending /\ process[p].input # <<>>
       /\ LET command == Head(process[p].input) IN
          \E after \in CASE command.type = "parse"  -> Parse(p, command.request)
                         [] command.type = "cancel" -> CancelCommand(p, command.request)
                         [] OTHER -> {[process[p] EXCEPT !.ending = TRUE, !.token = TRUE]} :
            process' = [process EXCEPT ![p] = [after EXCEPT !.input = Tail(@)]]
  /\ UNCHANGED <<running, active, canceled, caller, canceler, workerBudgets>>

Finishing(p, event) ==
  [process[p] EXCEPT !.thread = "answering",
     !.answer = [request |-> process[p].parsing, event |-> event]]

\* A slip: only a document that was read is taken off the map.
FinishedWhenParsed(p, event) ==
  [Finishing(p, event) EXCEPT !.parsing = IF event = "parsed" THEN NoRequest ELSE @]

\* The request is taken off the map before its answer is written.
Finished(p, event) == [Finishing(p, event) EXCEPT !.parsing = NoRequest]

\* A canceled extraction that had looked for the last time still answers.
Extracted ==
  /\ \E p \in Pid :
       /\ process[p].thread = "extracting"
       /\ \E event \in {"parsed", "failed"} \cup IF process[p].token THEN {"canceled"} ELSE {} :
            process' = [process EXCEPT ![p] = Finished(p, event)]
  /\ UNCHANGED <<running, active, canceled, caller, canceler, workerBudgets>>

Answers ==
  /\ \E p \in Pid :
       /\ process[p].thread = "answering"
       /\ process' = [process EXCEPT ![p].thread = "none",
                        ![p].output = Append(@, process[p].answer)]
  /\ UNCHANGED <<running, active, canceled, caller, canceler, workerBudgets>>

\* The loop left, the thread joined; or a parser took the process with it.
ProcessEnds ==
  /\ \E p \in Pid :
       /\ process[p].alive
       /\ \/ process[p].ending /\ process[p].thread = "none" /\ UNCHANGED crashes
          \/ crashes < MaxCrashes /\ crashes' = crashes + 1
       /\ terminate(p)
  /\ UNCHANGED <<running, active, canceled, caller, canceler, calls, cancels>>

-----------------------------------------------------------------------------
WorkerInit ==
  /\ running = 0
  /\ active = NoRequest
  /\ canceled = {}
  /\ process = [p \in Pid |-> NotLaunched]
  /\ caller = Idle
  /\ canceler = Idle
  /\ calls = 0 /\ cancels = 0 /\ crashes = 0

Caller ==
  ensure_running \/ WriteParse \/ Receive \/ Deadline \/ Leave

WorkerNext ==
  \/ Extract \/ Caller \/ RestartTake \/ RestartLaunch
  \/ Cancel \/ MarkCanceled \/ TakeRunning \/ Stop \/ Tell \/ Kill
  \/ ReadCommand \/ Extracted \/ Answers \/ ProcessEnds

\* A call goes on, and time passes for it; nothing is asked of the process.
WorkerFairness == WF_workerVars(Caller)

WorkerSpec == WorkerInit /\ [][WorkerNext]_workerVars /\ WorkerFairness

-----------------------------------------------------------------------------
(* What the two processes promise each other *)

WorkerTypeOK ==
  /\ running \in Pid \cup {0}
  /\ active \in Request \cup {NoRequest}
  /\ canceled \subseteq Request
  /\ process \in [Pid -> Process]
  /\ caller.at \in {"idle", "start", "write", "receive", "leave", "restart"}
  /\ canceler.at \in {"idle", "mark", "take", "tell", "kill"}
  /\ {caller.request, canceler.request} \subseteq Request \cup {NoRequest}
  /\ {caller.process, canceler.process} \subseteq Pid \cup {0}

\* The worker never refuses its host's next document: by the time an
\* answer can be seen the request it answers is off the map
\* (protocol.rs, "no longer active before its terminal event is visible").
WorkerIsFreeOnceItAnswered ==
  \A p \in Pid : \A n \in DOMAIN process[p].output : process[p].output[n].event # "busy"

\* However calls, cancels, deadlines and restarts meet, two processes never
\* read at once: each may hold the memory of a whole document
\* (SupervisedWorker, MAX_RESIDENT_RENDERED_PAGES).
OneDocumentIsRead == Cardinality({p \in Pid : process[p].thread = "extracting"}) <= 1

\* A call of extract returns, whatever the process does (EXTRACTION_TIMEOUT).
ExtractReturns == caller.at \in {"start", "write", "receive", "leave"} ~> caller.at = "idle"
=============================================================================
