---------------------------- MODULE ModelServer ----------------------------
(***************************************************************************)
(* The local model: the server process and the engine that talks to it     *)
(* (RuntimeModel of src-tauri/src/commands.rs, LlamaServer of crates/      *)
(* intern-engine/src/server.rs), the choice between it and a hosted one    *)
(* (SwitchingModel of src-tauri/src/model.rs), and the setup that installs *)
(* and verifies it (SetupManager, SetupOperationGate of crates/            *)
(* intern-engine/src/setup.rs).                                            *)
(*                                                                         *)
(* Five threads share them: the analysis of one document, the scheduler,   *)
(* which cancels a late analysis and recovers the model, a person's        *)
(* command, which cancels a document, the setup, and the window, which     *)
(* starts and cancels the setup and saves settings.  A server is a number, *)
(* its engine the same number: what they were started as.                  *)
(***************************************************************************)
EXTENDS Naturals, FiniteSets

CONSTANTS
  MAX_SPAWN_ATTEMPTS,
  MaxServers,      \* bound on processes launched
  MaxAnalyses,     \* bound on documents analysed
  MaxRestarts,     \* bound on cancels and recoveries by the queue
  MaxSetups,       \* bound on setups started from the window
  MaxSaves,        \* bound on settings saved
  MaxDeaths        \* bound on servers that die, or cannot be stopped

ASSUME ServerBounds ==
  /\ MAX_SPAWN_ATTEMPTS \in Nat \ {0}
  /\ {MaxServers, MaxAnalyses, MaxRestarts, MaxSetups, MaxSaves, MaxDeaths} \subseteq Nat

VARIABLES
  server,     \* RuntimeModel.server, or 0
  engine,     \* RuntimeModel.engine, or 0
  up,         \* the server processes that run
  thread,     \* where each thread is
  choice,     \* SwitchingModel.active
  source,     \* the model the saved settings name
  gate,       \* SetupOperationGate.active
  ready,      \* SetupManager.local_ready, hosted_active and model_ready
  shown,      \* SetupStateDto.state
  answer,     \* how the last analysis ended
  dropped,    \* the document last canceled or given up, by its number
  used        \* what has been used of each bound

modelVars == <<server, engine, up, thread, choice, source, gate, ready, shown, answer,
               dropped, used>>
runtimeVars == <<server, engine, up>>
setupVars == <<gate, ready, shown>>
answerVars == <<answer, dropped>>

Stoppers == {"scheduler", "command", "setup", "window"}
Thread == Stoppers \cup {"analysis"}
Server == 1..MaxServers

\* What a thread in stop_runtime or start is there for.
Purpose == {"none", "restart", "verify", "abandon", "cancel", "giveUp"}
Resting == [at |-> "idle", purpose |-> "none", mine |-> 0, tries |-> 0, result |-> "none"]

Spend(what) == used' = [used EXCEPT ![what] = @ + 1]
Goes(t, place) == thread' = [thread EXCEPT ![t].at = place]
For(t, purpose) == thread[t].purpose = purpose

\* The engine's lock: held by whoever is being answered.
Reading(t) == thread[t].at = "inferring"
NobodyReads == \A t \in Thread : ~ Reading(t)

\* The lock on the server: held while waiting for the engine's.
ServerIsLocked == \E t \in Thread : thread[t].at = "installing"

-----------------------------------------------------------------------------
(* stop_runtime: the server under its lock, then the engine under its own *)

\* What a thread does once the runtime is stopped.
AfterStop(t) ==
  CASE For(t, "restart") -> [thread[t] EXCEPT !.at = "launch", !.tries = 0]
    [] For(t, "verify")  -> [thread[t] EXCEPT !.at = "verify", !.tries = 0]
    [] For(t, "abandon") -> [Resting EXCEPT !.at = "settle", !.result = thread[t].result]
    [] For(t, "giveUp")  -> IF t = "setup" THEN [Resting EXCEPT !.at = "settle", !.result = "failed"]
                                            ELSE Resting
    [] OTHER              -> Resting

\* The process is gone before anyone waits for its engine, so a request
\* under way fails and lets go.  A stop that fails ends what it was for.
TakeServer(t) ==
  /\ thread[t].at = "stop"
  /\ ~ ServerIsLocked
  /\ server' = 0
  /\ up' = up \ {server}
  /\ \/ Goes(t, "clear") /\ UNCHANGED used
     \/ /\ server # 0 /\ thread[t].purpose \in {"restart", "verify"}
        /\ used.deaths < MaxDeaths
        /\ Spend("deaths")
        /\ thread' = [thread EXCEPT ![t].at = "clear", ![t].purpose = "giveUp"]
  /\ UNCHANGED <<engine, choice, source, setupVars, answerVars>>

ClearEngine(t) ==
  /\ thread[t].at = "clear"
  /\ NobodyReads
  /\ engine' = 0
  /\ thread' = [thread EXCEPT ![t] = AfterStop(t)]
  /\ UNCHANGED <<server, up, choice, source, setupVars, answerVars, used>>

-----------------------------------------------------------------------------
(* LlamaServer::start_with, and RuntimeModel::start around it *)

\* A start that fails ends the call it is part of.
StartFailed(t) ==
  IF t = "setup" THEN [thread[t] EXCEPT !.at = "settle", !.result = "failed", !.mine = 0]
                 ELSE Resting

\* The attempts are spent, or another one is made.
NextAttempt(t) ==
  IF thread[t].tries + 1 = MAX_SPAWN_ATTEMPTS
  THEN StartFailed(t) ELSE [thread[t] EXCEPT !.at = "launch", !.tries = @ + 1, !.mine = 0]

LaunchServer(t) ==
  /\ thread[t].at = "launch"
  /\ \/ /\ used.servers < MaxServers
        /\ Spend("servers")
        /\ up' = up \cup {used.servers + 1}
        /\ thread' = [thread EXCEPT ![t].at = "confirm", ![t].mine = used.servers + 1]
     \/ thread' = [thread EXCEPT ![t] = NextAttempt(t)] /\ UNCHANGED <<up, used>>
  /\ UNCHANGED <<server, engine, choice, source, setupVars, answerVars>>

\* A slip: a server that does not get healthy in time is left to itself.
TimedOutLeaving(t) ==
  /\ thread[t].at = "confirm"
  /\ thread' = [thread EXCEPT ![t] = StartFailed(t)]
  /\ UNCHANGED <<runtimeVars, choice, source, setupVars, answerVars, used>>

\* Not healthy twice in a row before the deadline.
TimedOut(t) ==
  /\ thread[t].at = "confirm"
  /\ up' = up \ {thread[t].mine}
  /\ thread' = [thread EXCEPT ![t] = StartFailed(t)]
  /\ UNCHANGED <<server, engine, choice, source, setupVars, answerVars, used>>

\* Healthy twice, or gone; the last look may be before it went.
Confirm(t) ==
  /\ thread[t].at = "confirm"
  /\ thread' = [thread EXCEPT ![t] =
       IF @.mine \in up THEN [@ EXCEPT !.at = "lock"] ELSE NextAttempt(t)]
  /\ UNCHANGED <<runtimeVars, choice, source, setupVars, answerVars, used>>

LockServer(t) ==
  /\ thread[t].at = "lock"
  /\ ~ ServerIsLocked
  /\ Goes(t, "installing")
  /\ UNCHANGED <<runtimeVars, choice, source, setupVars, answerVars, used>>

\* Server and engine together, or MODEL_ALREADY_RUNNING, and the server
\* just started is dropped.
Install(t) ==
  /\ thread[t].at = "installing"
  /\ NobodyReads
  /\ IF server # 0 \/ engine # 0
     THEN /\ up' = up \ {thread[t].mine}
          /\ thread' = [thread EXCEPT ![t] = StartFailed(t)]
          /\ UNCHANGED <<server, engine>>
     ELSE /\ server' = thread[t].mine
          /\ engine' = thread[t].mine
          /\ thread' = [thread EXCEPT ![t] =
               IF t = "setup" THEN [@ EXCEPT !.at = "probe", !.mine = 0] ELSE Resting]
          /\ UNCHANGED up
  /\ UNCHANGED <<choice, source, setupVars, answerVars, used>>

ServerDies ==
  /\ used.deaths < MaxDeaths
  /\ Spend("deaths")
  /\ \E s \in up : up' = up \ {s}
  /\ UNCHANGED <<server, engine, thread, choice, source, setupVars, answerVars>>

-----------------------------------------------------------------------------
(* SwitchingModel *)

\* The scheduler begins when a model is ready and does not look again.
Drain ==
  /\ thread["scheduler"].at = "idle"
  /\ ready.model
  /\ Goes("scheduler", "draining")
  /\ UNCHANGED <<runtimeVars, choice, source, setupVars, answerVars, used>>

Drained ==
  /\ thread["scheduler"].at = "draining"
  /\ thread["analysis"].at = "idle"
  /\ Goes("scheduler", "idle")
  /\ UNCHANGED <<runtimeVars, choice, source, setupVars, answerVars, used>>

\* The next document is analyzing, and its thread begun.
Analyze ==
  /\ thread["scheduler"].at = "draining"
  /\ thread["analysis"].at = "idle"
  /\ used.analyses < MaxAnalyses
  /\ Spend("analyses")
  /\ answer' = "none"
  /\ Goes("analysis", "begun")
  /\ UNCHANGED <<runtimeVars, choice, source, setupVars, dropped>>

\* analyze: the model the settings name at this moment.
Choose ==
  /\ thread["analysis"].at = "begun"
  /\ choice' = source
  /\ Goes("analysis", source)
  /\ UNCHANGED <<runtimeVars, source, setupVars, answerVars, used>>

\* The engine is read for as long as the request takes.
ReadEngine ==
  /\ thread["analysis"].at = "local"
  /\ IF engine = 0
     THEN answer' = "MODEL_NOT_READY" /\ Goes("analysis", "answered") /\ UNCHANGED choice
     ELSE Goes("analysis", "inferring") /\ UNCHANGED <<answer, choice>>
  /\ UNCHANGED <<runtimeVars, source, setupVars, dropped, used>>

\* propose, at most twice: a server that is gone gives no answer, and the
\* server of this engine may be alive and give none.
Infer ==
  /\ Reading("analysis")
  /\ \/ engine \in up /\ answer' = "ok"
     \/ answer' = "MODEL_REQUEST_FAILED"
  /\ Goes("analysis", "answered")
  /\ UNCHANGED <<runtimeVars, choice, source, setupVars, dropped, used>>

HostedAnswers ==
  /\ thread["analysis"].at = "hosted"
  /\ answer' \in {"ok", "HOSTED_MODEL"}
  /\ Goes("analysis", "answered")
  /\ UNCHANGED <<runtimeVars, choice, source, setupVars, dropped, used>>

\* compare_exchange: only one analysis sets choice here, so it finds its own.
Answered ==
  /\ thread["analysis"].at = "answered"
  /\ choice' = "idle"
  /\ Goes("analysis", "idle")
  /\ UNCHANGED <<runtimeVars, source, setupVars, answerVars, used>>

\* A person cancels a document that is analyzing.
CancelDocument ==
  /\ thread["command"].at = "idle"
  /\ thread["analysis"].at # "idle"
  /\ Goes("command", "canceling")
  /\ dropped' = used.analyses
  /\ UNCHANGED <<runtimeVars, choice, source, setupVars, answer, used>>

\* cancel: by the command after it took the row, by the scheduler at the
\* deadline.  A hosted request is outwaited; anything else has the local
\* server started anew.
CancelAnalysis(t) ==
  /\ IF t = "command" THEN thread[t].at = "canceling"
     ELSE thread[t].at = "draining" /\ thread["analysis"].at \in {"inferring", "hosted"}
  /\ dropped' = IF t = "command" THEN dropped ELSE used.analyses
  /\ used.restarts < MaxRestarts
  /\ Spend("restarts")
  /\ thread' = [thread EXCEPT ![t] =
       IF choice = "hosted" THEN Resting ELSE [Resting EXCEPT !.at = "stop", !.purpose = "restart"]]
  /\ UNCHANGED <<runtimeVars, choice, source, setupVars, answer>>

\* recover, by the scheduler, after a request that failed.
Recover ==
  /\ thread["scheduler"].at = "draining"
  /\ thread["analysis"].at = "idle"
  /\ answer = "MODEL_REQUEST_FAILED"
  /\ used.restarts < MaxRestarts
  /\ Spend("restarts")
  /\ answer' = "none"
  /\ thread' = [thread EXCEPT !["scheduler"] =
                  [Resting EXCEPT !.at = "stop", !.purpose = "restart"]]
  /\ UNCHANGED <<runtimeVars, choice, source, setupVars, dropped>>

-----------------------------------------------------------------------------
(* SetupManager *)

model_ready(local, hosted) == local \/ hosted

\* refresh_ready loads both flags and stores what they amount to: another
\* thread may do the same in between.
Flags(t, local, hosted, next) ==
  /\ ready' = [ready EXCEPT !.local = local, !.hosted = hosted]
  /\ thread' = [thread EXCEPT ![t].at = next,
                  ![t].result = IF model_ready(local, hosted) THEN "ready" ELSE "held"]

StoreReady(t) == ready' = [ready EXCEPT !.model = thread[t].result = "ready"]

\* start and choose_existing, not when the local model is ready.
BeginSetup ==
  /\ thread["window"].at = "idle" /\ thread["setup"].at = "idle"
  /\ used.setups < MaxSetups
  /\ Spend("setups")
  /\ ~ ready.local
  /\ ~ gate.held
  /\ gate' = [held |-> TRUE, canceled |-> FALSE, settled |-> FALSE]
  /\ Flags("window", FALSE, ready.hosted, "begun")
  /\ UNCHANGED <<runtimeVars, choice, source, shown, answerVars>>

\* set_state(Downloading) is over; the setup has a thread, or none starts.
Spawn ==
  /\ thread["window"].at = "begun"
  /\ StoreReady("window")
  /\ \/ /\ shown' = "downloading"
        /\ thread' = [thread EXCEPT !["window"] = Resting,
                                    !["setup"] = [Resting EXCEPT !.at = "install"]]
        /\ UNCHANGED gate
     \/ /\ shown' = "failed"
        /\ gate' = [gate EXCEPT !.held = FALSE]
        /\ thread' = [thread EXCEPT !["window"] = Resting]
  /\ UNCHANGED <<runtimeVars, choice, source, answerVars, used>>

Settling(result) == [Resting EXCEPT !.at = "settle", !.result = result]

\* A download or a copy, that Download.tla details; nothing to do when the
\* model was found installed.
InstallFiles ==
  /\ thread["setup"].at = "install"
  /\ \/ thread' = [thread EXCEPT !["setup"] =
          IF gate.canceled THEN Settling("required")
          ELSE [Resting EXCEPT !.at = "stop", !.purpose = "verify"]]
     \/ thread' = [thread EXCEPT !["setup"] = Settling("failed")]
  /\ UNCHANGED <<runtimeVars, choice, source, setupVars, answerVars, used>>

\* start_verified, the runtime stopped.
StartVerified ==
  /\ thread["setup"].at = "verify"
  /\ thread' = [thread EXCEPT !["setup"] =
       IF gate.canceled THEN Settling("required") ELSE [@ EXCEPT !.at = "launch"]]
  /\ UNCHANGED <<runtimeVars, choice, source, setupVars, answerVars, used>>

Abandons(result) == [Resting EXCEPT !.at = "stop", !.purpose = "abandon", !.result = result]

\* semantic_self_test: one probe, the token before and after.
Probe ==
  /\ thread["setup"].at = "probe"
  /\ thread' = [thread EXCEPT !["setup"] =
       IF gate.canceled THEN Abandons("required")
       ELSE IF engine = 0 THEN Abandons("failed")
       ELSE [@ EXCEPT !.at = "inferring"]]
  /\ UNCHANGED <<runtimeVars, choice, source, setupVars, answerVars, used>>

ProbeAnswers ==
  /\ Reading("setup")
  /\ \/ engine \in up /\ ~ gate.canceled /\ thread' = [thread EXCEPT !["setup"] = Settling("ready")]
     \/ thread' = [thread EXCEPT !["setup"] =
          Abandons(IF gate.canceled THEN "required" ELSE "failed")]
  /\ UNCHANGED <<runtimeVars, choice, source, setupVars, answerVars, used>>

Settle ==
  /\ thread["setup"].at = "settle"
  /\ gate' = [gate EXCEPT !.settled = TRUE]
  /\ Goes("setup", "publish")
  /\ UNCHANGED <<runtimeVars, choice, source, ready, shown, answerVars, used>>

\* set_state with the outcome.
Publish ==
  /\ thread["setup"].at = "publish"
  /\ shown' = thread["setup"].result
  /\ Flags("setup", thread["setup"].result = "ready", ready.hosted, "finish")
  /\ UNCHANGED <<runtimeVars, choice, source, gate, answerVars, used>>

Finish ==
  /\ thread["setup"].at = "finish"
  /\ StoreReady("setup")
  /\ gate' = [gate EXCEPT !.held = FALSE]
  /\ thread' = [thread EXCEPT !["setup"] = Resting]
  /\ UNCHANGED <<runtimeVars, choice, source, shown, answerVars, used>>

\* SetupManager::cancel: the gate decides, the runtime is stopped after.
CancelSetup ==
  /\ thread["window"].at = "idle"
  /\ gate.held /\ ~ gate.settled /\ ~ gate.canceled
  /\ gate' = [gate EXCEPT !.canceled = TRUE]
  /\ thread' = [thread EXCEPT !["window"] =
                  [Resting EXCEPT !.at = "stop", !.purpose = "cancel"]]
  /\ UNCHANGED <<runtimeVars, choice, source, ready, shown, answerVars, used>>

\* The settings are saved, and refresh_hosted_active looks for a key.
SaveSettings ==
  /\ thread["window"].at = "idle"
  /\ used.saves < MaxSaves
  /\ Spend("saves")
  /\ source' \in {"local", "hosted"}
  /\ \E key \in BOOLEAN : Flags("window", ready.local, source' = "hosted" /\ key, "saved")
  /\ UNCHANGED <<runtimeVars, choice, gate, shown, answerVars>>

Saved ==
  /\ thread["window"].at = "saved"
  /\ StoreReady("window")
  /\ thread' = [thread EXCEPT !["window"] = Resting]
  /\ UNCHANGED <<runtimeVars, choice, source, gate, shown, answerVars, used>>

-----------------------------------------------------------------------------
\* An installed model is verified from the start, and the queue held: the
\* setup screen stays away.  Without one, a setup is required.
ServerInit ==
  /\ server = 0 /\ engine = 0 /\ up = {}
  /\ choice = "idle"
  /\ answer = "none" /\ dropped = 0
  /\ ready = [local |-> FALSE, hosted |-> FALSE, model |-> FALSE]
  /\ source = "local"
  /\ used = [servers |-> 0, analyses |-> 0, restarts |-> 0, setups |-> 0, saves |-> 0, deaths |-> 0]
  /\ \E installed \in BOOLEAN :
       /\ gate = [held |-> installed, canceled |-> FALSE, settled |-> FALSE]
       /\ shown = IF installed THEN "ready" ELSE "required"
       /\ thread = [t \in Thread |->
            IF t = "setup" /\ installed THEN [Resting EXCEPT !.at = "install"] ELSE Resting]

\* stop_runtime and start, in whichever thread.
Locks(t) == TakeServer(t) \/ ClearEngine(t) \/ LockServer(t) \/ Install(t)
Starts(t) == LaunchServer(t) \/ TimedOut(t) \/ Confirm(t)
SetupSteps == InstallFiles \/ StartVerified \/ Probe \/ ProbeAnswers \/ Settle \/ Publish \/ Finish
AnalysisSteps == Choose \/ ReadEngine \/ Infer \/ HostedAnswers \/ Answered

ServerNext ==
  \/ \E t \in Stoppers : Locks(t) \/ Starts(t)
  \/ \E t \in {"scheduler", "command"} : CancelAnalysis(t)
  \/ SetupSteps \/ AnalysisSteps \/ Drain \/ Drained \/ Analyze \/ CancelDocument \/ Recover
  \/ ServerDies \/ BeginSetup \/ Spawn \/ CancelSetup \/ SaveSettings \/ Saved

ServerSpec == ServerInit /\ [][ServerNext]_modelVars

-----------------------------------------------------------------------------
ServerTypeOK ==
  /\ {server, engine} \subseteq Server \cup {0}
  /\ up \subseteq Server
  /\ \A t \in Thread : thread[t].purpose \in Purpose /\ thread[t].mine \in Server \cup {0}
  /\ choice \in {"idle", "local", "hosted"}
  /\ shown \in {"ready", "required", "downloading", "failed"}
  /\ gate \in [held : BOOLEAN, canceled : BOOLEAN, settled : BOOLEAN]

\* Every server that runs is the one kept or one some thread is about to
\* keep or to stop: none is left behind with its gigabyte, whoever starts
\* and stops at once, and whichever start fails.  An engine outlives its
\* server only between the two halves of a stop: otherwise every later start
\* would be refused as MODEL_ALREADY_RUNNING (LlamaServer::start_with,
\* RuntimeModel::start and stop_runtime).
ServersAreAccountedFor ==
  /\ up \subseteq {server} \cup {thread[t].mine : t \in Stoppers}
  /\ engine \notin {0, server} => server = 0 /\ \E t \in Stoppers : thread[t].at = "clear"

\* A document that nobody canceled never asks for a model that is being
\* loaded (SetupManager::hold_local_model, "no document may meet a server
\* that has not finished loading").
NoDocumentMeetsALoadingServer ==
  [][ReadEngine /\ engine = 0 /\ dropped # used.analyses =>
       \A t \in Stoppers : thread[t].at \notin {"launch", "confirm", "lock", "installing"}]_modelVars
=============================================================================
