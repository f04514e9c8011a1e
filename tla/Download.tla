----------------------------- MODULE Download -----------------------------
(***************************************************************************)
(* The model file comes to the machine (crates/intern-engine/src/          *)
(* download.rs): downloaded with the part already there, or copied from a  *)
(* file a person chose, checked against the manifest's digest, and only    *)
(* then given its name.  A thread of its own reads the network and hands   *)
(* messages over a channel of two; a cancel, a crash, a full disk, a       *)
(* connection that breaks and a server that sends something else may come  *)
(* at every step.                                                          *)
(*                                                                         *)
(* A file is a sequence of pieces, each good when it is what the manifest  *)
(* expects; the digest fits when the length does and every piece is good.  *)
(***************************************************************************)
EXTENDS Naturals, Sequences

CONSTANTS
  Pieces,        \* length of the model file
  Ahead,         \* capacity of the channel
  MaxAttempts,   \* bound on setups
  MaxTroubles    \* bound on everything that goes wrong

ASSUME DownloadBounds == {Pieces, Ahead} \subseteq Nat \ {0} /\ {MaxAttempts, MaxTroubles} \subseteq Nat

VARIABLES
  final,      \* the file under its name: whether it is whole, or "none"
  partial,    \* the pieces under the name with .partial
  step,       \* where download or install_selected_file is
  outcome,    \* how the last attempt ended
  clean,      \* whether this attempt has met no trouble yet
  mended,     \* whether the attempt before ended MODEL_FILE_INVALID without trouble
  token,      \* the CancellationToken
  start,      \* requested_start of the download
  network,    \* the network thread: where it is and the pieces it has sent
  channel,    \* messages sent and not yet received, and whether anyone listens
  attempts, troubles

downloadVars == <<final, partial, step, outcome, clean, mended, token, start, network, channel,
                  attempts, troubles>>
fileVars == <<final, partial>>
attemptVars == <<mended, attempts>>
networkVars == <<network, channel>>

NetworkAt(place, begin) == [at |-> place, sent |-> begin]

Fits(file) == Len(file) = Pieces /\ \A n \in DOMAIN file : file[n] = "good"

Trouble == troubles < MaxTroubles /\ troubles' = troubles + 1 /\ clean' = FALSE
NoTrouble == UNCHANGED <<troubles, clean>>

\* The attempt returns; a response under way is dropped first, which waits
\* for its thread.
Returns(result) ==
  /\ outcome' = result
  /\ step' = IF network.at = "none" THEN "idle" ELSE "dropping"

-----------------------------------------------------------------------------
(* download *)

BeginAttempt ==
  /\ step = "idle"
  /\ attempts < MaxAttempts
  /\ attempts' = attempts + 1
  /\ step' \in {"final", "choice"}
  /\ mended' = (clean /\ outcome = "MODEL_FILE_INVALID")
  /\ outcome' = "none" /\ token' = FALSE /\ clean' = TRUE /\ start' = 0
  /\ UNCHANGED <<fileVars, networkVars, troubles>>

CancelDownload ==
  /\ step \notin {"idle", "dropping", "joining"} /\ ~ token
  /\ Trouble
  /\ token' = TRUE
  /\ UNCHANGED <<fileVars, step, outcome, start, networkVars, attemptVars>>

\* Every loop looks at the token; nothing is written after it was seen.
Canceled ==
  /\ token /\ step \notin {"idle", "dropping", "joining"}
  /\ Returns("MODEL_DOWNLOAD_CANCELED")
  /\ NoTrouble
  /\ UNCHANGED <<fileVars, token, start, networkVars, attemptVars>>

\* A full disk, a file that cannot be read, written, removed or renamed, or a
\* choice of the partial file itself, or of an installed one that is not whole.
FileFails ==
  /\ step \notin {"idle", "dropping", "joining"}
  /\ Trouble
  /\ \E code \in {"MODEL_FILE_INVALID", "MODEL_DOWNLOAD_FAILED", "INSUFFICIENT_DISK"} : Returns(code)
  /\ UNCHANGED <<fileVars, token, start, networkVars, attemptVars>>

\* The installed file is kept when it is whole and gives way when it is not.
CheckFinal(from, next) ==
  /\ step = from
  /\ IF final = "whole" THEN Returns("complete") /\ UNCHANGED final
                        ELSE final' = "none" /\ step' = next /\ UNCHANGED outcome
  /\ NoTrouble
  /\ UNCHANGED <<partial, token, start, networkVars, attemptVars>>

GetsItsName == final' = "whole" /\ partial' = <<>> /\ Returns("complete")

\* A slip: a part as long as the file is asked to be continued.
ResumableToTheEnd(file) == Len(file) > 0

\* A part as long as the file that does not fit is begun anew.
Resumable(file) == Len(file) > 0 /\ Len(file) < Pieces

CheckPartial ==
  /\ step = "partial"
  /\ IF Fits(partial)
     THEN GetsItsName /\ UNCHANGED <<start, networkVars>>
     ELSE /\ start' = IF Resumable(partial) THEN Len(partial) ELSE 0
          /\ step' = "headers"
          /\ network' = [at |-> "requesting", sent |-> 0]
          /\ channel' = [messages |-> <<>>, heard |-> TRUE]
          /\ UNCHANGED <<fileVars, outcome>>
  /\ NoTrouble
  /\ UNCHANGED <<token, attemptVars>>

Received(message) == channel.messages # <<>> /\ Head(channel.messages) = message
Taken == channel' = [channel EXCEPT !.messages = Tail(@)]

\* 206 with the range asked for continues the part, 200 begins it anew.
AcceptHeaders ==
  /\ step = "headers"
  /\ \E status \in {"continued", "whole", "other"} :
       /\ Received(status)
       /\ Taken
       /\ CASE status = "continued" -> step' = "body" /\ UNCHANGED <<partial, outcome>>
            [] status = "whole"     -> step' = "body" /\ partial' = <<>> /\ UNCHANGED outcome
            [] OTHER                -> Returns("MODEL_DOWNLOAD_FAILED") /\ UNCHANGED partial
  /\ NoTrouble
  /\ UNCHANGED <<final, token, start, network, attemptVars>>

ReceivePiece ==
  /\ step = "body"
  /\ \E piece \in {"good", "bad"} :
       /\ Received(piece)
       /\ Taken
       /\ IF Len(partial) = Pieces
          THEN Returns("MODEL_FILE_INVALID") /\ UNCHANGED partial
          ELSE partial' = Append(partial, piece) /\ UNCHANGED <<step, outcome>>
  /\ NoTrouble
  /\ UNCHANGED <<final, token, start, network, attemptVars>>

\* A slip: the length alone is looked at.
ReceiveEndUnverified ==
  /\ step = "body"
  /\ Received("end")
  /\ Taken
  /\ IF Len(partial) = Pieces
     THEN final' = (IF Fits(partial) THEN "whole" ELSE "broken") /\ partial' = <<>> /\ Returns("complete")
     ELSE Returns("MODEL_FILE_INVALID") /\ UNCHANGED fileVars
  /\ NoTrouble
  /\ UNCHANGED <<token, start, network, attemptVars>>

\* The body is over: length, then digest, then the name.  A part that does
\* not fit stays where it is.
ReceiveEnd ==
  /\ step = "body"
  /\ Received("end")
  /\ Taken
  /\ IF Fits(partial) THEN GetsItsName ELSE Returns("MODEL_FILE_INVALID") /\ UNCHANGED fileVars
  /\ NoTrouble
  /\ UNCHANGED <<token, start, network, attemptVars>>

ReceiveFailure ==
  /\ step \in {"headers", "body"}
  /\ Received("failed")
  /\ Taken
  /\ Returns("MODEL_DOWNLOAD_INTERRUPTED")
  /\ NoTrouble
  /\ UNCHANGED <<fileVars, token, start, network, attemptVars>>

\* A slip: the thread is waited for while the channel is still listened to.
StopListeningAfter == UNCHANGED channel

\* stop_and_join: the receiver goes first, so a thread at a full channel
\* gets an error and not a wait without end.
StopListening == channel' = [channel EXCEPT !.heard = FALSE]

DropResponse ==
  /\ step = "dropping"
  /\ StopListening
  /\ step' = "joining"
  /\ UNCHANGED <<fileVars, outcome, clean, token, start, network, attemptVars, troubles>>

Joined ==
  /\ step = "joining"
  /\ network.at = "over"
  /\ step' = "idle"
  /\ network' = [at |-> "none", sent |-> 0]
  /\ channel' = [messages |-> <<>>, heard |-> FALSE]
  /\ UNCHANGED <<fileVars, outcome, clean, token, start, attemptVars, troubles>>

-----------------------------------------------------------------------------
(* spawn_network_worker *)

\* A send waits for room, and fails when nobody listens any more.
Sends(message, next) ==
  IF channel.heard
  THEN /\ Len(channel.messages) < Ahead
       /\ channel' = [channel EXCEPT !.messages = Append(@, message)]
       /\ network' = next
  ELSE network' = [network EXCEPT !.at = "over"] /\ UNCHANGED channel

\* A server may do without the range, or answer something else.
Respond ==
  /\ network.at = "requesting"
  /\ \/ start > 0 /\ Sends("continued", NetworkAt("streaming", start)) /\ NoTrouble
     \/ Sends("whole", NetworkAt("streaming", 0)) /\ NoTrouble
     \/ Trouble /\ Sends("other", NetworkAt("streaming", 0))
     \/ Trouble /\ Sends("failed", NetworkAt("over", 0))
  /\ UNCHANGED <<fileVars, step, outcome, token, start, attemptVars>>

\* A piece as it should be or not, the end in time, too early or too late,
\* or a connection that breaks.
Stream ==
  /\ network.at = "streaming"
  /\ \/ network.sent < Pieces /\ Sends("good", NetworkAt("streaming", network.sent + 1)) /\ NoTrouble
     \/ network.sent = Pieces /\ Sends("end", NetworkAt("over", Pieces)) /\ NoTrouble
     \/ Trouble /\ Sends("bad", NetworkAt("streaming", network.sent + IF network.sent < Pieces THEN 1 ELSE 0))
     \/ Trouble /\ network.sent < Pieces /\ Sends("end", NetworkAt("over", Pieces))
     \/ Trouble /\ Sends("failed", NetworkAt("over", 0))
  /\ UNCHANGED <<fileVars, step, outcome, token, start, attemptVars>>

\* wait_for_network_cancel: the token, or the response dropped.
NetworkStops ==
  /\ network.at \in {"requesting", "streaming"}
  /\ token \/ step = "joining"
  /\ Sends("failed", NetworkAt("over", 0))
  /\ NoTrouble
  /\ UNCHANGED <<fileVars, step, outcome, token, start, attemptVars>>

-----------------------------------------------------------------------------
(* install_selected_file *)

\* The chosen file is looked at before its copy begins.
ChooseFile ==
  /\ step = "chosen"
  /\ \/ partial' = <<>> /\ step' = "copying" /\ UNCHANGED outcome /\ NoTrouble
     \/ Trouble /\ Returns("MODEL_FILE_INVALID") /\ UNCHANGED partial
  /\ UNCHANGED <<final, token, start, networkVars, attemptVars>>

\* The file may be written to while it is copied.
CopyPiece ==
  /\ step = "copying"
  /\ Len(partial) < Pieces
  /\ \/ partial' = Append(partial, "good") /\ NoTrouble
     \/ partial' = Append(partial, "bad") /\ Trouble
  /\ UNCHANGED <<final, step, outcome, token, start, networkVars, attemptVars>>

CopyEnds ==
  /\ step = "copying"
  /\ Len(partial) = Pieces
  /\ IF Fits(partial) THEN GetsItsName ELSE Returns("MODEL_FILE_INVALID") /\ UNCHANGED fileVars
  /\ NoTrouble
  /\ UNCHANGED <<token, start, networkVars, attemptVars>>

-----------------------------------------------------------------------------
\* The program ends; what was not written through may be lost or garbled.
Crash ==
  /\ step # "idle"
  /\ Trouble
  /\ \E n \in 0..Len(partial) :
       partial' \in {SubSeq(partial, 1, n)} \cup
                    IF n > 0 THEN {Append(SubSeq(partial, 1, n - 1), "bad")} ELSE {}
  /\ step' = "idle" /\ outcome' = "crashed"
  /\ network' = NetworkAt("none", 0) /\ channel' = [messages |-> <<>>, heard |-> FALSE]
  /\ UNCHANGED <<final, token, start, attemptVars>>

DownloadInit ==
  /\ final \in {"none", "broken"}
  /\ partial = <<>>
  /\ step = "idle" /\ outcome = "none"
  /\ clean = TRUE /\ mended = FALSE /\ token = FALSE /\ start = 0
  /\ network = NetworkAt("none", 0)
  /\ channel = [messages |-> <<>>, heard |-> FALSE]
  /\ attempts = 0 /\ troubles = 0

DownloadNext ==
  \/ BeginAttempt \/ CancelDownload \/ Canceled \/ FileFails
  \/ CheckFinal("final", "partial") \/ CheckFinal("choice", "chosen")
  \/ CheckPartial \/ AcceptHeaders \/ ReceivePiece \/ ReceiveEnd \/ ReceiveFailure
  \/ DropResponse \/ Joined \/ Respond \/ Stream \/ NetworkStops
  \/ ChooseFile \/ CopyPiece \/ CopyEnds \/ Crash

\* The setup's thread goes on, and the network's notices within its poll.
DownloadFairness == WF_downloadVars(DropResponse \/ Joined) /\ WF_downloadVars(NetworkStops)

DownloadSpec == DownloadInit /\ [][DownloadNext]_downloadVars /\ DownloadFairness

-----------------------------------------------------------------------------
\* Whatever was sent, garbled or resumed, what gets the model's name has
\* the manifest's length and digest (manifest.rs, "accepted only if its
\* byte length and SHA-256 both match").
InstalledIsVerified == outcome = "complete" => final = "whole"

\* A part with wrong bytes costs one download and no more: of two attempts
\* without trouble, the second completes when the first found the part bad
\* (Downloader::download, "nothing in the app could remove it, so setup
\* reported MODEL_FILE_INVALID forever").
InvalidIsMendedByTheNext ==
  mended /\ clean /\ outcome # "none" => outcome = "complete"

\* A response that is dropped does not wait for a thread that waits for
\* it: one with a message for a full channel is told that nobody listens
\* (CancelableResponseBody::stop_and_join).
JoinReturns == step = "dropping" ~> step = "idle"
=============================================================================
