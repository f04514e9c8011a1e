------------------------------- MODULE Intake -------------------------------
(***************************************************************************)
(* One document of a shared intake folder and the machines that watch it:  *)
(* the claim protocol (crates/intern-intake/src/coordination.rs), the      *)
(* watcher's scan (watcher.rs) and what the machine's queue makes of it    *)
(* (src-tauri/src/intake.rs).                                              *)
(*                                                                         *)
(* The folder is one filesystem, as a network share is.  A scan is a read  *)
(* of the claim and at most one change to it at a time; between any two of *)
(* them other machines act, time passes, or the machine dies.  A claim is  *)
(* stamped by its owner's clock and read against the reader's.             *)
(***************************************************************************)
EXTENDS Naturals

CONSTANTS
  Machine,
  NoMachine,
  CLAIM_LEASE,              \* CLAIM_LEASE_SECONDS, in ticks
  CLAIM_RENEW_THRESHOLD,    \* CLAIM_RENEW_THRESHOLD_SECONDS, in ticks
  Ahead,                    \* how far each machine's clock is ahead of the slowest
  MaxAhead,
  Placeholders,             \* machines whose sync client may free the content
  MaxTroubles               \* bound on restarts, changes of settings, calls that fail,
                            \* content freed and changes of the uploader's verdict

ASSUME IntakeAssumption ==
  /\ NoMachine \notin Machine
  /\ CLAIM_LEASE \in Nat \ {0} /\ CLAIM_RENEW_THRESHOLD \in 1..CLAIM_LEASE
  /\ MaxAhead \in Nat /\ Ahead \in [Machine -> 0..MaxAhead]
  /\ Placeholders \subseteq Machine
  /\ MaxTroubles \in Nat

VARIABLES
  present,      \* the document is in the folder
  claim,        \* its claim file
  aside,        \* the claim each machine has renamed aside to take it over
  memory,       \* what each watcher remembers from scan to scan
  watched,      \* the heartbeat each machine last saw of another, and for how long
  scan,         \* where each machine is in its scan, and the claim it has loaded
  row,          \* the document in each machine's queue
  hydrated,     \* its content is on the machine's disk
  verdict,      \* what the host answers when asked for the uploader
  up,           \* the machine runs
  troubles      \* counted against MaxTroubles

folderVars == <<present, claim, aside>>
hostVars == <<row, hydrated, verdict>>
vars == <<folderVars, memory, watched, scan, hostVars, up, troubles>>

-----------------------------------------------------------------------------
Oldest == CLAIM_LEASE + MaxAhead         \* older than this makes no difference

Outcome == {"none", "filed", "failed", "removed"}
Claim == [owner : Machine, state : {"claimed", "done"},
          age : 0..Oldest,               \* of heartbeat_at; the lease runs from it
          outcome : Outcome]
Missing == [owner |-> NoMachine, state |-> "missing", age |-> 0, outcome |-> "none"]
fresh_claim(m) == [owner |-> m, state |-> "claimed", age |-> 0, outcome |-> "none"]

Memory == [owned : BOOLEAN, awaiting_hydration : BOOLEAN]
Forgetful == [owned |-> FALSE, awaiting_hydration |-> FALSE]

Observation == [owner : Machine \cup {NoMachine}, age : 0..Oldest, silence : 0..CLAIM_LEASE]
Unobserved == [owner |-> NoMachine, age |-> 0, silence |-> 0]

\* The queue's rows by their fate.  "applying" is a filing under way, and
\* "unsettled" one that left its files for a person.
Row == {"none", "active", "applying", "unsettled", "failed", "canceled", "filed"}
Pending == {"active", "applying", "unsettled"}

ScanPoint == {"idle", "acquire", "create", "aside", "settle", "confirm", "enqueue",
              "renew", "renewInDoubt", "close", "release"}
Scan == [pc : ScanPoint, held : Claim \cup {Missing}]
Rest == [pc |-> "idle", held |-> Missing]

At(m, pc) == up[m] /\ scan[m].pc = pc
Goto(m, pc) == scan' = [scan EXCEPT ![m] = [pc |-> pc, held |-> Missing]]
GotoWith(m, pc, c) == scan' = [scan EXCEPT ![m] = [pc |-> pc, held |-> c]]
Done(m) == Goto(m, "idle")

Trouble == troubles < MaxTroubles /\ troubles' = troubles + 1

Holds(m) == claim.owner = m
verify(m) == Holds(m) /\ claim.state = "claimed"

-----------------------------------------------------------------------------
(* Staleness *)

\* Two slips in observed_silence: what the timestamps say is taken for
\* silence, and each scan starts to watch anew.
observed_silenceByTimestamp(m) == CLAIM_LEASE
observed_silenceSinceThisScan(m) == 0

\* Two claims show the same heartbeat_at, each stamped by its owner's clock.
SameHeartbeat(c, d) ==
  /\ c.owner # NoMachine /\ d.owner # NoMachine
  /\ c.age + Ahead[d.owner] = d.age + Ahead[c.owner]

\* How long m has seen the claim's heartbeat stand still.
observed_silence(m) ==
  IF SameHeartbeat(watched[m], claim) THEN watched[m].silence ELSE 0

Observe(m) ==
  watched' = [watched EXCEPT ![m] =
    [owner |-> claim.owner, age |-> claim.age, silence |-> observed_silence(m)]]

\* The lease, and the heartbeat, by the reader's clock; and silence.
is_takeable(m) ==
  /\ claim.state = "claimed" /\ ~ Holds(m)
  /\ claim.age + Ahead[m] >= CLAIM_LEASE + Ahead[claim.owner]
  /\ observed_silence(m) >= CLAIM_LEASE

-----------------------------------------------------------------------------
(* A document this machine works on *)

\* A file that is gone is not a placeholder.
is_dehydrated(m) == present /\ ~ hydrated[m]

\* host.abandon ignores what cancel answers: a filing under way, one that is
\* unsettled and a row that is over stay as they are.
Abandoned(r) == IF r = "active" THEN "canceled" ELSE r

forget(m) ==
  /\ memory' = [memory EXCEPT ![m] = Forgetful]
  /\ row' = [row EXCEPT ![m] = Abandoned(@)]

\* renew: less than the threshold is left, or there is nothing to do.  The
\* heartbeat is stamped before it is written.
renew(m, waits, pc) ==
  /\ memory' = [memory EXCEPT ![m] = [owned |-> TRUE, awaiting_hydration |-> waits]]
  /\ IF claim.age + CLAIM_RENEW_THRESHOLD > CLAIM_LEASE
     THEN GotoWith(m, pc, fresh_claim(m))
     ELSE Done(m)

mark_done(m, outcome) ==
  /\ memory' = [memory EXCEPT ![m].owned = TRUE]
  /\ GotoWith(m, "close", [fresh_claim(m) EXCEPT !.state = "done", !.outcome = outcome])

\* release, and the claim is no longer this machine's.
release(m) ==
  /\ memory' = [memory EXCEPT ![m] = Forgetful]
  /\ Goto(m, IF Holds(m) THEN "release" ELSE "idle")

\* A failure is not a verdict while the content is in the cloud; once it has
\* come, the claim is released for another reading.
finish_failed(m) ==
  \/ /\ is_dehydrated(m)
     /\ \/ /\ hydrated' = [hydrated EXCEPT ![m] = TRUE]
           /\ release(m)
        \/ renew(m, TRUE, "renew") /\ UNCHANGED hydrated
  \/ /\ ~ is_dehydrated(m) /\ memory[m].awaiting_hydration
     /\ release(m)
     /\ UNCHANGED hydrated
  \/ /\ ~ is_dehydrated(m) /\ ~ memory[m].awaiting_hydration
     /\ mark_done(m, "failed")
     /\ UNCHANGED hydrated

manage_owned(m) ==
  \/ /\ row[m] \in Pending
     /\ renew(m, memory[m].awaiting_hydration, "renew")
     /\ UNCHANGED hydrated
  \/ /\ row[m] = "filed"
     /\ mark_done(m, "filed")
     /\ UNCHANGED hydrated
  \/ row[m] = "failed" /\ finish_failed(m)
  \/ /\ row[m] \in {"none", "canceled"}
     /\ IF present THEN release(m) ELSE mark_done(m, "removed")
     /\ UNCHANGED hydrated

\* A claim from an earlier run of this machine is adopted.
Mine(m) == memory[m].owned \/ verify(m)

manage_admitted(m) ==
  /\ At(m, "idle") /\ present /\ Mine(m)
  /\ \/ /\ verdict[m] = "other"
        /\ row' = [row EXCEPT ![m] = Abandoned(@)]
        /\ release(m)
        /\ UNCHANGED hydrated
     \/ /\ verdict[m] # "other" /\ ~ verify(m)
        /\ forget(m)
        /\ UNCHANGED <<scan, hydrated>>
     \/ /\ verdict[m] = "unknown" /\ verify(m)
        /\ renew(m, memory[m].awaiting_hydration, "renewInDoubt")
        /\ UNCHANGED <<row, hydrated>>
     \/ /\ verdict[m] = "admitted" /\ verify(m)
        /\ manage_owned(m)
        /\ UNCHANGED row
  /\ UNCHANGED <<folderVars, watched, verdict, up, troubles>>

finish_unseen_owned(m) ==
  /\ At(m, "idle") /\ ~ present /\ memory[m].owned
  /\ \/ ~ verify(m) /\ forget(m) /\ UNCHANGED <<scan, hydrated>>
     \/ verify(m) /\ manage_owned(m) /\ UNCHANGED row
  /\ UNCHANGED <<folderVars, watched, verdict, up, troubles>>

\* The write of a renewal; failing, the document is abandoned unless the
\* uploader is in doubt.
write_renewal(m) ==
  /\ At(m, "renew") \/ At(m, "renewInDoubt")
  /\ \/ /\ claim' = scan[m].held
        /\ UNCHANGED <<memory, row, troubles>>
     \/ /\ Trouble
        /\ IF At(m, "renew") THEN forget(m) ELSE UNCHANGED <<memory, row>>
        /\ UNCHANGED claim
  /\ Done(m)
  /\ UNCHANGED <<present, aside, watched, hydrated, verdict, up>>

\* The write of a tombstone; failing, it is tried again on the next scan.
write_done(m) ==
  /\ At(m, "close")
  /\ \/ /\ claim' = scan[m].held
        /\ memory' = [memory EXCEPT ![m] = Forgetful]
        /\ UNCHANGED troubles
     \/ /\ Trouble
        /\ UNCHANGED <<claim, memory>>
  /\ Done(m)
  /\ UNCHANGED <<present, aside, watched, hostVars, up>>

\* The removal of the claim, whoever's it has become.
remove_claim(m) ==
  /\ At(m, "release")
  /\ \/ claim' = Missing /\ UNCHANGED troubles
     \/ Trouble /\ UNCHANGED claim
  /\ Done(m)
  /\ UNCHANGED <<present, aside, memory, watched, hostVars, up>>

-----------------------------------------------------------------------------
(* A document nobody here works on *)

\* read, is_takeable and consider_admission.  A document that has not held
\* still, or is owed the courtesy delay, is looked at on a later scan.
consider(m) ==
  /\ At(m, "idle") /\ present /\ ~ Mine(m)
  /\ \/ /\ claim = Missing
        /\ UNCHANGED watched
        /\ IF verdict[m] = "admitted" THEN Goto(m, "acquire") ELSE UNCHANGED scan
     \/ /\ claim.state = "claimed"
        /\ Observe(m)
        /\ IF is_takeable(m) /\ verdict[m] = "admitted" THEN Goto(m, "acquire")
                                                        ELSE UNCHANGED scan
  /\ UNCHANGED <<folderVars, memory, hostVars, up, troubles>>

\* A race lost is tried again, until the third gives up.
Lost(m) == Goto(m, "acquire") \/ Done(m)

acquire(m) ==
  /\ At(m, "acquire")
  /\ \/ claim = Missing /\ Goto(m, "create") /\ UNCHANGED watched
     \/ claim.state = "done" /\ Done(m) /\ UNCHANGED watched
     \/ verify(m) /\ Goto(m, "confirm") /\ UNCHANGED watched
     \/ /\ claim.state = "claimed" /\ ~ Holds(m)
        /\ Observe(m)
        /\ IF is_takeable(m) THEN GotoWith(m, "aside", claim) ELSE Done(m)
  /\ UNCHANGED <<folderVars, memory, hostVars, up, troubles>>

\* create_exclusive: of any number of machines one succeeds.
create_exclusive(m) ==
  \/ /\ claim = Missing
     /\ claim' = fresh_claim(m)
     /\ Goto(m, "confirm")
     /\ UNCHANGED troubles
  \/ /\ claim # Missing
     /\ Lost(m)
     /\ UNCHANGED <<claim, troubles>>
  \/ /\ Trouble
     /\ Done(m)
     /\ UNCHANGED claim

create(m) ==
  /\ At(m, "create")
  /\ create_exclusive(m)
  /\ UNCHANGED <<present, aside, memory, watched, hostVars, up>>

\* take_over renames the claim aside: one machine gets it.
take_over(m) ==
  /\ At(m, "aside")
  /\ \/ /\ claim # Missing
        /\ aside' = [aside EXCEPT ![m] = claim]
        /\ claim' = Missing
        /\ UNCHANGED troubles
        /\ scan' = [scan EXCEPT ![m].pc = "settle"]
     \/ /\ claim = Missing
        /\ Lost(m)
        /\ UNCHANGED <<claim, aside, troubles>>
     \/ /\ Trouble
        /\ Done(m)
        /\ UNCHANGED <<claim, aside>>
  /\ UNCHANGED <<present, memory, watched, hostVars, up>>

\* What was renamed aside is the claim that was judged, and is replaced; or
\* it is not, and is put back over whatever is there, or lost.
settle_takeover(m) ==
  /\ At(m, "settle")
  /\ \/ /\ aside[m] = scan[m].held
        /\ create_exclusive(m)
     \/ /\ aside[m] # scan[m].held
        /\ \/ claim' = aside[m] /\ UNCHANGED troubles
           \/ Trouble /\ UNCHANGED claim
        /\ Lost(m)
  /\ aside' = [aside EXCEPT ![m] = Missing]
  /\ UNCHANGED <<present, memory, watched, hostVars, up>>

\* The claim is read once more before anything is enqueued.
confirm(m) ==
  /\ At(m, "confirm")
  /\ Goto(m, IF verify(m) THEN "enqueue" ELSE "idle")
  /\ UNCHANGED <<folderVars, memory, watched, hostVars, up, troubles>>

\* A path and content the queue has had before keep the row they have.  The
\* content is hashed first, which a placeholder's cannot be.
enqueue(m) ==
  LET readable == present /\ hydrated[m] IN
  /\ At(m, "enqueue")
  /\ \/ /\ readable
        /\ row' = [row EXCEPT ![m] = IF @ = "none" THEN "active" ELSE @]
        /\ memory' = [memory EXCEPT ![m].owned = TRUE]
        /\ Done(m)
        /\ UNCHANGED troubles
     \/ /\ IF readable THEN Trouble ELSE UNCHANGED troubles
        /\ release(m)
        /\ UNCHANGED row
  /\ UNCHANGED <<folderVars, watched, hydrated, verdict, up>>

-----------------------------------------------------------------------------
(* The machine's queue *)

\* A reading fails when the content is not there, and may fail when it is.
ReadingFails(m) ==
  /\ up[m] /\ row[m] = "active"
  /\ row' = [row EXCEPT ![m] = "failed"]
  /\ UNCHANGED <<folderVars, memory, watched, scan, hydrated, verdict, up, troubles>>

\* The document was read, and is the one that was read.
BeginFiling(m) ==
  /\ up[m] /\ row[m] = "active"
  /\ present /\ hydrated[m]
  /\ row' = [row EXCEPT ![m] = "applying"]
  /\ UNCHANGED <<folderVars, memory, watched, scan, hydrated, verdict, up, troubles>>

\* Filed, which takes it out of the folder; or rolled back, to be filed
\* again; or left for a person.
EndFiling(m) ==
  /\ up[m] /\ row[m] = "applying"
  /\ \/ row' = [row EXCEPT ![m] = "filed"] /\ present' = FALSE
     \/ /\ \E r \in {"active", "unsettled"} : row' = [row EXCEPT ![m] = r]
        /\ UNCHANGED present
  /\ UNCHANGED <<claim, aside, memory, watched, scan, hydrated, verdict, up, troubles>>

\* A person cancels the row, retries it, keeps the original, has the source
\* of an unsettled filing deleted after all, or clears it from the list.
Command(m) ==
  /\ up[m]
  /\ \/ row[m] = "active" /\ row' = [row EXCEPT ![m] = "canceled"] /\ UNCHANGED present
     \/ /\ row[m] \in {"failed", "canceled"}
        /\ row' = [row EXCEPT ![m] = "active"]
        /\ UNCHANGED present
     \/ row[m] = "active" /\ row' = [row EXCEPT ![m] = "filed"] /\ UNCHANGED present
     \/ row[m] = "unsettled" /\ row' = [row EXCEPT ![m] = "filed"] /\ present' = FALSE
     \/ /\ row[m] \notin {"none", "applying", "unsettled"}
        /\ row' = [row EXCEPT ![m] = "none"]
        /\ UNCHANGED present
  /\ UNCHANGED <<claim, aside, memory, watched, scan, hydrated, verdict, up, troubles>>

-----------------------------------------------------------------------------
(* Around the machines *)

\* A person takes the document away.
Delete ==
  /\ present
  /\ present' = FALSE
  /\ UNCHANGED <<claim, aside, memory, watched, scan, hostVars, up, troubles>>

\* The sync client frees the content, or fetches it.
Sync(m) ==
  /\ m \in Placeholders /\ present
  /\ IF hydrated[m] THEN Trouble ELSE UNCHANGED troubles
  /\ hydrated' = [hydrated EXCEPT ![m] = ~ @]
  /\ UNCHANGED <<folderVars, memory, watched, scan, row, verdict, up>>

\* The host's answer about the uploader changes.
Answer(m) ==
  /\ Trouble
  /\ \E v \in {"admitted", "unknown", "other"} \ {verdict[m]} :
       verdict' = [verdict EXCEPT ![m] = v]
  /\ UNCHANGED <<folderVars, memory, watched, scan, row, hydrated, up>>

\* The process ends: the watcher's memory goes, the queue and what was
\* renamed aside stay where they are.
Crash(m) ==
  /\ up[m]
  /\ up' = [up EXCEPT ![m] = FALSE]
  /\ scan' = [scan EXCEPT ![m] = Rest]
  /\ memory' = [memory EXCEPT ![m] = Forgetful]
  /\ watched' = [watched EXCEPT ![m] = Unobserved]
  /\ aside' = [aside EXCEPT ![m] = Missing]
  /\ UNCHANGED <<present, claim, hostVars, troubles>>

Restart(m) ==
  /\ ~ up[m]
  /\ Trouble
  /\ up' = [up EXCEPT ![m] = TRUE]
  /\ UNCHANGED <<folderVars, memory, watched, scan, hostVars>>

\* New settings discard what the watcher remembers, between two scans.
update_config(m) ==
  /\ At(m, "idle")
  /\ Trouble
  /\ memory' = [memory EXCEPT ![m] = Forgetful]
  /\ watched' = [watched EXCEPT ![m] = Unobserved]
  /\ UNCHANGED <<folderVars, scan, hostVars, up>>

\* A tombstone's heartbeat is never asked for.
Aged(c) == IF c.state = "claimed" /\ c.age < Oldest THEN [c EXCEPT !.age = @ + 1] ELSE c

Shown == {claim} \cup {aside[m] : m \in Machine}

\* A heartbeat that no claim shows any more is not seen again, unless a
\* machine with a slower clock has yet to stamp its claim with it.
Noted(m, o) ==
  IF \/ \E c \in Shown : SameHeartbeat(o, c)
     \/ o # Unobserved /\ \E k \in Machine \ {m} : o.age + Ahead[k] < Ahead[o.owner]
  THEN [o EXCEPT !.age = IF @ < Oldest THEN @ + 1 ELSE @,
                 !.silence = IF @ < CLAIM_LEASE THEN @ + 1 ELSE @]
  ELSE Unobserved

\* Nor will a claim that was judged and is nowhere any more be found equal.
Held(m) ==
  IF scan[m].pc \in {"aside", "settle"} /\ scan[m].held \notin Shown
  THEN Missing
  ELSE Aged(scan[m].held)

Tick ==
  /\ claim' = Aged(claim)
  /\ aside' = [m \in Machine |-> Aged(aside[m])]
  /\ scan' = [m \in Machine |-> [scan[m] EXCEPT !.held = Held(m)]]
  /\ watched' = [m \in Machine |-> Noted(m, watched[m])]
  /\ UNCHANGED <<present, memory, hostVars, up, troubles>>

-----------------------------------------------------------------------------
Init ==
  /\ present = TRUE
  /\ claim = Missing
  /\ aside = [m \in Machine |-> Missing]
  /\ memory = [m \in Machine |-> Forgetful]
  /\ watched = [m \in Machine |-> Unobserved]
  /\ scan = [m \in Machine |-> Rest]
  /\ row = [m \in Machine |-> "none"]
  /\ hydrated = [m \in Machine |-> TRUE]
  /\ verdict = [m \in Machine |-> "admitted"]
  /\ up = [m \in Machine |-> TRUE]
  /\ troubles = 0

\* One step of a machine's scan.
Step(m) ==
  \/ manage_admitted(m)
  \/ finish_unseen_owned(m)
  \/ write_renewal(m)
  \/ write_done(m)
  \/ remove_claim(m)
  \/ consider(m)
  \/ acquire(m)
  \/ create(m)
  \/ take_over(m)
  \/ settle_takeover(m)
  \/ confirm(m)
  \/ enqueue(m)

Next ==
  \/ Tick
  \/ Delete
  \/ \E m \in Machine :
       \/ Step(m)
       \/ ReadingFails(m) \/ BeginFiling(m) \/ EndFiling(m) \/ Command(m)
       \/ Sync(m) \/ Answer(m)
       \/ Crash(m) \/ Restart(m) \/ update_config(m)

Spec == Init /\ [][Next]_vars

\* A machine that runs scans again and again, a filing ends, and time passes.
FairSpec ==
  /\ Spec
  /\ WF_vars(Tick)
  /\ \A m \in Machine : WF_vars(Step(m)) /\ WF_vars(EndFiling(m))

-----------------------------------------------------------------------------
(* What the protocol promises *)

\* Every variable holds a value its type allows; a machine that is not
\* running remembers nothing, and only a takeover has a claim aside.
IntakeTypeOK ==
  /\ present \in BOOLEAN
  /\ claim \in Claim \cup {Missing}
  /\ aside \in [Machine -> Claim \cup {Missing}]
  /\ memory \in [Machine -> Memory]
  /\ watched \in [Machine -> Observation]
  /\ scan \in [Machine -> Scan]
  /\ row \in [Machine -> Row]
  /\ hydrated \in [Machine -> BOOLEAN]
  /\ verdict \in [Machine -> {"admitted", "unknown", "other"}]
  /\ up \in [Machine -> BOOLEAN]
  /\ \A m \in Machine : up[m] \/ (memory[m] = Forgetful /\ scan[m] = Rest)
  /\ \A m \in Machine : aside[m] # Missing => scan[m].pc = "settle"

\* "One clock being wrong, or one sync being slow, is not enough to steal work
\* from a live machine" (docs/shared-intake.md): whatever the clocks say, a
\* claim is taken over only when its heartbeat is truly a lease old, and never
\* over one written since it was judged.
TakenInSilence(m) ==
  scan[m].pc = "settle" /\ scan'[m].pc = "confirm" =>
    claim = Missing /\ aside[m].state = "claimed" /\ aside[m].age >= CLAIM_LEASE

TakenOverOnlyInSilence == [][\A m \in Machine : TakenInSilence(m)]_vars

Working(m) == up[m] /\ row[m] \in Pending

\* "The other sees verify fail and abandons" (coordination.rs): a machine that
\* knows the document for its own and has lost the claim does not keep it,
\* whatever its row was at when the watcher asked for it to be canceled.
LoserStops ==
  \A m \in Machine :
    Working(m) /\ memory[m].owned /\ ~ Holds(m) ~> (~ Working(m) \/ Holds(m))

\* A document left without a machine: nobody claimed it, or its machine died.
Stranded == present /\ (claim = Missing \/ (claim.state = "claimed" /\ ~ up[claim.owner]))

\* "A crashed or unplugged machine must not strand its documents": while some
\* machine runs that may have the document, somebody takes it up.
StrandedIsTakenUp ==
  \A m \in Machine :
    Stranded /\ up[m] /\ verdict[m] = "admitted"
      ~> (~ Stranded \/ ~ up[m] \/ verdict[m] # "admitted")
=============================================================================
