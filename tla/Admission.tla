----------------------------- MODULE Admission -----------------------------
(***************************************************************************)
(* Whether a document may be worked on: MicrosoftIntake of src-tauri/src/  *)
(* microsoft_intake.rs with the connection (MicrosoftClient, crates/       *)
(* intern-intake/src/microsoft/auth.rs) and the upload evidence            *)
(* (AuditVerifier, audit.rs) behind it.  The watcher and every stage of    *)
(* the pipeline call authorize; a person signs in, disconnects, pairs the  *)
(* folder and saves settings meanwhile, one command at a time beside a     *)
(* poll; the file is replaced in the cloud and syncs to the disk later.    *)
(*                                                                         *)
(* One folder, one organisation and one path.  A revision is a number; who *)
(* uploaded it, and whether it is an upload or an edit, is what the        *)
(* service knows of it.  Identities and checksums are compared as values.  *)
(***************************************************************************)
EXTENDS Naturals, Sequences

CONSTANTS
  Account, NoAccount,
  MaxRevisions,    \* bound on the revisions of the file
  MaxCommands,     \* bound on commands of a person
  MaxMishaps       \* bound on writes that fail, refusals and restarts

ASSUME AccountAssumption == NoAccount \notin Account
ASSUME AdmissionBounds == {MaxRevisions, MaxCommands, MaxMishaps} \subseteq Nat

VARIABLES
  uploads,     \* the revisions of the file in the cloud
  local,       \* the revision on this disk
  saved,       \* the settings: the folder watched as what, and others' uploads
  config,      \* PublicConfig: enabled, the pairing, the protected root; and
               \* whether its file was read
  disk,        \* microsoft-intake.json
  generation,
  client,      \* the session's account, pending, allow_refresh
  credential,  \* the account of the refresh token in the credential store
  evidence,    \* Evidence: searches and accepted, by key
  verifying,   \* the thread in authorize
  commanding,  \* the thread in begin, disconnect, bind or settings_save
  polling,     \* the thread in poll
  verdict,     \* what the last authorize returned
  signedOut,   \* whether a disconnect has returned since the last sign-in began
  guarded,     \* whether the folder has been saved as a Microsoft intake
  commands, mishaps

admissionVars == <<uploads, local, saved, config, disk, generation, client, credential, evidence,
                   verifying, commanding, polling, verdict, signedOut, guarded, commands, mishaps>>
cloudVars == <<uploads, local>>
connectionVars == <<config, disk, client, credential>>
historyVars == <<signedOut, guarded>>
threadVars == <<verifying, commanding, polling>>
boundVars == <<commands, mishaps>>

Upload == [by : Account, fresh : BOOLEAN]
Current == Len(uploads)
Settings ==
  {settings \in [folder : {"microsoft", "private", "elsewhere"}, others : BOOLEAN] :
     settings.others => settings.folder = "microsoft"}
NotVerifying == [at |-> "idle"]
NotCommanding == [at |-> "idle"]
NoVerdict == [kind |-> "none"]

\* PublicConfig::default, and config_error, of a start that could not read the
\* file ("unread").  A save puts it in the file's place ("replaced").
DefaultConfig == [enabled |-> FALSE, pairing |-> 0, protected |-> FALSE, file |-> "unread"]
unavailable == config.file = "unread"

SavedConfig(next) == [next EXCEPT !.file = IF @ = "unread" THEN "replaced" ELSE @]
save(next) == config' = SavedConfig(next) /\ disk' = SavedConfig(next)

Mishap == mishaps < MaxMishaps /\ mishaps' = mishaps + 1
NoMishap == UNCHANGED mishaps

-----------------------------------------------------------------------------
(* The service and the sync client *)

\* Somebody deletes the file and uploads another one, or writes to it.
ReplaceUpload ==
  /\ Len(uploads) < MaxRevisions
  /\ \E upload \in Upload : uploads' = Append(uploads, upload)
  /\ UNCHANGED <<local, saved, connectionVars, generation, evidence, threadVars, verdict,
                 historyVars, boundVars>>

SyncDown ==
  /\ local # Current
  /\ local' = Current
  /\ UNCHANGED <<uploads, saved, connectionVars, generation, evidence, threadVars, verdict,
                 historyVars, boundVars>>

-----------------------------------------------------------------------------
(* MicrosoftClient::graph_request *)

\* A session, or one refreshed from the stored token for the same person;
\* never while a sign-in is pending or after a disconnect.
Connected == client.refresh /\ ~ client.pending /\ (client.account # NoAccount \/ credential # NoAccount)
SessionAccount == IF client.account # NoAccount THEN client.account ELSE credential

Answers200 == Connected /\ client' = [client EXCEPT !.account = SessionAccount]

\* Refused, expired, throttled or unreachable; the session may be dropped.
AnswersNothing == client' \in {client, [client EXCEPT !.account = NoAccount]}

-----------------------------------------------------------------------------
(* authorize *)

Held == verifying' = NotVerifying /\ verdict' = NoVerdict
Proceeds(place) == verifying' = [verifying EXCEPT !.at = place] /\ UNCHANGED verdict

Authorize ==
  /\ verifying.at = "idle"
  /\ verifying' = [at |-> "epoch", settings |-> saved, epoch |-> 0, pairing |-> 0,
                   account |-> NoAccount, revision |-> 0, actor |-> NoAccount,
                   signedOut |-> signedOut, guarded |-> guarded, changed |-> FALSE]
  /\ verdict' = NoVerdict
  /\ UNCHANGED <<cloudVars, saved, connectionVars, generation, evidence, commanding, polling,
                 historyVars, boundVars>>

LoadEpoch ==
  /\ verifying.at = "epoch"
  /\ verifying' = [verifying EXCEPT !.epoch = generation, !.at = "scope"]
  /\ UNCHANGED <<cloudVars, saved, connectionVars, generation, evidence, commanding, polling,
                 verdict, historyVars, boundVars>>

\* What the machine says of a folder saved as private may be thirty seconds
\* old: it may be a shared one by now.
Scope ==
  /\ verifying.at = "scope"
  /\ LET watched == verifying.settings.folder # "elsewhere" IN
     \E contradicted \in BOOLEAN :
       /\ contradicted => verifying.settings.folder = "private"
       /\ IF ~ (config.protected \/ (watched /\ (verifying.settings.folder = "microsoft" \/ contradicted)))
          THEN /\ verdict' = [kind |-> "local", guarded |-> verifying.guarded, file |-> config.file]
               /\ verifying' = NotVerifying
          ELSE IF contradicted \/ unavailable \/ ~ config.enabled \/ config.pairing = 0
          THEN Held
          ELSE /\ verifying' = [verifying EXCEPT !.pairing = config.pairing, !.at = "first"]
               /\ UNCHANGED verdict
  /\ UNCHANGED <<cloudVars, saved, connectionVars, generation, evidence, commanding, polling,
                 historyVars, boundVars>>

\* candidate: an edited file has no upload identity.
Candidate(revision) == uploads[revision].fresh

ReadMetadata ==
  /\ verifying.at = "first"
  /\ \/ /\ Answers200
        /\ IF Candidate(Current)
           THEN verifying' = [verifying EXCEPT !.account = SessionAccount, !.revision = Current,
                                               !.at = "audit"] /\ UNCHANGED verdict
           ELSE Held
     \/ AnswersNothing /\ Held
  /\ UNCHANGED <<cloudVars, saved, config, disk, credential, generation, evidence, commanding,
                 polling, historyVars, boundVars>>

\* A slip: evidence is kept by path, which the next upload shares.
KeyByPath(revision) == 1

\* Tenant, item, ETag and path: one per revision.
Key(revision) == revision

\* The actor, and what the settings say of an actor who is somebody else.
Established(actor) ==
  IF actor = verifying.account \/ verifying.settings.others
  THEN verifying' = [verifying EXCEPT !.actor = actor, !.at = "hash"] /\ UNCHANGED verdict
  ELSE Held

\* AuditVerifier::verify: what was accepted stands; otherwise a search is
\* begun, unless other files hold every slot, or asked for its records.
\* The lock on the evidence is held throughout.
AskAudit ==
  /\ verifying.at = "audit"
  /\ LET key == Key(verifying.revision)
         actor == uploads[verifying.revision].by
         known == {accepted \in evidence.accepted : accepted.key = key} IN
     IF known # {}
     THEN (\E accepted \in known : Established(accepted.actor)) /\ UNCHANGED <<evidence, client>>
     ELSE \/ AnswersNothing /\ Held /\ UNCHANGED evidence
          \/ /\ key \notin evidence.searches
             /\ Answers200 /\ Held
             /\ evidence' = [evidence EXCEPT !.searches = @ \cup {key}]
          \/ /\ key \in evidence.searches
             /\ Answers200
             /\ \/ Held /\ UNCHANGED evidence
                \/ Held /\ evidence' = [evidence EXCEPT !.searches = @ \ {key}]
                \/ /\ Established(actor)
                   /\ evidence' = [searches |-> evidence.searches \ {key},
                                   accepted |-> evidence.accepted \cup {[key |-> key, actor |-> actor]}]
  /\ UNCHANGED <<cloudVars, saved, config, disk, credential, generation, commanding, polling,
                 historyVars, boundVars>>

\* forget_stale: searches after ten minutes, what was accepted after a day.
ForgetStale ==
  /\ verifying.at = "audit"
  /\ (evidence.searches # {} \/ evidence.accepted # {})
  /\ evidence' \in {[evidence EXCEPT !.searches = {}], [evidence EXCEPT !.accepted = {}]}
  /\ UNCHANGED <<cloudVars, saved, connectionVars, generation, threadVars, verdict,
                 historyVars, boundVars>>

\* verified_local_hash: the bytes on this disk are the revision's.
HashLocal ==
  /\ verifying.at = "hash"
  /\ IF local = verifying.revision THEN Proceeds("again") ELSE Held
  /\ UNCHANGED <<cloudVars, saved, connectionVars, generation, evidence, commanding, polling,
                 historyVars, boundVars>>

ReadAgain ==
  /\ verifying.at = "again"
  /\ \/ /\ Answers200
        /\ IF Current = verifying.revision /\ SessionAccount = verifying.account
           THEN Proceeds("compare") ELSE Held
     \/ AnswersNothing /\ Held
  /\ UNCHANGED <<cloudVars, saved, config, disk, credential, generation, evidence, commanding,
                 polling, historyVars, boundVars>>

\* A slip: that the identity is the same is taken to be enough.
SameConnectionByIdentity == TRUE

SameConnection == generation = verifying.epoch

CompareEpoch ==
  /\ verifying.at = "compare"
  /\ IF SameConnection THEN Proceeds("settings") ELSE Held
  /\ UNCHANGED <<cloudVars, saved, connectionVars, generation, evidence, commanding, polling,
                 historyVars, boundVars>>

\* Verified: the caller compares the hash with the one it has queued.
CompareSettings ==
  /\ verifying.at = "settings"
  /\ IF saved = verifying.settings
     THEN /\ verifying' = NotVerifying
          /\ verdict' = [kind |-> "verified", revision |-> verifying.revision,
                         actor |-> verifying.actor, account |-> verifying.account,
                         others |-> verifying.settings.others,
                         signedOut |-> verifying.signedOut, changed |-> verifying.changed]
     ELSE Held
  /\ UNCHANGED <<cloudVars, saved, connectionVars, generation, evidence, commanding, polling,
                 historyVars, boundVars>>

-----------------------------------------------------------------------------
(* begin and disconnect *)

\* A verification under way, before its last look at the connection, meets
\* the end of a disconnect that began after it did, or of a pairing with
\* another folder than the one it asks about.
Returned(what) ==
  /\ commanding' = NotCommanding
  /\ verifying' = IF /\ verifying.at \notin {"idle", "settings"}
                     /\ \/ what = "disconnect" /\ verifying.epoch < generation
                        \/ what = "bind" /\ verifying.pairing \notin {0, config.pairing}
                  THEN [verifying EXCEPT !.changed = TRUE] ELSE verifying

Next_(place) == commanding' = [commanding EXCEPT !.at = place] /\ UNCHANGED verifying

BeginCommand ==
  /\ commanding.at = "idle"
  /\ commands < MaxCommands
  /\ commands' = commands + 1
  /\ generation' = generation + 1
  /\ \E what \in {"begin", "disconnect"} :
       /\ commanding' = [at |-> "clear", what |-> what]
       /\ signedOut' = IF what = "begin" THEN FALSE ELSE signedOut
  /\ UNCHANGED <<cloudVars, saved, connectionVars, evidence, verifying, polling, verdict, guarded,
                 mishaps>>

\* audit.clear waits for a verification that is asking.
ClearEvidence ==
  /\ commanding.at = "clear"
  /\ evidence' = [searches |-> {}, accepted |-> {}]
  /\ Next_("disable")
  /\ UNCHANGED <<cloudVars, saved, connectionVars, generation, polling, verdict, historyVars, boundVars>>

\* begin changes nothing when it cannot save; disconnect disables anyway.
Disable ==
  /\ commanding.at = "disable"
  /\ LET next == [config EXCEPT !.enabled = FALSE] IN
     \/ save(next) /\ Next_("drop") /\ NoMishap
     \/ /\ Mishap
        /\ IF commanding.what = "begin"
           THEN Returned("begin") /\ UNCHANGED <<config, disk>>
           ELSE config' = next /\ Next_("drop") /\ UNCHANGED disk
  /\ UNCHANGED <<cloudVars, saved, client, credential, generation, evidence, polling, verdict,
                 historyVars, commands>>

\* A slip: the session goes, what may refresh it stays.
DropSessionOnly == client' = [client EXCEPT !.account = NoAccount, !.pending = FALSE]

DropSession == client' = [account |-> NoAccount, pending |-> FALSE, refresh |-> FALSE]

\* MicrosoftClient::disconnect: the credential may refuse to be deleted.
Drop ==
  /\ commanding.at = "drop"
  /\ DropSession
  /\ \/ credential' = NoAccount /\ NoMishap
        /\ IF commanding.what = "begin" THEN Next_("ask") ELSE Returned("disconnect")
     \/ Mishap /\ UNCHANGED credential /\ Returned(commanding.what)
  /\ signedOut' = (signedOut \/ commanding.what = "disconnect")
  /\ UNCHANGED <<cloudVars, saved, config, disk, generation, evidence, polling, verdict, guarded,
                 commands>>

\* MicrosoftClient::begin: a code to type, or none.
AskForCode ==
  /\ commanding.at = "ask"
  /\ \E given \in BOOLEAN : client' = [account |-> NoAccount, pending |-> given, refresh |-> FALSE]
  /\ Returned("begin")
  /\ UNCHANGED <<cloudVars, saved, config, disk, credential, generation, evidence, polling, verdict,
                 historyVars, boundVars>>

-----------------------------------------------------------------------------
(* poll *)

StartPoll ==
  /\ polling.at = "idle"
  /\ client.pending
  /\ polling' = [at |-> "ask", epoch |-> generation]
  /\ UNCHANGED <<cloudVars, saved, connectionVars, generation, evidence, verifying, commanding,
                 verdict, historyVars, boundVars>>

\* MicrosoftClient::poll: nobody has answered yet, it is over, or somebody
\* signed in.
PollToken ==
  /\ polling.at = "ask"
  /\ \/ /\ client.pending
        /\ \E account \in Account :
             /\ client' = [account |-> account, pending |-> FALSE, refresh |-> TRUE]
             /\ credential' = account
        /\ polling' = [polling EXCEPT !.at = "enable"]
     \/ /\ client' \in {client, [client EXCEPT !.pending = FALSE]}
        /\ polling' = [at |-> "idle"]
        /\ UNCHANGED credential
  /\ UNCHANGED <<cloudVars, saved, config, disk, generation, evidence, verifying, commanding,
                 verdict, historyVars, boundVars>>

Enable ==
  /\ polling.at = "enable"
  /\ LET next == [config EXCEPT !.enabled = TRUE] IN
     IF generation = polling.epoch
     THEN \/ save(next) /\ NoMishap
          \/ Mishap /\ UNCHANGED <<config, disk>>
     ELSE UNCHANGED <<config, disk, mishaps>>
  /\ polling' = [at |-> "idle"]
  /\ UNCHANGED <<cloudVars, saved, client, credential, generation, evidence, verifying, commanding,
                 verdict, historyVars, commands>>

-----------------------------------------------------------------------------
(* bind, and the settings saved *)

StartBind ==
  /\ commanding.at = "idle"
  /\ commands < MaxCommands
  /\ commands' = commands + 1
  /\ saved.folder = "microsoft" /\ config.enabled
  /\ commanding' = [at |-> "bind", what |-> "bind", epoch |-> generation, settings |-> saved]
  /\ UNCHANGED <<cloudVars, saved, connectionVars, generation, evidence, verifying, polling, verdict,
                 historyVars, mishaps>>

\* The folder at Microsoft is confirmed first; then, under the lock, that
\* nothing has changed since.  The generation follows the new pairing.
Bind ==
  /\ commanding.at = "bind"
  /\ LET next == [config EXCEPT !.pairing = commands, !.protected = TRUE] IN
     \/ /\ Answers200
        /\ generation = commanding.epoch /\ config.enabled
        /\ saved.folder = commanding.settings.folder
        /\ save(next)
        /\ Next_("bound")
     \/ AnswersNothing /\ UNCHANGED <<config, disk>> /\ Returned("failed")
  /\ UNCHANGED <<cloudVars, saved, credential, generation, evidence, polling, verdict, historyVars,
                 boundVars>>

Bound ==
  /\ commanding.at = "bound"
  /\ generation' = generation + 1
  /\ Next_("unpaired")
  /\ UNCHANGED <<cloudVars, saved, connectionVars, evidence, polling, verdict, historyVars, boundVars>>

ClearForPairing ==
  /\ commanding.at = "unpaired"
  /\ evidence' = [searches |-> {}, accepted |-> {}]
  /\ Returned("bind")
  /\ UNCHANGED <<cloudVars, saved, connectionVars, generation, polling, verdict, historyVars, boundVars>>

\* A slip: the folder is protected for as long as this process runs.
RememberInMemory(next) == config' = next /\ UNCHANGED disk

RememberRoot(next) == save(next)

\* protect_settings: a private folder that is a shared one is refused, and
\* a Microsoft intake is remembered before the settings are saved, or refused
\* while the configuration could not be read.
ProtectSettings ==
  /\ commanding.at = "idle"
  /\ commands < MaxCommands
  /\ commands' = commands + 1
  /\ generation' = generation + 1
  /\ \E settings \in Settings \ {saved} :
       \/ /\ settings.folder = "microsoft" => ~ unavailable
          /\ IF settings.folder = "microsoft" /\ ~ config.protected
             THEN RememberRoot([config EXCEPT !.protected = TRUE])
             ELSE UNCHANGED <<config, disk>>
          /\ commanding' = [at |-> "save", what |-> "save", settings |-> settings, previous |-> saved]
          /\ NoMishap
       \/ /\ settings.folder = "microsoft"
          /\ IF unavailable THEN NoMishap ELSE Mishap
          /\ UNCHANGED <<config, disk, commanding>>
  /\ UNCHANGED <<cloudVars, saved, client, credential, evidence, verifying, polling, verdict,
                 historyVars>>

\* save_settings_and_autostart: a refused login entry puts the previous
\* settings back.
StoreSettings ==
  /\ commanding.at = "save"
  /\ \/ /\ saved' = commanding.settings
        /\ guarded' = (guarded \/ commanding.settings.folder = "microsoft")
        /\ \/ Returned("save") /\ NoMishap
           \/ Next_("revert") /\ Mishap
     \/ Mishap /\ Returned("failed") /\ UNCHANGED <<saved, guarded>>
  /\ UNCHANGED <<cloudVars, connectionVars, generation, evidence, polling, verdict, signedOut,
                 commands>>

RevertSettings ==
  /\ commanding.at = "revert"
  /\ saved' = commanding.previous
  /\ Returned("failed")
  /\ UNCHANGED <<cloudVars, connectionVars, generation, evidence, polling, verdict, historyVars,
                 boundVars>>

-----------------------------------------------------------------------------
\* The configuration, if its file can be read, the settings and the credential
\* store are what is left.
RestartProgram ==
  /\ Mishap
  /\ config' \in {disk, DefaultConfig}
  /\ client' = [account |-> NoAccount, pending |-> FALSE, refresh |-> TRUE]
  /\ evidence' = [searches |-> {}, accepted |-> {}]
  /\ generation' = 0
  /\ verifying' = NotVerifying /\ commanding' = NotCommanding /\ polling' = [at |-> "idle"]
  /\ verdict' = NoVerdict
  /\ signedOut' = FALSE
  /\ UNCHANGED <<cloudVars, saved, disk, credential, guarded, commands>>

\* A program that was set up earlier, or never; a document its owner uploaded.
AdmissionInit ==
  /\ uploads = <<[by |-> CHOOSE account \in Account : TRUE, fresh |-> TRUE]>>
  /\ local = 1
  /\ generation = 0
  /\ evidence = [searches |-> {}, accepted |-> {}]
  /\ verifying = NotVerifying /\ commanding = NotCommanding /\ polling = [at |-> "idle"]
  /\ verdict = NoVerdict
  /\ client = [account |-> NoAccount, pending |-> FALSE, refresh |-> TRUE]
  /\ \/ /\ saved = [folder |-> "microsoft", others |-> FALSE]
        /\ config = [enabled |-> TRUE, pairing |-> 1, protected |-> TRUE, file |-> "read"]
        /\ credential = CHOOSE account \in Account : TRUE
        /\ guarded = TRUE
     \/ /\ saved = [folder |-> "elsewhere", others |-> FALSE]
        /\ config = [enabled |-> FALSE, pairing |-> 0, protected |-> FALSE, file |-> "read"]
        /\ credential = NoAccount
        /\ guarded = FALSE
  /\ disk = config
  /\ signedOut = FALSE
  /\ commands = 1 /\ mishaps = 0

AdmissionNext ==
  \/ ReplaceUpload \/ SyncDown
  \/ Authorize \/ LoadEpoch \/ Scope \/ ReadMetadata \/ AskAudit \/ ForgetStale \/ HashLocal
  \/ ReadAgain \/ CompareEpoch \/ CompareSettings
  \/ BeginCommand \/ ClearEvidence \/ Disable \/ Drop \/ AskForCode
  \/ StartPoll \/ PollToken \/ Enable
  \/ StartBind \/ Bind \/ Bound \/ ClearForPairing
  \/ ProtectSettings \/ StoreSettings \/ RevertSettings
  \/ RestartProgram

AdmissionSpec == AdmissionInit /\ [][AdmissionNext]_admissionVars

-----------------------------------------------------------------------------
\* A document is admitted as its uploader's and nobody else's, however it
\* is replaced in the cloud while it is asked about: an upload by another
\* person is held unless the settings allow it (AuditVerifier, "the key it
\* is filed under already names the tenant, the item, its ETag and its
\* path").
AdmittedIsItsUploaders ==
  verdict.kind = "verified" =>
    /\ uploads[verdict.revision] = [by |-> verdict.actor, fresh |-> TRUE]
    /\ verdict.others \/ verdict.actor = verdict.account

\* Once a disconnect has returned nothing is verified until somebody begins
\* to sign in, whether or not the credential could be deleted and whatever
\* poll was under way (microsoft-upload-verification.md, "Disconnect
\* disables authorization immediately even if credential deletion fails").
DisconnectedAdmitsNothing == verdict.kind = "verified" => ~ verdict.signedOut

\* No verification that was under way all through a disconnect, or asks about
\* the folder of an earlier pairing when a new one returns, admits a document
\* unless it had taken its last look at the connection by then
\* (MicrosoftIntake::verify, "connection changed during verification").
AdmittedUnderOneSetup == verdict.kind = "verified" => ~ verdict.changed

\* A document under a folder that was once saved as a Microsoft intake is
\* never taken for an ordinary local one, whatever is saved afterwards,
\* however the save ended and however often the program starts
\* (protect_settings, "Disabling watching or choosing a new root cannot bypass
\* checks on already queued documents"), unless a start could not read the
\* configuration: the default that is used instead protects no root, and the
\* next save puts it on the disk (MicrosoftIntake::new).
OnceProtectedIsNeverLocal ==
  verdict.kind = "local" /\ verdict.guarded => verdict.file # "read"
=============================================================================
