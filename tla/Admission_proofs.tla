-------------------------- MODULE Admission_proofs --------------------------
(***************************************************************************)
(* A document is admitted as its uploader's, by the account that is        *)
(* connected, under the setup its verification began with; and never as a  *)
(* local one once its folder was a Microsoft intake, while no start fails  *)
(* to read the configuration: for any number of accounts, revisions,       *)
(* sign-ins, pairings, saves, failures and restarts.                       *)
(***************************************************************************)
EXTENDS Admission, SequenceTheorems, TLAPS

-----------------------------------------------------------------------------
(* Types *)

\* Init's account is a choice; there may be no other.
Uploader == Account \cup {CHOOSE account \in Account : TRUE}
Revision == [by : Uploader, fresh : BOOLEAN]
Person == Uploader \cup {NoAccount}
Saved == [folder : {"microsoft", "private", "elsewhere"}, others : BOOLEAN]
Config == [enabled : BOOLEAN, pairing : Nat, protected : BOOLEAN,
           file : {"read", "unread", "replaced"}]
Client == [account : Person, pending : BOOLEAN, refresh : BOOLEAN]
Evidence == [searches : SUBSET Nat, accepted : SUBSET [key : Nat, actor : Person]]

Begun == {"epoch", "scope", "first"}
Evident == {"hash", "again", "compare", "settings"}
Asking == [at : Begun \cup {"audit"} \cup Evident, settings : Saved, epoch : Nat, pairing : Nat,
           account : Person, revision : Nat, actor : Person,
           signedOut : BOOLEAN, guarded : BOOLEAN, changed : BOOLEAN]

Signing == [at : {"clear", "disable", "drop", "ask"}, what : {"begin", "disconnect"}]
Pairing == [at : {"bind", "bound", "unpaired"}, what : {"bind"}, epoch : Nat, settings : Saved]
Saving == [at : {"save", "revert"}, what : {"save"}, settings : Saved, previous : Saved]

Types ==
  /\ uploads \in Seq(Revision) /\ uploads # <<>>
  /\ saved \in Saved
  /\ config \in Config /\ disk \in Config
  /\ generation \in Nat /\ commands \in Nat
  /\ client \in Client /\ credential \in Person
  /\ evidence \in Evidence
  /\ signedOut \in BOOLEAN /\ guarded \in BOOLEAN
  /\ verifying \in Asking \cup {NotVerifying}
  /\ commanding \in Signing \cup Pairing \cup Saving \cup {NotCommanding}

-----------------------------------------------------------------------------
(* What a verification knows while it is under way *)

\* What was accepted, and what the verification goes by, is what the service
\* knows of the revision.
Attributed ==
  /\ \A accepted \in evidence.accepted :
       /\ accepted.key \in 1..Current
       /\ accepted.actor = uploads[accepted.key].by
  /\ verifying.at \in {"audit"} \cup Evident =>
       verifying.revision \in 1..Current /\ uploads[verifying.revision].fresh
  /\ verifying.at \in Evident =>
       /\ verifying.actor = uploads[verifying.revision].by
       /\ verifying.actor = verifying.account \/ verifying.settings.others

\* A folder that was guarded once is remembered, in memory and on disk, for
\* as long as every start could read what it was remembered in.
Remembered ==
  /\ config.protected => disk.protected
  /\ guarded => \A remembered \in {config, disk} :
                  remembered.protected \/ remembered.file # "read"
  /\ commanding.at = "save" /\ commanding.settings.folder = "microsoft" => config.protected
  /\ verifying.at # "idle" /\ verifying.guarded => guarded

\* Nobody is connected, or about to be, until a sign-in has begun.
Offline == ~ client.refresh /\ ~ client.pending
SigningIn == commanding.at \in {"clear", "disable", "drop", "ask"} /\ commanding.what = "begin"
Unreachable ==
  /\ signedOut => Offline /\ ~ SigningIn
  /\ commanding.at = "ask" => commanding.what = "begin"

\* The pairing a verification asks about is in force, or the generation it
\* began with is over, or is about to be.
Paired ==
  verifying.at # "idle" =>
    /\ verifying.epoch <= generation
    /\ verifying.at \in {"epoch", "scope"} => verifying.pairing = 0
    /\ verifying.pairing \notin {0, config.pairing} =>
         commanding.at = "bound" \/ verifying.epoch < generation

\* A verification that began under a connection that is gone stops: at its
\* last look at the generation, or, when it took the generation only
\* after, because there is nothing left to go by.
Blank == evidence.searches = {} /\ evidence.accepted = {}
Cut ==
  /\ verifying.at \in Begun \cup {"audit"}
  /\ \/ Blank
     \/ /\ verifying.at # "audit"
        /\ Offline
        /\ signedOut \/ (SigningIn /\ commanding.at = "clear")

Spoiled ==
  verifying.at # "idle" /\ (verifying.signedOut \/ verifying.changed) =>
    /\ verifying.at # "settings"
    /\ (verifying.at # "epoch" /\ verifying.epoch < generation) \/ Cut

Verdicts ==
  /\ verdict.kind = "verified" => verdict.revision \in 1..Current
  /\ AdmittedIsItsUploaders
  /\ DisconnectedAdmitsNothing
  /\ AdmittedUnderOneSetup
  /\ OnceProtectedIsNeverLocal

IInv == Types /\ Attributed /\ Remembered /\ Unreachable /\ Paired /\ Spoiled /\ Verdicts

-----------------------------------------------------------------------------
(* Types are kept *)

\* What a save puts on the disk says what it was given, and is not read
\* unless that was.
LEMMA WrittenConfig ==
  ASSUME NEW next \in Config
  PROVE  /\ SavedConfig(next) \in Config
         /\ SavedConfig(next).enabled = next.enabled
         /\ SavedConfig(next).pairing = next.pairing
         /\ SavedConfig(next).protected = next.protected
         /\ SavedConfig(next).file = "read" => next.file = "read"
<1>1. PICK file \in {"read", "unread", "replaced"} :
        SavedConfig(next) = [next EXCEPT !.file = file] /\ (file = "read" => next.file = "read")
  <2>1. CASE next.file = "unread"
    BY <2>1 DEF SavedConfig
  <2>2. CASE next.file # "unread"
    BY <2>2 DEF SavedConfig, Config
  <2> QED BY <2>1, <2>2
<1> QED BY <1>1 DEF Config

\* The files and identities the program starts with.
LEMMA InitTypes == AdmissionInit => Types
<1> SUFFICES ASSUME AdmissionInit PROVE Types
  OBVIOUS
<1> USE DEF AdmissionInit
<1>1. (CHOOSE account \in Account : TRUE) \in Uploader
  BY DEF Uploader
<1>2. uploads \in Seq(Revision) /\ uploads # <<>>
  BY <1>1 DEF Revision
<1>3. client \in Client /\ credential \in Person
  BY <1>1 DEF Client, Person
<1>4. saved \in Saved /\ config \in Config /\ disk \in Config
  <2>1. /\ [enabled |-> TRUE, pairing |-> 1, protected |-> TRUE, file |-> "read"] \in Config
        /\ [enabled |-> FALSE, pairing |-> 0, protected |-> FALSE, file |-> "read"] \in Config
    BY SMT DEF Config
  <2>2. /\ [folder |-> "microsoft", others |-> FALSE] \in Saved
        /\ [folder |-> "elsewhere", others |-> FALSE] \in Saved
    BY DEF Saved
  <2> QED BY <2>1, <2>2
<1>5. evidence \in Evidence
  BY DEF Evidence
<1> QED BY <1>2, <1>3, <1>4, <1>5 DEF Types

\* What the service answers keeps the session's type.
LEMMA ClientTypes ==
  ASSUME Types, Answers200 \/ AnswersNothing
  PROVE  client' \in Client /\ SessionAccount \in Person
<1>1. SessionAccount \in Person
  BY DEF Types, Client, SessionAccount
<1>2. client' \in Client
  BY <1>1 DEF Types, Client, Person, Answers200, AnswersNothing
<1> QED BY <1>1, <1>2

\* A thread that goes on stays what it is.
LEMMA AskingTypes ==
  ASSUME NEW v \in Asking, NEW place \in Begun \cup {"audit"} \cup Evident
  PROVE  /\ [v EXCEPT !.at = place] \in Asking
         /\ [v EXCEPT !.changed = TRUE] \in Asking
         /\ \A n \in Nat : /\ [v EXCEPT !.epoch = n, !.at = place] \in Asking
                           /\ [v EXCEPT !.pairing = n, !.at = place] \in Asking
         /\ \A a \in Person : /\ [v EXCEPT !.actor = a, !.at = place] \in Asking
                              /\ \A n \in Nat : [v EXCEPT !.account = a, !.revision = n, !.at = place] \in Asking
BY DEF Asking

\* A person's command goes on with what it was given, and may end under a
\* verification.
LEMMA CommandTypes ==
  ASSUME Types
  PROVE  /\ \A place \in {"disable", "drop", "ask"} :
              Next_(place) /\ commanding \in Signing => commanding' \in Signing
         /\ \A place \in {"bound", "unpaired"} :
              Next_(place) /\ commanding \in Pairing => commanding' \in Pairing
         /\ Next_("revert") /\ commanding \in Saving => commanding' \in Saving
         /\ \A what : Returned(what) => /\ verifying' \in Asking \cup {NotVerifying}
                                        /\ commanding' = NotCommanding
         /\ \A place : Next_(place) => UNCHANGED verifying
<1>1. \A what : Returned(what) => verifying' \in Asking \cup {NotVerifying}
  <2> SUFFICES ASSUME NEW what, Returned(what) PROVE verifying' \in Asking \cup {NotVerifying}
    OBVIOUS
  <2>1. verifying = NotVerifying => UNCHANGED verifying
    BY DEF Returned, NotVerifying
  <2>2. verifying \in Asking => [verifying EXCEPT !.changed = TRUE] \in Asking
    BY DEF Asking
  <2> QED BY <2>1, <2>2 DEF Returned, Types
<1> QED BY <1>1 DEF Next_, Returned, Signing, Pairing, Saving

\* Which kind of command is at a place.
LEMMA CommandPlaces ==
  ASSUME Types
  PROVE  /\ commanding.at \in {"clear", "disable", "drop", "ask"} => commanding \in Signing
         /\ commanding.at \in {"bind", "bound", "unpaired"} => commanding \in Pairing
         /\ commanding.at \in {"save", "revert"} => commanding \in Saving
         /\ verifying.at # "idle" => verifying \in Asking
BY DEF Types, Signing, Pairing, Saving, NotCommanding, NotVerifying

\* A verification looks things up.
LEMMA VerifyingTypes ==
  ASSUME Types, Attributed,
         Authorize \/ LoadEpoch \/ Scope \/ ReadMetadata \/ AskAudit \/ ForgetStale
           \/ HashLocal \/ ReadAgain \/ CompareEpoch \/ CompareSettings
  PROVE  Types'
<1> USE DEF cloudVars, connectionVars, historyVars, threadVars, boundVars
<1>1. CASE Authorize
  <2>1. 0 \in Nat /\ NoAccount \in Person /\ "epoch" \in Begun \cup {"audit"} \cup Evident
    BY DEF Person, Begun
  <2>2. saved \in Saved /\ signedOut \in BOOLEAN /\ guarded \in BOOLEAN
    BY DEF Types
  <2>3. verifying' \in Asking
    BY <1>1, <2>1, <2>2, Zenon DEF Authorize, Asking
  <2> QED BY <1>1, <2>3 DEF Authorize, Types
<1>2. CASE LoadEpoch \/ Scope \/ HashLocal \/ CompareEpoch \/ CompareSettings
  <2>1. verifying \in Asking
    BY <1>2, CommandPlaces DEF LoadEpoch, Scope, HashLocal, CompareEpoch, CompareSettings
  <2>2. generation \in Nat /\ config.pairing \in Nat
    BY DEF Types, Config
  <2>3. \A place \in {"scope", "first", "again", "settings"} : place \in Begun \cup {"audit"} \cup Evident
    BY DEF Begun, Evident
  <2>4. verifying' \in Asking \cup {NotVerifying}
    <3>1. CASE LoadEpoch
      BY <2>1, <2>2, <2>3, <3>1, AskingTypes DEF LoadEpoch
    <3>2. CASE Scope
      <4>1. [verifying EXCEPT !.pairing = config.pairing, !.at = "first"] \in Asking
        BY <2>1, <2>2, <2>3, AskingTypes
      <4> QED BY <3>2, <4>1 DEF Scope, Held
    <3>3. CASE HashLocal \/ CompareEpoch
      BY <2>1, <2>3, <3>3, AskingTypes DEF HashLocal, CompareEpoch, Held, Proceeds
    <3>4. CASE CompareSettings
      BY <3>4 DEF CompareSettings, Held
    <3> QED BY <1>2, <3>1, <3>2, <3>3, <3>4
  <2>5. UNCHANGED <<uploads, saved, config, disk, generation, commands, client, credential,
                    evidence, commanding, signedOut, guarded>>
    BY <1>2 DEF LoadEpoch, Scope, HashLocal, CompareEpoch, CompareSettings
  <2> QED BY <2>4, <2>5 DEF Types
<1>3. CASE ReadMetadata \/ ReadAgain
  <2>1. verifying \in Asking /\ SessionAccount \in Person /\ Current \in Nat
    BY <1>3, CommandPlaces, ClientTypes DEF ReadMetadata, ReadAgain, Types, Current
  <2>2. client' \in Client
    BY <1>3, ClientTypes DEF ReadMetadata, ReadAgain
  <2>3. "audit" \in Begun \cup {"audit"} \cup Evident /\ "compare" \in Begun \cup {"audit"} \cup Evident
    BY DEF Evident
  <2>4. verifying' \in Asking \cup {NotVerifying}
    <3>1. [verifying EXCEPT !.account = SessionAccount, !.revision = Current, !.at = "audit"] \in Asking
      BY <2>1, <2>3, AskingTypes
    <3>2. [verifying EXCEPT !.at = "compare"] \in Asking
      BY <2>1, <2>3, AskingTypes
    <3> QED BY <1>3, <3>1, <3>2 DEF ReadMetadata, ReadAgain, Held, Proceeds
  <2>5. UNCHANGED <<uploads, saved, config, disk, generation, commands, credential, evidence, commanding,
                    signedOut, guarded>>
    BY <1>3 DEF ReadMetadata, ReadAgain
  <2> QED BY <2>2, <2>4, <2>5 DEF Types
<1>4. CASE AskAudit \/ ForgetStale
  <2>1. verifying \in Asking /\ verifying.revision \in Nat
    BY <1>4, CommandPlaces DEF AskAudit, ForgetStale, Asking
  <2>2. CASE ForgetStale
    <3>1. evidence' \in Evidence
      BY <2>2 DEF ForgetStale, Types, Evidence
    <3> QED BY <2>2, <3>1 DEF ForgetStale, Types
  <2>3. CASE AskAudit
    <3> DEFINE revision == verifying.revision
               actor == uploads[revision].by
               found == [key |-> revision, actor |-> actor]
    <3>1. actor \in Person
      <4>1. revision \in 1..Len(uploads)
        BY <2>3 DEF AskAudit, Attributed, Current
      <4>2. uploads[revision] \in Revision
        BY <4>1, ElementOfSeq DEF Types
      <4> QED BY <4>2 DEF Revision, Person
    <3>2. \A a \in Person : [verifying EXCEPT !.actor = a, !.at = "hash"] \in Asking
      BY <2>1, AskingTypes DEF Evident
    <3>3. \A a \in Person : Established(a) => verifying' \in Asking \cup {NotVerifying}
      BY <3>2 DEF Established, Held
    <3>4. \A accepted \in evidence.accepted : accepted.actor \in Person
      BY DEF Types, Evidence
    <3>5. verifying' \in Asking \cup {NotVerifying}
      BY <2>3, <3>1, <3>3, <3>4 DEF AskAudit, Held
    <3>6. found \in [key : Nat, actor : Person]
      BY <2>1, <3>1
    <3>7. /\ [evidence EXCEPT !.searches = @ \cup {revision}] \in Evidence
          /\ [evidence EXCEPT !.searches = @ \ {revision}] \in Evidence
          /\ [searches |-> evidence.searches \ {revision}, accepted |-> evidence.accepted \cup {found}] \in Evidence
      BY <2>1, <3>6 DEF Types, Evidence
    <3>8. evidence' \in Evidence
      BY <2>3, <3>7 DEF AskAudit, Types, Key
    <3>9. client' \in Client
      BY <2>3, ClientTypes DEF AskAudit, Types
    <3>10. UNCHANGED <<uploads, saved, config, disk, generation, commands, credential, commanding,
                       signedOut, guarded>>
      BY <2>3 DEF AskAudit
    <3> QED BY <3>5, <3>8, <3>9, <3>10 DEF Types
  <2> QED BY <1>4, <2>2, <2>3
<1> QED BY <1>1, <1>2, <1>3, <1>4

\* A person signs in, disconnects and pairs; a poll is answered.
LEMMA ConnectingTypes ==
  ASSUME Types, BeginCommand \/ ClearEvidence \/ Disable \/ Drop \/ AskForCode
                  \/ StartPoll \/ PollToken \/ Enable
                  \/ StartBind \/ Bind \/ Bound \/ ClearForPairing
  PROVE  Types'
<1> USE DEF cloudVars, connectionVars, historyVars, threadVars, boundVars
<1>1. CASE BeginCommand \/ StartBind
  <2>1. commanding' \in Signing \cup Pairing
    <3>1. \A what \in {"begin", "disconnect"} : [at |-> "clear", what |-> what] \in Signing
      BY DEF Signing
    <3>2. \A n \in Nat : \A settings \in Saved :
             [at |-> "bind", what |-> "bind", epoch |-> n, settings |-> settings] \in Pairing
      BY DEF Pairing
    <3>3. CASE BeginCommand
      BY <3>1, <3>3, Zenon DEF BeginCommand
    <3>4. CASE StartBind
      BY <3>2, <3>4 DEF StartBind, Types
    <3> QED BY <1>1, <3>3, <3>4
  <2>2. /\ generation' \in Nat /\ commands' \in Nat /\ signedOut' \in BOOLEAN
        /\ UNCHANGED <<uploads, saved, config, disk, client, credential, evidence, verifying, guarded>>
    <3>1. CASE BeginCommand
      <4>1. \E what \in {"begin", "disconnect"} : signedOut' = IF what = "begin" THEN FALSE ELSE signedOut
        BY <3>1, Zenon DEF BeginCommand
      <4>2. signedOut' = FALSE \/ signedOut' = signedOut
        BY <4>1, Zenon
      <4>3. signedOut' \in BOOLEAN
        <5>1. signedOut \in BOOLEAN /\ FALSE \in BOOLEAN
          BY DEF Types
        <5> QED BY <4>2, <5>1, Zenon
      <4>4. generation' \in Nat /\ commands' \in Nat
        BY <3>1 DEF BeginCommand, Types
      <4>5. UNCHANGED <<uploads, saved, config, disk, client, credential, evidence, verifying, guarded>>
        BY <3>1 DEF BeginCommand
      <4> QED BY <4>3, <4>4, <4>5
    <3>2. CASE StartBind
      BY <3>2 DEF StartBind, Types
    <3> QED BY <1>1, <3>1, <3>2
  <2> QED BY <2>1, <2>2 DEF Types
<1>2. CASE ClearEvidence \/ ClearForPairing
  <2>1. evidence' \in Evidence
    BY <1>2 DEF ClearEvidence, ClearForPairing, Evidence
  <2>2. /\ commanding' \in Signing \cup {NotCommanding}
        /\ verifying' \in Asking \cup {NotVerifying}
    BY <1>2, CommandTypes, CommandPlaces DEF ClearEvidence, ClearForPairing, Types
  <2> QED BY <1>2, <2>1, <2>2 DEF ClearEvidence, ClearForPairing, Types
<1>3. CASE Disable \/ Enable
  <2>1. /\ [config EXCEPT !.enabled = FALSE] \in Config
        /\ [config EXCEPT !.enabled = TRUE] \in Config
    BY DEF Types, Config
  <2>2. config' \in Config /\ disk' \in Config
    BY <1>3, <2>1, WrittenConfig DEF Disable, Enable, save, Types
  <2>3. /\ commanding' \in Signing \cup {NotCommanding} \cup {commanding}
        /\ verifying' \in Asking \cup {NotVerifying}
    BY <1>3, CommandTypes, CommandPlaces DEF Disable, Enable, Types
  <2> QED BY <1>3, <2>2, <2>3 DEF Disable, Enable, Types
<1>4. CASE Drop \/ AskForCode
  <2>1. client' \in Client /\ credential' \in Person
    <3>1. \A given \in BOOLEAN : [account |-> NoAccount, pending |-> given, refresh |-> FALSE] \in Client
      BY DEF Client, Person
    <3>2. NoAccount \in Person
      BY DEF Person
    <3>3. CASE Drop
      BY <3>1, <3>2, <3>3 DEF Drop, DropSession, Types
    <3>4. CASE AskForCode
      BY <3>1, <3>4 DEF AskForCode, Types
    <3> QED BY <1>4, <3>3, <3>4
  <2>2. /\ commanding' \in Signing \cup {NotCommanding}
        /\ verifying' \in Asking \cup {NotVerifying}
    BY <1>4, CommandTypes, CommandPlaces DEF Drop, AskForCode, Types
  <2>3. signedOut' \in BOOLEAN
    BY <1>4 DEF Drop, AskForCode, Types
  <2> QED BY <1>4, <2>1, <2>2, <2>3 DEF Drop, AskForCode, Types
<1>5. CASE StartPoll \/ PollToken
  <2>1. client' \in Client /\ credential' \in Person
    <3>1. \A account \in Account : /\ account \in Person
                                  /\ [account |-> account, pending |-> FALSE, refresh |-> TRUE] \in Client
      BY DEF Client, Person, Uploader
    <3>2. [client EXCEPT !.pending = FALSE] \in Client
      BY DEF Types, Client
    <3>3. CASE StartPoll
      BY <3>3 DEF StartPoll, Types
    <3>4. CASE PollToken
      BY <3>1, <3>2, <3>4 DEF PollToken, Types
    <3> QED BY <1>5, <3>3, <3>4
  <2> QED BY <1>5, <2>1 DEF StartPoll, PollToken, Types
<1>6. CASE Bind
  <2>1. client' \in Client
    BY <1>6, ClientTypes DEF Bind
  <2>2. [config EXCEPT !.pairing = commands, !.protected = TRUE] \in Config
    BY DEF Types, Config
  <2>3. config' \in Config /\ disk' \in Config
    BY <1>6, <2>2, WrittenConfig DEF Bind, save, Types
  <2>4. /\ commanding' \in Pairing \cup {NotCommanding}
        /\ verifying' \in Asking \cup {NotVerifying}
    BY <1>6, CommandTypes, CommandPlaces DEF Bind, Types
  <2> QED BY <1>6, <2>1, <2>3, <2>4 DEF Bind, Types
<1>7. CASE Bound
  BY <1>7, CommandTypes, CommandPlaces DEF Bound, Types
<1> QED BY <1>1, <1>2, <1>3, <1>4, <1>5, <1>6, <1>7

\* The file is replaced, the settings are saved, the program is restarted.
LEMMA OtherTypes ==
  ASSUME Types, ReplaceUpload \/ SyncDown \/ ProtectSettings \/ StoreSettings \/ RevertSettings
                  \/ RestartProgram
  PROVE  Types'
<1> USE DEF cloudVars, connectionVars, historyVars, threadVars, boundVars
<1>1. CASE ReplaceUpload \/ SyncDown
  <2>1. ASSUME NEW upload \in Upload, uploads' = Append(uploads, upload)
        PROVE  uploads' \in Seq(Revision) /\ uploads' # <<>>
    <3>1. upload \in Revision
      BY DEF Upload, Revision, Uploader
    <3> QED BY <2>1, <3>1, AppendProperties DEF Types
  <2>2. uploads' \in Seq(Revision) /\ uploads' # <<>>
    BY <1>1, <2>1 DEF ReplaceUpload, SyncDown, Types
  <2> QED BY <1>1, <2>2 DEF ReplaceUpload, SyncDown, Types
<1>2. CASE ProtectSettings
  <2>1. [config EXCEPT !.protected = TRUE] \in Config
    BY DEF Types, Config
  <2>2. config' \in Config /\ disk' \in Config
    BY <1>2, <2>1, WrittenConfig DEF ProtectSettings, RememberRoot, save, Types
  <2>3. commanding' \in Saving \cup {commanding}
    BY <1>2 DEF ProtectSettings, Saving, Settings, Saved, Types
  <2> QED BY <1>2, <2>2, <2>3 DEF ProtectSettings, Types
<1>3. CASE StoreSettings \/ RevertSettings
  <2>1. commanding \in Saving
    BY <1>3, CommandPlaces DEF StoreSettings, RevertSettings
  <2>2. saved' \in Saved
    BY <1>3, <2>1 DEF StoreSettings, RevertSettings, Saving, Types
  <2>3. /\ commanding' \in Saving \cup {NotCommanding}
        /\ verifying' \in Asking \cup {NotVerifying}
    BY <1>3, <2>1, CommandTypes DEF StoreSettings, RevertSettings, Types
  <2>4. guarded' \in BOOLEAN
    BY <1>3, <2>1 DEF StoreSettings, RevertSettings, Types
  <2> QED BY <1>3, <2>2, <2>3, <2>4 DEF StoreSettings, RevertSettings, Types
<1>4. CASE RestartProgram
  <2>1. client' \in Client /\ evidence' \in Evidence
    BY <1>4 DEF RestartProgram, Client, Person, Evidence
  <2>2. DefaultConfig \in Config
    BY DEF DefaultConfig, Config
  <2> QED BY <1>4, <2>1, <2>2 DEF RestartProgram, Types
<1> QED BY <1>1, <1>2, <1>3, <1>4

\* Every step keeps the types.
LEMMA NextTypes ==
  ASSUME Types, Attributed, AdmissionNext
  PROVE  Types'
BY VerifyingTypes, ConnectingTypes, OtherTypes DEF AdmissionNext

-----------------------------------------------------------------------------
(* What every step keeps *)

\* The steps of authorize, and those beside it.
Verification ==
  Authorize \/ LoadEpoch \/ Scope \/ ReadMetadata \/ AskAudit \/ ForgetStale \/ HashLocal
    \/ ReadAgain \/ CompareEpoch \/ CompareSettings
Beside ==
  \/ BeginCommand \/ ClearEvidence \/ Disable \/ Drop \/ AskForCode
  \/ StartPoll \/ PollToken \/ Enable \/ StartBind \/ Bind \/ Bound \/ ClearForPairing
  \/ ReplaceUpload \/ SyncDown \/ ProtectSettings \/ StoreSettings \/ RevertSettings

\* Whatever happens beside a verification leaves it its question, its
\* answers and its place.
LEMMA BesideKeeps ==
  ASSUME Types, Beside
  PROVE  /\ verifying'.at = verifying.at
         /\ verifying.at # "idle" =>
              /\ verifying'.revision = verifying.revision /\ verifying'.actor = verifying.actor
              /\ verifying'.account = verifying.account /\ verifying'.settings = verifying.settings
              /\ verifying'.epoch = verifying.epoch /\ verifying'.pairing = verifying.pairing
              /\ verifying'.signedOut = verifying.signedOut /\ verifying'.guarded = verifying.guarded
         /\ verifying' = verifying \/ \E what : Returned(what)
         /\ verdict' = verdict
<1> USE DEF cloudVars, connectionVars, historyVars, threadVars, boundVars
<1>1. verifying' = verifying \/ \E what : Returned(what)
  BY DEF Beside, BeginCommand, ClearEvidence, Disable, Drop, AskForCode, StartPoll, PollToken, Enable,
     StartBind, Bind, Bound, ClearForPairing, ReplaceUpload, SyncDown, ProtectSettings, StoreSettings,
     RevertSettings, Next_
<1>2. verdict' = verdict
  BY DEF Beside, BeginCommand, ClearEvidence, Disable, Drop, AskForCode, StartPoll, PollToken, Enable,
     StartBind, Bind, Bound, ClearForPairing, ReplaceUpload, SyncDown, ProtectSettings, StoreSettings,
     RevertSettings
<1>3. ASSUME NEW what, Returned(what), verifying' # verifying
      PROVE  verifying \in Asking /\ verifying' = [verifying EXCEPT !.changed = TRUE]
  BY <1>3, CommandPlaces DEF Returned
<1> QED BY <1>1, <1>2, <1>3 DEF Asking

\* Nobody comes online while offline but by a sign-in or a restart.
LEMMA ClientKept ==
  ASSUME Types, AdmissionNext, Offline, ~ AskForCode, ~ RestartProgram
  PROVE  Offline' /\ ~ Answers200
<1> USE DEF cloudVars, connectionVars, historyVars, threadVars, boundVars
<1>1. ~ Answers200
  BY DEF Answers200, Connected, Offline
<1>2. ~ PollToken \/ client' \in {client, [client EXCEPT !.pending = FALSE]}
  BY DEF PollToken, Offline
<1>3. \/ client' = client
      \/ client' = [client EXCEPT !.pending = FALSE]
      \/ AnswersNothing
      \/ DropSession
  BY <1>1, <1>2 DEF AdmissionNext,
        ReplaceUpload, SyncDown, Authorize, LoadEpoch, Scope, ReadMetadata, AskAudit, ForgetStale, HashLocal,
        ReadAgain, CompareEpoch, CompareSettings, BeginCommand, ClearEvidence, Disable, Drop,
        StartPoll, Enable, StartBind, Bind, Bound, ClearForPairing, ProtectSettings,
        StoreSettings, RevertSettings
<1> QED BY <1>1, <1>3 DEF AnswersNothing, DropSession, Offline, Types, Client

\* A verification that goes on takes the generation first, the pairing next,
\* and keeps what it knew when it began.
LEMMA VerificationKeeps ==
  ASSUME Types, Verification
  PROVE  \/ verifying'.at = "idle"
         \/ Authorize
         \/ /\ verifying'.signedOut = verifying.signedOut /\ verifying'.guarded = verifying.guarded
            /\ verifying'.changed = verifying.changed /\ verifying.at # "idle"
            /\ \/ /\ LoadEpoch /\ verifying'.at = "scope"
                  /\ verifying'.epoch = generation /\ verifying'.pairing = verifying.pairing
               \/ /\ Scope /\ verifying'.at = "first"
                  /\ verifying'.epoch = verifying.epoch /\ verifying'.pairing = config.pairing
               \/ /\ ~ LoadEpoch /\ ~ Scope
                  /\ verifying'.at \notin {"epoch", "scope", "first"}
                  /\ verifying'.epoch = verifying.epoch /\ verifying'.pairing = verifying.pairing
<1> USE DEF cloudVars, connectionVars, historyVars, threadVars, boundVars
<1>1. CASE verifying' = NotVerifying
  BY <1>1 DEF NotVerifying
<1>2. CASE Authorize
  BY <1>2
<1>3. CASE verifying' # NotVerifying /\ ~ Authorize
  <2>1. verifying \in Asking
    BY <1>3, CommandPlaces DEF Verification, LoadEpoch, Scope, ReadMetadata, AskAudit, ForgetStale,
       HashLocal, ReadAgain, CompareEpoch, CompareSettings
  <2> DEFINE Kept(v) == /\ v.signedOut = verifying.signedOut /\ v.guarded = verifying.guarded
                        /\ v.changed = verifying.changed
             SameTime(v) == v.epoch = verifying.epoch /\ v.pairing = verifying.pairing
  <2>2. CASE LoadEpoch
    BY <1>3, <2>1, <2>2 DEF LoadEpoch, Asking
  <2>3. CASE Scope
    <3>1. verifying' = [verifying EXCEPT !.pairing = config.pairing, !.at = "first"]
      BY <1>3, <2>3 DEF Scope, Held
    <3> QED BY <2>1, <2>3, <3>1 DEF Scope, Asking
  <2>4. CASE ~ LoadEpoch /\ ~ Scope
    <3>1. verifying'.at \notin {"epoch", "scope", "first"} /\ verifying.at # "idle" /\ Kept(verifying') /\ SameTime(verifying')
      <4>1. CASE ReadMetadata \/ ReadAgain
        BY <1>3, <2>1, <4>1 DEF ReadMetadata, ReadAgain, Held, Proceeds, Asking
      <4>2. CASE AskAudit
        <5>1. \/ UNCHANGED verifying \/ verifying' = NotVerifying
              \/ \E actor : verifying' = [verifying EXCEPT !.actor = actor, !.at = "hash"]
          BY <4>2, Zenon DEF AskAudit, Established, Held
        <5>2. verifying.at = "audit"
          BY <4>2 DEF AskAudit
        <5> QED BY <1>3, <2>1, <5>1, <5>2 DEF Asking
      <4>5. CASE ForgetStale
        BY <1>3, <2>1, <4>5 DEF ForgetStale, Established, Held, Asking
      <4>3. CASE HashLocal \/ CompareEpoch \/ CompareSettings
        BY <1>3, <2>1, <4>3 DEF HashLocal, CompareEpoch, CompareSettings, Held, Proceeds, Asking
      <4>4. \/ ReadMetadata \/ AskAudit \/ ForgetStale \/ HashLocal \/ ReadAgain
            \/ CompareEpoch \/ CompareSettings
        BY <1>3, <2>4, Zenon DEF Verification
      <4> QED BY <4>1, <4>2, <4>3, <4>4, <4>5, Zenon
    <3> HIDE DEF cloudVars, connectionVars, historyVars, threadVars, boundVars
    <3> QED BY <2>4, <3>1
  <2> QED BY <2>2, <2>3, <2>4
<1> QED BY <1>1, <1>2, <1>3

\* A command goes from place to place, and no other step moves it.
LEMMA CommandMoves ==
  ASSUME Types, AdmissionNext, ~ BeginCommand, ~ StartBind, ~ ProtectSettings
  PROVE  \/ commanding' = commanding
         \/ commanding' = NotCommanding
         \/ /\ commanding.at = "clear" /\ commanding'.at = "disable"
            /\ commanding'.what = commanding.what /\ ClearEvidence
         \/ /\ commanding.at = "disable" /\ commanding'.at = "drop"
            /\ commanding'.what = commanding.what
         \/ /\ commanding.at = "drop" /\ commanding'.at = "ask"
            /\ commanding.what = "begin" /\ commanding'.what = "begin"
         \/ commanding.at = "bind" /\ commanding'.at = "bound"
         \/ commanding.at = "bound" /\ commanding'.at = "unpaired"
         \/ commanding.at = "save" /\ commanding'.at = "revert"
<1> USE DEF cloudVars, connectionVars, historyVars, threadVars, boundVars
<1>1. CASE ClearEvidence \/ Disable \/ Drop
  <2>1. commanding \in Signing
    BY <1>1, CommandPlaces DEF ClearEvidence, Disable, Drop
  <2> QED BY <1>1, <2>1 DEF ClearEvidence, Disable, Drop, Next_, Returned, Signing
<1>2. CASE Bind \/ Bound
  <2>1. commanding \in Pairing
    BY <1>2, CommandPlaces DEF Bind, Bound
  <2> QED BY <1>2, <2>1 DEF Bind, Bound, Next_, Returned, Pairing
<1>3. CASE StoreSettings
  <2>1. commanding \in Saving
    BY <1>3, CommandPlaces DEF StoreSettings
  <2> QED BY <1>3, <2>1 DEF StoreSettings, Next_, Returned, Saving
<1>4. CASE AskForCode \/ ClearForPairing \/ RevertSettings \/ RestartProgram
  BY <1>4 DEF AskForCode, ClearForPairing, RevertSettings, RestartProgram, Returned
<1>5. CASE Verification \/ ReplaceUpload \/ SyncDown \/ StartPoll \/ PollToken \/ Enable
  BY <1>5 DEF Verification, Authorize, LoadEpoch, Scope, ReadMetadata, AskAudit, ForgetStale, HashLocal,
     ReadAgain, CompareEpoch, CompareSettings, ReplaceUpload, SyncDown, StartPoll, PollToken, Enable
<1> QED BY <1>1, <1>2, <1>3, <1>4, <1>5 DEF AdmissionNext, Verification

\* Nothing but an answered audit adds to what was accepted.
LEMMA EvidenceKept ==
  ASSUME Types, AdmissionNext, ~ AskAudit
  PROVE  \/ evidence' = evidence
         \/ evidence' = [searches |-> {}, accepted |-> {}]
         \/ ForgetStale
BY DEF AdmissionNext, cloudVars, connectionVars, historyVars, threadVars, boundVars,
   ReplaceUpload, SyncDown, Authorize, LoadEpoch, Scope, ReadMetadata, HashLocal, ReadAgain,
   CompareEpoch, CompareSettings, BeginCommand, ClearEvidence, Disable, Drop, AskForCode, StartPoll,
   PollToken, Enable, StartBind, Bind, Bound, ClearForPairing, ProtectSettings, StoreSettings,
   RevertSettings, RestartProgram

\* Who uploaded what.
LEMMA NextAttributed ==
  ASSUME Types, Attributed, AdmissionNext
  PROVE  Attributed'
<1> USE DEF cloudVars, connectionVars, historyVars, threadVars, boundVars
<1>1. CASE AskAudit
  <2> DEFINE revision == verifying.revision
             actor == uploads[revision].by
  <2>1. /\ verifying \in Asking /\ revision \in 1..Current /\ uploads[revision].fresh /\ verifying.at = "audit"
        /\ uploads' = uploads
    BY <1>1, CommandPlaces DEF AskAudit, Attributed
  <2>2. ASSUME NEW accepted \in evidence'.accepted
        PROVE  accepted.key \in 1..Current /\ accepted.actor = uploads[accepted.key].by
    <3>1. accepted \in evidence.accepted \/ accepted = [key |-> revision, actor |-> actor]
      BY <1>1, <2>2 DEF AskAudit, Key, Types, Evidence
    <3> QED BY <2>1, <3>1 DEF Attributed
  <2>3. verifying' = NotVerifying \/ Established(actor)
    <3>1. \A accepted \in evidence.accepted : accepted.key = revision => accepted.actor = actor
      BY DEF Attributed
    <3> QED BY <1>1, <3>1 DEF AskAudit, Key, Held
  <2>4. ASSUME Established(actor), verifying' # NotVerifying
        PROVE  /\ verifying'.revision = revision /\ verifying'.actor = actor
               /\ verifying'.account = verifying.account /\ verifying'.settings = verifying.settings
               /\ actor = verifying.account \/ verifying.settings.others
    BY <2>1, <2>4 DEF Established, Held, Asking
  <2>5. verifying' = NotVerifying => verifying'.at = "idle"
    BY DEF NotVerifying
  <2> QED BY <2>1, <2>2, <2>3, <2>4, <2>5 DEF Attributed, Current, Evident
<1>2. CASE ReplaceUpload
  <2>1. PICK upload \in Upload : uploads' = Append(uploads, upload)
    BY <1>2 DEF ReplaceUpload
  <2>2. upload \in Revision
    BY DEF Upload, Revision, Uploader
  <2>3. /\ Len(uploads') = Len(uploads) + 1 /\ Len(uploads) \in Nat
        /\ \A n \in 1..Len(uploads) : uploads'[n] = uploads[n]
    BY <2>1, <2>2, AppendProperties, LenProperties DEF Types
  <2> QED BY <1>2, <2>3 DEF ReplaceUpload, Attributed, Current
<1>3. CASE ~ AskAudit /\ ~ ReplaceUpload
  <2>1. uploads' = uploads
    BY <1>3 DEF AdmissionNext, SyncDown, Authorize, LoadEpoch, Scope, ReadMetadata, ForgetStale,
       HashLocal, ReadAgain, CompareEpoch, CompareSettings, BeginCommand, ClearEvidence, Disable, Drop,
       AskForCode, StartPoll, PollToken, Enable, StartBind, Bind, Bound, ClearForPairing,
       ProtectSettings, StoreSettings, RevertSettings, RestartProgram
  <2>2. \A accepted \in evidence'.accepted : accepted \in evidence.accepted
    <3>1. CASE ForgetStale
      BY <3>1 DEF ForgetStale, Types, Evidence
    <3>2. CASE evidence' = evidence \/ evidence' = [searches |-> {}, accepted |-> {}]
      BY <3>2
    <3> QED BY <1>3, <3>1, <3>2, EvidenceKept
  <2>3. \/ verifying'.at \in {"idle"} \cup Begun
        \/ /\ verifying.at = "first" /\ verifying'.at = "audit"
           /\ verifying'.revision = Current /\ uploads[Current].fresh
        \/ /\ verifying'.at \in Evident => verifying.at \in Evident
           /\ verifying'.at = "audit" => verifying.at = "audit"
           /\ verifying'.revision = verifying.revision /\ verifying'.actor = verifying.actor
           /\ verifying'.account = verifying.account /\ verifying'.settings = verifying.settings
    <3>1. CASE Beside
      BY <3>1, BesideKeeps, CommandPlaces DEF Asking
    <3>2. CASE RestartProgram \/ verifying' = NotVerifying
      BY <3>2 DEF RestartProgram, NotVerifying
    <3>3. CASE Authorize
      BY <3>3 DEF Authorize, Begun
    <3>4. CASE LoadEpoch \/ Scope \/ ForgetStale \/ HashLocal \/ CompareEpoch \/ CompareSettings
      <4>1. verifying \in Asking
        BY <3>4, CommandPlaces DEF LoadEpoch, Scope, ForgetStale, HashLocal, CompareEpoch, CompareSettings
      <4> QED BY <3>2, <3>4, <4>1 DEF LoadEpoch, Scope, ForgetStale, HashLocal, CompareEpoch,
              CompareSettings, Held, Proceeds, Asking, Begun, Evident
    <3>5. CASE ReadMetadata \/ ReadAgain
      <4>1. verifying \in Asking
        BY <3>5, CommandPlaces DEF ReadMetadata, ReadAgain
      <4> QED BY <3>2, <3>5, <4>1 DEF ReadMetadata, ReadAgain, Candidate, Held, Proceeds, Asking, Evident
    <3> QED BY <1>3, <3>1, <3>2, <3>3, <3>4, <3>5 DEF AdmissionNext, Beside
  <2>4. Current \in 1..Current
    BY LenProperties, EmptySeq DEF Types, Current
  <2> QED BY <2>1, <2>2, <2>3, <2>4 DEF Attributed, Current, Evident, Begun
<1> QED BY <1>1, <1>2, <1>3

\* The configuration while the program runs: what it protects stays, what was
\* not read does not become so, and only a pairing pairs.
LEMMA ConfigMoves ==
  ASSUME Types, AdmissionNext, ~ RestartProgram
  PROVE  /\ (UNCHANGED disk /\ config'.protected = config.protected) \/ disk' = config'
         /\ config.protected => config'.protected
         /\ config'.file = "read" => config.file = "read"
         /\ config'.pairing = config.pairing \/ Bind
<1> USE DEF cloudVars, connectionVars, historyVars, threadVars, boundVars
<1>1. CASE Disable \/ Enable
  <2>1. PICK enabled \in BOOLEAN :
          LET next == [config EXCEPT !.enabled = enabled] IN
          UNCHANGED <<config, disk>> \/ save(next) \/ (config' = next /\ UNCHANGED disk)
    BY <1>1 DEF Disable, Enable
  <2>2. /\ [config EXCEPT !.enabled = enabled] \in Config
        /\ [config EXCEPT !.enabled = enabled].protected = config.protected
        /\ [config EXCEPT !.enabled = enabled].pairing = config.pairing
        /\ [config EXCEPT !.enabled = enabled].file = config.file
    BY DEF Types, Config
  <2> QED BY <2>1, <2>2, WrittenConfig DEF save
<1>2. CASE Bind
  <2>1. /\ [config EXCEPT !.pairing = commands, !.protected = TRUE] \in Config
        /\ [config EXCEPT !.pairing = commands, !.protected = TRUE].protected
        /\ [config EXCEPT !.pairing = commands, !.protected = TRUE].file = config.file
    BY DEF Types, Config
  <2> QED BY <1>2, <2>1, WrittenConfig DEF Bind, save
<1>3. CASE ProtectSettings
  <2>1. /\ [config EXCEPT !.protected = TRUE] \in Config
        /\ [config EXCEPT !.protected = TRUE].protected
        /\ [config EXCEPT !.protected = TRUE].pairing = config.pairing
        /\ [config EXCEPT !.protected = TRUE].file = config.file
    BY DEF Types, Config
  <2> QED BY <1>3, <2>1, WrittenConfig DEF ProtectSettings, RememberRoot, save
<1>4. CASE ~ Disable /\ ~ Enable /\ ~ Bind /\ ~ ProtectSettings
  <2>1. UNCHANGED <<config, disk>>
    BY <1>4 DEF AdmissionNext,
      ReplaceUpload, SyncDown, Authorize, LoadEpoch, Scope, ReadMetadata, AskAudit, ForgetStale, HashLocal,
      ReadAgain, CompareEpoch, CompareSettings, BeginCommand, ClearEvidence, Drop, AskForCode,
      StartPoll, PollToken, StartBind, Bound, ClearForPairing, StoreSettings, RevertSettings
  <2> QED BY <2>1
<1> QED BY <1>1, <1>2, <1>3, <1>4

\* A guarded folder stays protected, by whatever could be read.
LEMMA NextRemembered ==
  ASSUME Types, Remembered, AdmissionNext
  PROVE  Remembered'
<1> USE DEF cloudVars, connectionVars, historyVars, threadVars, boundVars
<1>1. config'.protected => disk'.protected
  <2>1. CASE RestartProgram
    BY <2>1 DEF RestartProgram, DefaultConfig
  <2>2. CASE ~ RestartProgram
    BY <2>2, ConfigMoves DEF Remembered
  <2> QED BY <2>1, <2>2
<1>2. guarded' => \A remembered \in {config', disk'} :
                     remembered.protected \/ remembered.file # "read"
  <2> SUFFICES ASSUME guarded'
               PROVE  /\ config'.protected \/ config'.file # "read"
                      /\ disk'.protected \/ disk'.file # "read"
    OBVIOUS
  <2>1. CASE StoreSettings
    <3>1. UNCHANGED <<config, disk>>
      BY <2>1 DEF StoreSettings
    <3>2. CASE guarded
      BY <3>1, <3>2 DEF Remembered
    <3>3. CASE ~ guarded
      BY <2>1, <3>1, <3>3 DEF StoreSettings, Remembered
    <3> QED BY <3>2, <3>3
  <2>2. CASE ~ StoreSettings
    <3>1. guarded
      BY <2>2 DEF AdmissionNext,
        ReplaceUpload, SyncDown, Authorize, LoadEpoch, Scope, ReadMetadata, AskAudit, ForgetStale, HashLocal,
        ReadAgain, CompareEpoch, CompareSettings, BeginCommand, ClearEvidence, Disable, Drop, AskForCode,
        StartPoll, PollToken, Enable, StartBind, Bind, Bound, ClearForPairing, ProtectSettings,
        RevertSettings, RestartProgram
    <3>2. /\ config.protected \/ config.file # "read"
          /\ disk.protected \/ disk.file # "read"
      BY <3>1 DEF Remembered
    <3>3. CASE RestartProgram
      BY <3>2, <3>3 DEF RestartProgram, DefaultConfig
    <3>4. CASE ~ RestartProgram
      BY <3>2, <3>4, ConfigMoves
    <3> QED BY <3>3, <3>4
  <2> QED BY <2>1, <2>2
<1>3. commanding'.at = "save" /\ commanding'.settings.folder = "microsoft" => config'.protected
  <2>1. CASE ProtectSettings
    <3>1. SavedConfig([config EXCEPT !.protected = TRUE]).protected
      <4>1. /\ [config EXCEPT !.protected = TRUE] \in Config
            /\ [config EXCEPT !.protected = TRUE].protected
        BY DEF Types, Config
      <4> QED BY <4>1, WrittenConfig
    <3>2. CASE commanding' = commanding
      BY <2>1, <3>2 DEF ProtectSettings
    <3>3. CASE commanding' # commanding
      <4>1. PICK settings \in Settings :
              /\ commanding' = [at |-> "save", what |-> "save", settings |-> settings, previous |-> saved]
              /\ IF settings.folder = "microsoft" /\ ~ config.protected
                 THEN config' = SavedConfig([config EXCEPT !.protected = TRUE])
                 ELSE config' = config
        BY <2>1, <3>3 DEF ProtectSettings, RememberRoot, save
      <4>2. settings.folder = "microsoft" => config'.protected
        BY <3>1, <4>1
      <4> QED BY <4>1, <4>2
    <3> QED BY <3>2, <3>3
  <2>2. CASE ~ ProtectSettings
    <3>1. commanding' = commanding \/ commanding'.at # "save"
      <4>1. CASE BeginCommand
        <5>1. PICK what : commanding' = [at |-> "clear", what |-> what]
          BY <4>1, Zenon DEF BeginCommand
        <5> QED BY <5>1
      <4>2. CASE StartBind
        BY <4>2 DEF StartBind
      <4>3. CASE ~ BeginCommand /\ ~ StartBind
        BY <2>2, <4>3, CommandMoves DEF NotCommanding
      <4> QED BY <4>1, <4>2, <4>3
    <3>2. CASE RestartProgram
      BY <3>2 DEF RestartProgram, NotCommanding
    <3>3. CASE ~ RestartProgram
      BY <3>1, <3>3, ConfigMoves DEF Remembered
    <3> QED BY <3>2, <3>3
  <2> QED BY <2>1, <2>2
<1>4. verifying'.at # "idle" /\ verifying'.guarded => guarded'
  <2>1. CASE Verification
    <3>1. guarded' = guarded
      BY <2>1 DEF Verification, Authorize, LoadEpoch, Scope, ReadMetadata, AskAudit, ForgetStale, HashLocal,
        ReadAgain, CompareEpoch, CompareSettings
    <3>2. CASE Authorize
      BY <3>2 DEF Authorize
    <3> QED BY <2>1, <3>1, <3>2, VerificationKeeps DEF Remembered
  <2>2. CASE Beside
    <3>1. guarded => guarded'
      BY <2>2 DEF Beside,
        ReplaceUpload, SyncDown, BeginCommand, ClearEvidence, Disable, Drop, AskForCode,
        StartPoll, PollToken, Enable, StartBind, Bind, Bound, ClearForPairing, ProtectSettings,
        StoreSettings, RevertSettings
    <3> QED BY <2>2, <3>1, BesideKeeps DEF Remembered
  <2>3. CASE RestartProgram
    BY <2>3 DEF RestartProgram, NotVerifying
  <2> QED BY <2>1, <2>2, <2>3 DEF AdmissionNext, Verification, Beside
<1> QED BY <1>1, <1>2, <1>3, <1>4 DEF Remembered

\* Whoever disconnected stays offline until a sign-in begins.
LEMMA NextUnreachable ==
  ASSUME Types, Unreachable, AdmissionNext
  PROVE  Unreachable'
<1> USE DEF cloudVars, connectionVars, historyVars, threadVars, boundVars
<1>1. commanding'.at = "ask" => commanding'.what = "begin"
  <2>1. CASE BeginCommand \/ StartBind \/ ProtectSettings
    <3>1. commanding'.at \in {"clear", "bind", "save", "idle"}
      <4>1. CASE BeginCommand
        <5>1. PICK what : commanding' = [at |-> "clear", what |-> what]
          BY <4>1, Zenon DEF BeginCommand
        <5> QED BY <5>1
      <4>2. CASE StartBind
        BY <4>2 DEF StartBind
      <4>3. CASE ProtectSettings
        BY <4>3 DEF ProtectSettings
      <4> QED BY <2>1, <4>1, <4>2, <4>3
    <3> QED BY <3>1
  <2>2. CASE ~ BeginCommand /\ ~ StartBind /\ ~ ProtectSettings
    BY <2>2, CommandMoves DEF NotCommanding, Unreachable
  <2> QED BY <2>1, <2>2
<1>2. CASE Drop
  <2>1. /\ client' = [account |-> NoAccount, pending |-> FALSE, refresh |-> FALSE]
        /\ signedOut' = (signedOut \/ commanding.what = "disconnect")
        /\ commanding' = NotCommanding \/ (commanding.what = "begin" /\ Next_("ask"))
    BY <1>2 DEF Drop, DropSession, Returned
  <2>2. Offline'
    BY <2>1 DEF Offline
  <2>3. signedOut' => ~ SigningIn'
    <3>1. commanding.what = "begin" => ~ signedOut'
      BY <1>2, <2>1 DEF Drop, Unreachable, SigningIn
    <3>2. NotCommanding.at = "idle"
      BY DEF NotCommanding
    <3> QED BY <2>1, <3>1, <3>2 DEF SigningIn
  <2> QED BY <1>1, <2>2, <2>3 DEF Unreachable
<1>3. CASE BeginCommand
  <2>1. PICK what \in {"begin", "disconnect"} :
          /\ commanding' = [at |-> "clear", what |-> what]
          /\ signedOut' = IF what = "begin" THEN FALSE ELSE signedOut
    BY <1>3, Zenon DEF BeginCommand
  <2>2. client' = client
    BY <1>3 DEF BeginCommand
  <2>3. signedOut' => signedOut /\ what = "disconnect"
    BY <2>1, Zenon
  <2>4. signedOut' => ~ SigningIn'
    BY <2>1, <2>3 DEF SigningIn
  <2> QED BY <1>1, <2>2, <2>3, <2>4 DEF Unreachable, Offline
<1>4. CASE ~ Drop /\ ~ BeginCommand
  <2> SUFFICES ASSUME signedOut' PROVE Offline' /\ ~ SigningIn'
    BY <1>1 DEF Unreachable
  <2>1. signedOut
    BY <1>4 DEF AdmissionNext,
        ReplaceUpload, SyncDown, Authorize, LoadEpoch, Scope, ReadMetadata, AskAudit, ForgetStale, HashLocal,
        ReadAgain, CompareEpoch, CompareSettings, ClearEvidence, Disable, AskForCode,
        StartPoll, PollToken, Enable, StartBind, Bind, Bound, ClearForPairing, ProtectSettings,
        StoreSettings, RevertSettings, RestartProgram
  <2>2. Offline /\ ~ SigningIn
    BY <2>1 DEF Unreachable
  <2>3. ~ RestartProgram
    BY DEF RestartProgram
  <2>4. ~ AskForCode
    BY <2>2 DEF AskForCode, SigningIn, Unreachable
  <2>5. Offline'
    BY <1>4, <2>2, <2>3, <2>4, ClientKept
  <2>6. ~ SigningIn'
    <3>1. CASE StartBind \/ ProtectSettings
      <4>1. commanding'.at \in {"bind", "save", "idle"}
        <5>1. CASE StartBind
          BY <5>1 DEF StartBind
        <5>2. CASE ProtectSettings
          BY <5>2 DEF ProtectSettings
        <5> QED BY <3>1, <5>1, <5>2
      <4> QED BY <4>1 DEF SigningIn
    <3>2. CASE ~ StartBind /\ ~ ProtectSettings
      BY <1>4, <2>2, <3>2, CommandMoves DEF SigningIn, NotCommanding
    <3> QED BY <3>1, <3>2
  <2> QED BY <2>5, <2>6
<1> QED BY <1>2, <1>3, <1>4

\* The generation only grows while the program runs, and a pairing changes
\* only under a bind.
LEMMA SetupKept ==
  ASSUME Types, AdmissionNext, ~ RestartProgram
  PROVE  /\ generation' \in Nat /\ generation' >= generation
         /\ Bound => generation' > generation
         /\ config'.pairing = config.pairing \/ Bind
         /\ Bind /\ config'.pairing # config.pairing => commanding'.at = "bound"
<1> USE DEF cloudVars, connectionVars, historyVars, threadVars, boundVars
<1>1. generation' = generation \/ generation' = generation + 1
  BY DEF AdmissionNext,
        ReplaceUpload, SyncDown, Authorize, LoadEpoch, Scope, ReadMetadata, AskAudit, ForgetStale, HashLocal,
        ReadAgain, CompareEpoch, CompareSettings, BeginCommand, ClearEvidence, Disable, Drop, AskForCode,
        StartPoll, PollToken, Enable, StartBind, Bind, Bound, ClearForPairing, ProtectSettings,
        StoreSettings, RevertSettings
<1>2. Bound => generation' = generation + 1
  BY DEF Bound
<1>3. config'.pairing = config.pairing \/ Bind
  BY ConfigMoves
<1>4. Bind => UNCHANGED config \/ commanding'.at = "bound"
  <2> SUFFICES ASSUME Bind, Next_("bound") PROVE commanding'.at = "bound"
    BY DEF Bind
  <2>1. commanding \in Pairing
    BY CommandPlaces DEF Bind
  <2> QED BY <2>1 DEF Next_, Pairing
<1>5. generation' \in Nat /\ generation' >= generation /\ (Bound => generation' > generation)
  BY <1>1, <1>2 DEF Types
<1> QED BY <1>3, <1>4, <1>5

\* A verification asks about the pairing in force, or its time is over.
LEMMA NextPaired ==
  ASSUME Types, Paired, AdmissionNext
  PROVE  Paired'
<1> USE DEF cloudVars, connectionVars, historyVars, threadVars, boundVars
<1>1. CASE RestartProgram
  BY <1>1 DEF RestartProgram, NotVerifying, Paired
<1>2. CASE ~ RestartProgram
  <2>1. CASE Authorize
    <3>1. 0 <= generation
      BY DEF Types
    <3> QED BY <2>1, <3>1 DEF Authorize, Paired
  <2>2. CASE Verification /\ ~ Authorize
    <3>1. UNCHANGED <<config, generation, commanding>>
      BY <2>2 DEF Verification, LoadEpoch, Scope, ReadMetadata, AskAudit, ForgetStale, HashLocal,
        ReadAgain, CompareEpoch, CompareSettings
    <3>2. LoadEpoch => verifying.at = "epoch"
      BY DEF LoadEpoch
    <3>3. generation <= generation
      BY DEF Types
    <3> QED BY <2>2, <3>1, <3>2, <3>3, VerificationKeeps DEF Paired
  <2>3. CASE Beside
    <3> SUFFICES ASSUME verifying.at # "idle"
                 PROVE  /\ verifying.epoch <= generation'
                        /\ verifying.at \in {"epoch", "scope"} => verifying.pairing = 0
                        /\ verifying.pairing \notin {0, config'.pairing} =>
                             commanding'.at = "bound" \/ verifying.epoch < generation'
      BY <2>3, BesideKeeps DEF Paired
    <3>1. verifying.epoch \in Nat
      BY CommandPlaces DEF Asking
    <3>2. verifying.epoch < generation => verifying.epoch < generation'
      BY <1>2, <3>1, SetupKept DEF Types
    <3>3. verifying.epoch <= generation /\ verifying.epoch <= generation' /\ generation' \in Nat
      BY <1>2, <3>1, SetupKept DEF Paired, Types
    <3>4. CASE config'.pairing # config.pairing
      <4>1. commanding'.at = "bound"
        BY <1>2, <3>4, SetupKept
      <4> QED BY <3>3, <4>1 DEF Paired
    <3>5. CASE config'.pairing = config.pairing /\ commanding.at = "bound" /\ commanding'.at # "bound"
      <4>1. Bound
        BY <2>3, <3>5 DEF Beside,
          ReplaceUpload, SyncDown, BeginCommand, ClearEvidence, Disable, Drop, AskForCode,
          StartPoll, PollToken, Enable, StartBind, Bind, ClearForPairing, ProtectSettings,
          StoreSettings, RevertSettings
      <4>2. generation < generation'
        BY <1>2, <4>1, SetupKept DEF Types
      <4> QED BY <3>1, <3>3, <4>2 DEF Paired, Types
    <3> QED BY <3>2, <3>3, <3>4, <3>5 DEF Paired
  <2> QED BY <1>2, <2>1, <2>2, <2>3 DEF AdmissionNext, Verification, Beside
<1> QED BY <1>1, <1>2

\* A verification is spoiled when a disconnect returns, or a new pairing.
LEMMA SpoiledBy ==
  ASSUME Types, Beside, verifying' # verifying
  PROVE  /\ verifying.at \notin {"idle", "settings"}
         /\ \/ verifying.epoch < generation /\ Drop /\ commanding.what = "disconnect"
            \/ verifying.pairing \notin {0, config.pairing} /\ ClearForPairing
<1> USE DEF cloudVars, connectionVars, historyVars, threadVars, boundVars
<1>1. \/ Returned("begin") \/ Returned("failed") \/ Returned("save")
      \/ (ClearForPairing /\ Returned("bind"))
      \/ (Drop /\ Returned(commanding.what))
      \/ (Drop /\ Returned("disconnect") /\ commanding.what # "begin")
  BY DEF Beside, BeginCommand, ClearEvidence, Disable, Drop, AskForCode, StartPoll, PollToken, Enable,
     StartBind, Bind, Bound, ClearForPairing, ReplaceUpload, SyncDown, ProtectSettings, StoreSettings,
     RevertSettings, Next_
<1>2. \A what : Returned(what) =>
        /\ verifying.at \notin {"idle", "settings"}
        /\ \/ what = "disconnect" /\ verifying.epoch < generation
           \/ what = "bind" /\ verifying.pairing \notin {0, config.pairing}
  BY DEF Returned
<1>3. Drop => commanding.what \in {"begin", "disconnect"}
  BY CommandPlaces DEF Drop, Signing
<1> QED BY <1>1, <1>2, <1>3

\* What began under another connection does not come to an end under this.
LEMMA NextSpoiled ==
  ASSUME Types, Unreachable, Paired, Spoiled, AdmissionNext
  PROVE  Spoiled'
<1> USE DEF cloudVars, connectionVars, historyVars, threadVars, boundVars
<1>1. CASE RestartProgram
  BY <1>1 DEF RestartProgram, NotVerifying, Spoiled
<1>2. CASE Authorize
  <2>1. /\ verifying'.at = "epoch" /\ verifying'.signedOut = signedOut /\ verifying'.changed = FALSE
        /\ UNCHANGED <<client, signedOut>>
    BY <1>2 DEF Authorize
  <2>2. signedOut => Cut'
    BY <2>1 DEF Cut, Begun, Unreachable, Offline
  <2> QED BY <2>1, <2>2 DEF Spoiled
<1>3. CASE Verification /\ ~ Authorize
  <2> SUFFICES ASSUME verifying'.at # "idle", verifying'.signedOut \/ verifying'.changed
               PROVE  /\ verifying'.at # "settings"
                      /\ (verifying'.at # "epoch" /\ verifying'.epoch < generation') \/ Cut'
    BY DEF Spoiled
  <2>1. /\ verifying.at # "idle" /\ (verifying.signedOut \/ verifying.changed)
        /\ verifying'.at # "epoch" /\ (LoadEpoch \/ verifying'.epoch = verifying.epoch)
    BY <1>3, VerificationKeeps
  <2>2. /\ verifying.at # "settings"
        /\ (verifying.at # "epoch" /\ verifying.epoch < generation) \/ Cut
    BY <2>1 DEF Spoiled
  <2>3. UNCHANGED <<generation, commanding, signedOut>>
    BY <1>3 DEF Verification, LoadEpoch, Scope, ReadMetadata, AskAudit, ForgetStale, HashLocal,
       ReadAgain, CompareEpoch, CompareSettings
  <2>4. verifying \in Asking
    BY <2>1, CommandPlaces
  <2>5. CASE verifying.at # "epoch" /\ verifying.epoch < generation
    <3>1. verifying'.epoch < generation'
      BY <2>1, <2>3, <2>5 DEF LoadEpoch
    <3>2. verifying'.at # "settings"
      <4>1. ~ CompareEpoch
        BY <2>4, <2>5 DEF CompareEpoch, SameConnection, Held, NotVerifying, Types, Asking
      <4>2. ~ CompareSettings
        BY <2>2 DEF CompareSettings
      <4>3. verifying' # NotVerifying
        BY DEF NotVerifying
      <4>4. CASE LoadEpoch \/ Scope
        BY <1>3, <4>4, VerificationKeeps
      <4>5. CASE ReadMetadata
        BY <2>4, <4>3, <4>5 DEF ReadMetadata, Held, Asking
      <4>6. CASE AskAudit
        <5>1. verifying' = verifying \/ \E actor : verifying' = [verifying EXCEPT !.actor = actor, !.at = "hash"]
          BY <4>3, <4>6 DEF AskAudit, Held, Established
        <5> QED BY <2>2, <2>4, <5>1 DEF Asking
      <4>7. CASE ForgetStale
        BY <2>2, <4>7 DEF ForgetStale
      <4>8. CASE HashLocal
        BY <2>4, <4>3, <4>8 DEF HashLocal, Held, Proceeds, Asking
      <4>9. CASE ReadAgain
        BY <2>4, <4>3, <4>9 DEF ReadAgain, Held, Proceeds, Asking
      <4> QED BY <1>3, <4>1, <4>2, <4>4, <4>5, <4>6, <4>7, <4>8, <4>9 DEF Verification
    <3> QED BY <2>1, <3>1, <3>2
  <2>6. CASE Cut
    <3>1. CASE LoadEpoch \/ Scope
      <4>1. verifying'.at \in {"scope", "first"} /\ UNCHANGED <<client, evidence>>
        BY <1>3, <3>1, VerificationKeeps DEF LoadEpoch, Scope
      <4> QED BY <2>3, <2>6, <4>1 DEF Cut, Blank, Offline, SigningIn, Begun
    <3>2. CASE ReadMetadata
      <4> DEFINE candidate == [verifying EXCEPT !.account = SessionAccount, !.revision = Current, !.at = "audit"]
      <4>3. verifying' # NotVerifying
        BY DEF NotVerifying
      <4>4. Answers200 /\ verifying' = candidate /\ evidence' = evidence
        BY <3>2, <4>3 DEF ReadMetadata, Held
      <4>1. Answers200 /\ verifying'.at = "audit" /\ evidence' = evidence
        BY <4>4, <2>4 DEF Asking
      <4>2. ~ Offline
        BY <4>1 DEF Answers200, Connected, Offline
      <4> QED BY <2>6, <4>1, <4>2 DEF Cut, Blank
    <3>3. CASE AskAudit \/ ForgetStale
      <4>1. Blank
        BY <2>6, <3>3 DEF Cut, AskAudit, ForgetStale
      <4>2. verifying' = NotVerifying
        BY <3>3, <4>1 DEF AskAudit, ForgetStale, Blank, Held
      <4> QED BY <4>2 DEF NotVerifying
    <3>4. verifying.at \notin {"hash", "again", "compare", "settings"}
      BY <2>6 DEF Cut, Begun
    <3> QED BY <1>3, <3>1, <3>2, <3>3, <3>4 DEF Verification, HashLocal, ReadAgain, CompareEpoch, CompareSettings
  <2> QED BY <2>2, <2>5, <2>6
<1>4. CASE Beside /\ ~ Verification /\ ~ RestartProgram
  <2> SUFFICES ASSUME verifying.at # "idle", verifying'.signedOut \/ verifying'.changed
               PROVE  /\ verifying.at # "settings"
                      /\ (verifying.at # "epoch" /\ verifying.epoch < generation') \/ Cut'
    BY <1>4, BesideKeeps DEF Spoiled
  <2>1. /\ verifying \in Asking /\ verifying.epoch \in Nat
        /\ verifying'.at = verifying.at /\ verifying'.epoch = verifying.epoch
    BY <1>4, CommandPlaces, BesideKeeps DEF Asking
  <2>2. verifying.epoch < generation => verifying.epoch < generation'
    BY <1>4, <2>1, SetupKept DEF Types
  <2>3. CASE verifying' # verifying
    <3>1. verifying.at # "settings"
      BY <1>4, <2>3, SpoiledBy
    <3>2. CASE verifying.epoch < generation /\ Drop /\ commanding.what = "disconnect"
      <4>1. Offline' /\ signedOut'
        BY <3>2 DEF Drop, DropSession, Offline
      <4>2. verifying.at = "epoch" => Cut'
        BY <2>1, <4>1 DEF Cut, Begun
      <4> QED BY <2>2, <3>1, <3>2, <4>2
    <3>3. CASE verifying.pairing \notin {0, config.pairing} /\ ClearForPairing
      <4>1. verifying.epoch < generation /\ verifying.at # "epoch"
        BY <3>3 DEF ClearForPairing, Paired
      <4> QED BY <2>2, <3>1, <4>1
    <3> QED BY <1>4, <2>3, <3>2, <3>3, SpoiledBy
  <2>4. CASE verifying' = verifying
    <3>1. /\ verifying.at # "settings"
          /\ (verifying.at # "epoch" /\ verifying.epoch < generation) \/ Cut
      BY <2>4 DEF Spoiled
    <3>2. CASE Cut /\ Blank
      <4>1. Blank'
        BY <1>4, <3>2, EvidenceKept DEF Blank, Verification
      <4> QED BY <2>1, <3>1, <3>2, <4>1 DEF Cut
    <3>3. CASE Cut /\ ~ Blank
      <4>1. /\ verifying.at \in Begun /\ verifying.at # "audit" /\ Offline
            /\ signedOut \/ (SigningIn /\ commanding.at = "clear")
        BY <3>3 DEF Cut
      <4>2. ~ AskForCode
        BY <4>1 DEF AskForCode, Unreachable, SigningIn
      <4>3. Offline'
        BY <1>4, <4>1, <4>2, ClientKept
      <4>4. signedOut' \/ (SigningIn' /\ commanding'.at = "clear") \/ Blank'
        <5>1. CASE BeginCommand
          <6>1. PICK what \in {"begin", "disconnect"} :
                  /\ commanding' = [at |-> "clear", what |-> what]
                  /\ signedOut' = IF what = "begin" THEN FALSE ELSE signedOut
            BY <5>1, Zenon DEF BeginCommand
          <6>2. signedOut
            BY <4>1, <5>1 DEF BeginCommand
          <6>3. CASE what = "begin"
            BY <6>1, <6>3 DEF SigningIn
          <6>4. CASE what # "begin"
            BY <6>1, <6>2, <6>4, Zenon
          <6> QED BY <6>3, <6>4
        <5>2. CASE ClearEvidence
          BY <5>2 DEF ClearEvidence, Blank
        <5>3. CASE ~ BeginCommand /\ ~ ClearEvidence
          <6>1. signedOut => signedOut'
            BY <1>4, <5>3 DEF Beside,
              ReplaceUpload, SyncDown, Disable, Drop, AskForCode,
              StartPoll, PollToken, Enable, StartBind, Bind, Bound, ClearForPairing, ProtectSettings,
              StoreSettings, RevertSettings
          <6>2. commanding.at = "clear" => commanding' = commanding
            BY <1>4, <5>3 DEF Beside,
              ReplaceUpload, SyncDown, Disable, Drop, AskForCode,
              StartPoll, PollToken, Enable, StartBind, Bind, Bound, ClearForPairing, ProtectSettings,
              StoreSettings, RevertSettings
          <6> QED BY <4>1, <6>1, <6>2 DEF SigningIn
        <5> QED BY <5>1, <5>2, <5>3
      <4> QED BY <2>1, <3>1, <4>1, <4>3, <4>4 DEF Cut
    <3> QED BY <2>2, <3>1, <3>2, <3>3
  <2> QED BY <2>3, <2>4
<1> QED BY <1>1, <1>2, <1>3, <1>4 DEF AdmissionNext, Verification, Beside

\* A verdict is given where authorize returns, and nowhere else.
LEMMA VerdictMoves ==
  ASSUME Types, AdmissionNext
  PROVE  \/ verdict' = verdict
         \/ verdict' = NoVerdict
         \/ /\ Scope /\ ~ config.protected /\ verifying.at # "idle"
            /\ verdict' = [kind |-> "local", guarded |-> verifying.guarded, file |-> config.file]
         \/ /\ CompareSettings /\ verifying.at = "settings"
            /\ verdict' = [kind |-> "verified", revision |-> verifying.revision,
                           actor |-> verifying.actor, account |-> verifying.account,
                           others |-> verifying.settings.others,
                           signedOut |-> verifying.signedOut, changed |-> verifying.changed]
<1> USE DEF cloudVars, connectionVars, historyVars, threadVars, boundVars
<1>1. CASE Beside
  BY <1>1, BesideKeeps
<1>2. CASE RestartProgram \/ Authorize
  BY <1>2 DEF RestartProgram, Authorize
<1>3. CASE Scope
  BY <1>3 DEF Scope, Held
<1>4. CASE CompareSettings
  BY <1>4 DEF CompareSettings, Held
<1>5. CASE LoadEpoch \/ ReadMetadata \/ AskAudit \/ ForgetStale \/ HashLocal \/ ReadAgain \/ CompareEpoch
  BY <1>5 DEF LoadEpoch, ReadMetadata, AskAudit, ForgetStale, HashLocal, ReadAgain, CompareEpoch,
     Held, Proceeds, Established
<1> QED BY <1>1, <1>2, <1>3, <1>4, <1>5 DEF AdmissionNext, Beside

\* The revisions that are there stay what they are.
LEMMA UploadsStay ==
  ASSUME Types, AdmissionNext
  PROVE  /\ \A n \in 1..Current : n \in 1..Current' /\ uploads'[n] = uploads[n]
         /\ CompareSettings => uploads' = uploads
<1> USE DEF cloudVars, connectionVars, historyVars, threadVars, boundVars
<1>1. CASE ReplaceUpload
  <2>1. PICK upload \in Upload : uploads' = Append(uploads, upload)
    BY <1>1 DEF ReplaceUpload
  <2>2. upload \in Revision
    BY DEF Upload, Revision, Uploader
  <2>3. /\ Len(uploads') = Len(uploads) + 1 /\ Len(uploads) \in Nat
        /\ \A n \in 1..Len(uploads) : uploads'[n] = uploads[n]
    BY <2>1, <2>2, AppendProperties, LenProperties DEF Types
  <2>4. ~ CompareSettings \/ uploads' = uploads
    BY DEF CompareSettings
  <2> QED BY <2>3, <2>4 DEF Current
<1>2. CASE ~ ReplaceUpload
  <2>1. uploads' = uploads
    BY <1>2 DEF AdmissionNext, SyncDown, Authorize, LoadEpoch, Scope, ReadMetadata, AskAudit, ForgetStale,
       HashLocal, ReadAgain, CompareEpoch, CompareSettings, BeginCommand, ClearEvidence, Disable, Drop,
       AskForCode, StartPoll, PollToken, Enable, StartBind, Bind, Bound, ClearForPairing,
       ProtectSettings, StoreSettings, RevertSettings, RestartProgram
  <2> QED BY <2>1 DEF Current
<1> QED BY <1>1, <1>2

\* So a verdict says what it should: a local one of a folder that was never
\* guarded, unless that could not be read, a verified one of an upload by whom it names, under a setup that
\* is still in force.
LEMMA NextVerdicts ==
  ASSUME IInv, AdmissionNext
  PROVE  Verdicts'
<1> USE DEF IInv
<1>1. CASE verdict' = verdict
  <2>1. verdict.kind = "verified" => /\ verdict.revision \in 1..Current'
                                     /\ uploads'[verdict.revision] = uploads[verdict.revision]
    BY UploadsStay DEF Verdicts
  <2> QED BY <1>1, <2>1 DEF Verdicts, AdmittedIsItsUploaders, DisconnectedAdmitsNothing,
          AdmittedUnderOneSetup, OnceProtectedIsNeverLocal
<1>2. CASE verdict' = NoVerdict
  BY <1>2 DEF NoVerdict, Verdicts, AdmittedIsItsUploaders, DisconnectedAdmitsNothing,
          AdmittedUnderOneSetup, OnceProtectedIsNeverLocal
<1>3. CASE /\ Scope /\ ~ config.protected /\ verifying.at # "idle"
           /\ verdict' = [kind |-> "local", guarded |-> verifying.guarded, file |-> config.file]
  <2>1. verifying.guarded => config.file # "read"
    BY <1>3 DEF Remembered
  <2> QED BY <1>3, <2>1 DEF Verdicts, AdmittedIsItsUploaders, DisconnectedAdmitsNothing,
          AdmittedUnderOneSetup, OnceProtectedIsNeverLocal
<1>4. CASE /\ CompareSettings /\ verifying.at = "settings"
           /\ verdict' = [kind |-> "verified", revision |-> verifying.revision,
                          actor |-> verifying.actor, account |-> verifying.account,
                          others |-> verifying.settings.others,
                          signedOut |-> verifying.signedOut, changed |-> verifying.changed]
  <2>1. ~ verifying.signedOut /\ ~ verifying.changed
    BY <1>4 DEF Spoiled
  <2>2. /\ verifying.revision \in 1..Current /\ uploads[verifying.revision].fresh
        /\ verifying.actor = uploads[verifying.revision].by
        /\ verifying.actor = verifying.account \/ verifying.settings.others
    BY <1>4 DEF Attributed, Evident
  <2>3. uploads[verifying.revision] \in Revision
    BY <2>2, ElementOfSeq DEF Types, Current
  <2>4. uploads[verifying.revision] = [by |-> verifying.actor, fresh |-> TRUE]
    BY <2>2, <2>3 DEF Revision
  <2>5. uploads' = uploads /\ Current' = Current
    BY <1>4, UploadsStay DEF Current
  <2>6. /\ verdict'.kind = "verified" /\ verdict'.revision = verifying.revision
        /\ verdict'.actor = verifying.actor /\ verdict'.account = verifying.account
        /\ verdict'.others = verifying.settings.others
        /\ verdict'.signedOut = verifying.signedOut /\ verdict'.changed = verifying.changed
    BY <1>4
  <2> QED BY <2>1, <2>2, <2>4, <2>5, <2>6 DEF Verdicts, AdmittedIsItsUploaders, DisconnectedAdmitsNothing,
          AdmittedUnderOneSetup, OnceProtectedIsNeverLocal
<1> QED BY <1>1, <1>2, <1>3, <1>4, VerdictMoves

-----------------------------------------------------------------------------
(* The theorems *)

\* A program that has not verified anything keeps to it.
LEMMA InitIInv == AdmissionInit => IInv
<1> SUFFICES ASSUME AdmissionInit PROVE IInv
  OBVIOUS
<1>1. Types
  BY InitTypes
<1>2. Attributed /\ Paired /\ Spoiled
  BY DEF AdmissionInit, Attributed, Paired, Spoiled, NotVerifying, Evident
<1>3. Remembered /\ Unreachable
  BY DEF AdmissionInit, Remembered, Unreachable, NotVerifying, NotCommanding, Offline, SigningIn
<1>4. Verdicts
  BY DEF AdmissionInit, NoVerdict, Verdicts, AdmittedIsItsUploaders, DisconnectedAdmitsNothing,
     AdmittedUnderOneSetup, OnceProtectedIsNeverLocal
<1> QED BY <1>1, <1>2, <1>3, <1>4 DEF IInv

\* A step that changes nothing keeps everything.
LEMMA StutterIInv ==
  ASSUME IInv, UNCHANGED admissionVars
  PROVE  IInv'
<1> USE DEF admissionVars
<1>1. Types' /\ Attributed' /\ Remembered'
  BY DEF IInv, Types, Attributed, Remembered, Current
<1>2. Unreachable' /\ Paired'
  BY DEF IInv, Unreachable, Paired, Offline, SigningIn
<1>3. Spoiled'
  BY DEF IInv, Spoiled, Cut, Blank, Offline, SigningIn
<1>4. Verdicts'
  BY DEF IInv, Verdicts, AdmittedIsItsUploaders, DisconnectedAdmitsNothing, AdmittedUnderOneSetup,
     OnceProtectedIsNeverLocal, Current
<1> QED BY <1>1, <1>2, <1>3, <1>4 DEF IInv

\* What a verification knows, what a disconnect leaves and what a pairing
\* protects hold of every state the intake reaches.
THEOREM AdmissionInvariance == AdmissionSpec => []IInv
<1>1. IInv /\ [AdmissionNext]_admissionVars => IInv'
  <2>1. ASSUME IInv, AdmissionNext PROVE IInv'
    BY <2>1, NextTypes, NextAttributed, NextRemembered, NextUnreachable, NextPaired, NextSpoiled,
       NextVerdicts DEF IInv
  <2> QED BY <2>1, StutterIInv
<1> QED BY <1>1, InitIInv, PTL DEF AdmissionSpec

\* Whoever replaces the document in the cloud, and whenever: what authorize
\* admits is an upload, by the person it names, who is the connected one
\* unless the settings allow others.
THEOREM AdmittedAsItsUploaders == AdmissionSpec => []AdmittedIsItsUploaders
<1>1. IInv => AdmittedIsItsUploaders
  BY DEF IInv, Verdicts
<1> QED BY <1>1, AdmissionInvariance, PTL

\* A verification that began after a disconnect returned admits nothing,
\* though the credential could not be deleted and a poll was under way.
THEOREM NothingAfterDisconnect == AdmissionSpec => []DisconnectedAdmitsNothing
<1>1. IInv => DisconnectedAdmitsNothing
  BY DEF IInv, Verdicts
<1> QED BY <1>1, AdmissionInvariance, PTL

\* A disconnect or a new pairing that returns under a verification stops it,
\* unless it has taken its last look at the generation.
THEOREM OneSetupThroughout == AdmissionSpec => []AdmittedUnderOneSetup
<1>1. IInv => AdmittedUnderOneSetup
  BY DEF IInv, Verdicts
<1> QED BY <1>1, AdmissionInvariance, PTL

\* A folder saved once as a Microsoft intake is never authorized as a local
\* one, through failed writes, refused saves and restarts, while the
\* configuration in use comes from what was saved, and not from the default of
\* a start that could not read it.
THEOREM ProtectedStaysProtected == AdmissionSpec => []OnceProtectedIsNeverLocal
<1>1. IInv => OnceProtectedIsNeverLocal
  BY DEF IInv, Verdicts
<1> QED BY <1>1, AdmissionInvariance, PTL
=============================================================================
