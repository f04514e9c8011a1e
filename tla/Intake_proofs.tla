---------------------------- MODULE Intake_proofs ----------------------------
(***************************************************************************)
(* A claim is taken over only when two clocks say its lease is over: the   *)
(* reader's, and that of a machine the reader watches.  So it is for any   *)
(* number of machines, any lease and however far their clocks are off.     *)
(* Where the machines watched agree on the time, the heartbeat truly is a  *)
(* lease old; where they do not, two claims may show one heartbeat, and    *)
(* the silence of one be held against the other (the run FoundStamp).      *)
(***************************************************************************)
EXTENDS Intake, TLAPS

\* The machines that m reads the claims of stamp them alike.
OthersAgree(m) == \A k, n \in Machine \ {m} : Ahead[k] = Ahead[n]

Types ==
  /\ claim \in Claim \cup {Missing}
  /\ aside \in [Machine -> Claim \cup {Missing}]
  /\ watched \in [Machine -> Observation]
  /\ scan \in [Machine -> Scan]

\* What m watches is another machine's.
Watches(m) == watched[m].owner # m

\* It has stood still no longer than it has been there, if one of the
\* machines watched is right about the time.
Silent(m) ==
  watched[m].owner \in Machine =>
    \E k \in Machine \ {m} :
      watched[m].silence + Ahead[watched[m].owner] <= watched[m].age + Ahead[k]

\* By the clock of k the lease of a claim is over.
IsOver(c, k) == c.age + Ahead[k] >= CLAIM_LEASE + Ahead[c.owner]

\* Two clocks say so of somebody else's claim.
IsOverTwice(c, m) == c.owner # m /\ IsOver(c, m) /\ \E k \in Machine \ {m} : IsOver(c, k)

\* A claim that m takes over is the one it has judged, as long as it is known.
Stale(m) ==
  scan[m].pc \in {"aside", "settle"} =>
    scan[m].held = Missing \/ (scan[m].held.state = "claimed" /\ IsOverTwice(scan[m].held, m))

\* A takeover replaces a claim that was judged, when nobody else has one.
TakenByTwoClocks(m) ==
  scan[m].pc = "settle" /\ scan'[m].pc = "confirm" =>
    claim = Missing /\ aside[m].state = "claimed" /\ IsOverTwice(aside[m], m)

Renamed(m) == scan[m].pc = "settle" => aside[m] # Missing

IInv ==
  /\ Types
  /\ \A m \in Machine : Watches(m) /\ Renamed(m) /\ Silent(m) /\ Stale(m)

-----------------------------------------------------------------------------
(* Claims, and where a scan is *)

\* The bounds are numbers, and Missing is no claim.
LEMMA Bounds ==
  /\ CLAIM_LEASE \in Nat /\ CLAIM_LEASE > 0 /\ MaxAhead \in Nat /\ Oldest \in Nat
  /\ CLAIM_LEASE <= Oldest
  /\ \A m \in Machine : Ahead[m] \in Nat /\ m # NoMachine
  /\ Missing \notin Claim
BY IntakeAssumption DEF Oldest, Claim, Missing

\* A claim written now.
LEMMA FreshIs ==
  ASSUME NEW m \in Machine
  PROVE  fresh_claim(m) \in Claim
BY Bounds DEF fresh_claim, Claim, Outcome

\* A tombstone written now.
LEMMA TombstoneIs ==
  ASSUME NEW m \in Machine, NEW outcome \in Outcome
  PROVE  [fresh_claim(m) EXCEPT !.state = "done", !.outcome = outcome] \in Claim
<1> DEFINE fresh == fresh_claim(m)
           one == [fresh EXCEPT !.state = "done"]
<1>1. fresh \in Claim
  BY FreshIs
<1>2. one \in Claim
  <2> HIDE DEF fresh
  <2> QED BY <1>1 DEF Claim
<1>3. [one EXCEPT !.outcome = outcome] \in Claim
  <2> HIDE DEF one
  <2> QED BY <1>2 DEF Claim
<1> QED BY <1>3

\* A claim grows older and nothing else about it changes.
LEMMA AgedIs ==
  ASSUME NEW c \in Claim \cup {Missing}
  PROVE  /\ Aged(c) \in Claim \cup {Missing}
         /\ Aged(c) = Missing <=> c = Missing
         /\ Aged(c).state = c.state /\ Aged(c).owner = c.owner /\ Aged(c).age >= c.age
<1>1. CASE c = Missing
  BY <1>1, Bounds DEF Aged, Missing
<1>2. CASE c \in Claim /\ c.state = "claimed" /\ c.age < Oldest
  <2>1. c.age \in 0..Oldest /\ c.age + 1 \in 0..Oldest
    BY <1>2, Bounds DEF Claim
  <2>2. Aged(c) = [c EXCEPT !.age = c.age + 1]
    BY <1>2 DEF Aged
  <2>3. /\ Aged(c) \in Claim /\ Aged(c).state = c.state /\ Aged(c).owner = c.owner
        /\ Aged(c).age = c.age + 1
    BY <1>2, <2>1, <2>2 DEF Claim
  <2> QED BY <1>2, <2>1, <2>3, Bounds
<1>3. CASE c \in Claim /\ ~ (c.state = "claimed" /\ c.age < Oldest)
  <2>1. Aged(c) = c /\ c.age \in 0..Oldest
    BY <1>3 DEF Aged, Claim
  <2> QED BY <1>3, <2>1, Bounds
<1> QED BY <1>1, <1>2, <1>3

\* A scan that goes somewhere with nothing or with a claim.
LEMMA WentIs ==
  ASSUME Types, NEW m \in Machine, NEW pc \in ScanPoint, NEW c \in Claim \cup {Missing},
         scan' = [scan EXCEPT ![m] = [pc |-> pc, held |-> c]]
  PROVE  /\ scan' \in [Machine -> Scan]
         /\ scan'[m].pc = pc /\ scan'[m].held = c
         /\ \A k \in Machine \ {m} : scan'[k] = scan[k]
<1>1. [pc |-> pc, held |-> c] \in Scan
  BY Zenon DEF Scan
<1> QED BY <1>1 DEF Types

-----------------------------------------------------------------------------
(* The steps of one scan *)

\* What a step of m alone leaves to the other machines.
Others(m) ==
  \A k \in Machine \ {m} : scan'[k] = scan[k] /\ watched'[k] = watched[k] /\ aside'[k] = aside[k]

\* Such a step keeps what holds of the others.
LEMMA OthersKept ==
  ASSUME IInv, Types', NEW m \in Machine, Others(m),
         Watches(m)', Renamed(m)', Silent(m)', Stale(m)'
  PROVE  IInv'
<1>1. ASSUME NEW k \in Machine \ {m}
      PROVE  Watches(k)' /\ Renamed(k)' /\ Silent(k)' /\ Stale(k)'
  BY <1>1 DEF IInv, Others, Watches, Silent, Renamed, Stale
<1>2. ASSUME NEW k \in Machine PROVE Watches(k)' /\ Renamed(k)' /\ Silent(k)' /\ Stale(k)'
  BY <1>1
<1> QED BY <1>2, Zenon DEF IInv

\* A step that changes no claim renamed aside, watches nothing new and leads
\* to no takeover.
LEMMA Elsewhere ==
  ASSUME IInv, NEW m \in Machine, claim' \in Claim \cup {Missing},
         UNCHANGED <<aside, watched>>,
         NEW pc \in ScanPoint \ {"aside", "settle"}, NEW c \in Claim \cup {Missing},
         scan' = [scan EXCEPT ![m] = [pc |-> pc, held |-> c]]
  PROVE  IInv' /\ Others(m)
<1>1. /\ scan' \in [Machine -> Scan] /\ scan'[m].pc = pc
      /\ \A k \in Machine \ {m} : scan'[k] = scan[k]
  BY WentIs DEF IInv
<1>2. Types'
  BY <1>1 DEF IInv, Types
<1>3. Others(m) /\ Watches(m)' /\ Renamed(m)' /\ Silent(m)' /\ Stale(m)'
  BY <1>1 DEF Others, IInv, Watches, Silent, Renamed, Stale
<1> QED BY <1>1, <1>2, <1>3, OthersKept

\* A step that leaves the claim, what is watched and every scan alone.
LEMMA NothingClaimed ==
  ASSUME IInv, UNCHANGED <<claim, aside, watched, scan>>
  PROVE  IInv'
BY Zenon DEF IInv, Types, Watches, Silent, Renamed, Stale

\* The silence a machine has observed is a number, and the claim is as old by
\* the clock of a machine it watches.
LEMMA SilenceIs ==
  ASSUME Types, NEW m \in Machine, Watches(m), Silent(m),
         claim.state = "claimed", ~ Holds(m)
  PROVE  /\ claim \in Claim /\ claim.owner \in Machine \ {m}
         /\ observed_silence(m) \in 0..CLAIM_LEASE
         /\ \E k \in Machine \ {m} :
              observed_silence(m) + Ahead[claim.owner] <= claim.age + Ahead[k]
<1>1. claim \in Claim /\ claim.owner \in Machine \ {m} /\ claim.age \in 0..Oldest
  BY DEF Types, Claim, Missing, Holds
<1>2. /\ watched[m].owner \in Machine \cup {NoMachine} /\ watched[m].age \in 0..Oldest
      /\ watched[m].silence \in 0..CLAIM_LEASE
  BY DEF Types, Observation
<1>3. CASE ~ SameHeartbeat(watched[m], claim)
  <2>1. observed_silence(m) = 0 /\ Ahead[claim.owner] \in Nat
    BY <1>1, <1>3, Bounds DEF observed_silence
  <2>2. observed_silence(m) + Ahead[claim.owner] <= claim.age + Ahead[claim.owner]
    BY <1>1, <2>1, Bounds
  <2> QED BY <1>1, <2>1, <2>2, Bounds
<1>4. CASE SameHeartbeat(watched[m], claim)
  <2>1. observed_silence(m) = watched[m].silence
    BY <1>4 DEF observed_silence
  <2>2. watched[m].owner \in Machine
    BY <1>2, <1>4 DEF SameHeartbeat
  <2>3. PICK k \in Machine \ {m} :
          watched[m].silence + Ahead[watched[m].owner] <= watched[m].age + Ahead[k]
    BY <2>2 DEF Silent
  <2>4. watched[m].age + Ahead[claim.owner] = claim.age + Ahead[watched[m].owner]
    BY <1>4 DEF SameHeartbeat
  <2>5. Ahead[k] \in Nat /\ Ahead[claim.owner] \in Nat /\ Ahead[watched[m].owner] \in Nat
    BY <1>1, <2>2, <2>3, Bounds
  <2>6. watched[m].silence + Ahead[claim.owner] <= claim.age + Ahead[k]
    BY <1>1, <1>2, <2>3, <2>4, <2>5, Bounds
  <2> QED BY <1>1, <1>2, <2>1, <2>6
<1> QED BY <1>3, <1>4

\* What a machine observes is somebody else's claim.
LEMMA Observed ==
  ASSUME Types, NEW m \in Machine, Watches(m), Silent(m),
         claim.state = "claimed", ~ Holds(m), Observe(m)
  PROVE  /\ watched' \in [Machine -> Observation] /\ Watches(m)'
         /\ Silent(m)'
         /\ \A k \in Machine \ {m} : watched'[k] = watched[k]
<1>1. PICK silence : silence = observed_silence(m)
  OBVIOUS
<1> DEFINE seen == [owner |-> claim.owner, age |-> claim.age, silence |-> silence]
<1>2. /\ claim.owner \in Machine \ {m} /\ claim.age \in 0..Oldest
      /\ silence \in 0..CLAIM_LEASE
      /\ \E k \in Machine \ {m} : silence + Ahead[claim.owner] <= claim.age + Ahead[k]
  BY <1>1, SilenceIs DEF Claim
<1>3. watched' = [watched EXCEPT ![m] = seen] /\ watched \in [Machine -> Observation]
  BY <1>1 DEF Observe, Types
<1>4. seen \in Observation
  <2>1. claim.owner \in Machine \cup {NoMachine}
    BY <1>2
  <2> QED BY <1>2, <2>1, Zenon DEF Observation
<1>5. PICK o : o = seen
  OBVIOUS
<1>6. o.owner = claim.owner /\ o.age = claim.age /\ o.silence = silence
  BY <1>5
<1>7. watched' = [watched EXCEPT ![m] = o] /\ o \in Observation /\ o.owner # m
  <2>1. o.owner # m
    BY <1>2, <1>6
  <2> QED BY <1>3, <1>4, <1>5, <2>1, Zenon
<1>8. \E k \in Machine \ {m} : o.silence + Ahead[o.owner] <= o.age + Ahead[k]
  BY <1>2, <1>6
<1>9. /\ watched' \in [Machine -> Observation] /\ watched'[m] = o
      /\ \A k \in Machine \ {m} : watched'[k] = watched[k]
  BY <1>3, <1>7
<1> QED BY <1>7, <1>8, <1>9 DEF Watches, Silent

\* A step that watches the claim and then leaves it alone, or goes on to
\* acquire it.
LEMMA Watching ==
  ASSUME IInv, NEW m \in Machine, UNCHANGED <<claim, aside>>,
         claim.state = "claimed", ~ Holds(m), Observe(m),
         NEW c \in Claim \cup {Missing}, NEW pc \in ScanPoint \ {"settle"},
         \/ scan' = scan /\ scan[m].pc \notin {"aside", "settle"}
         \/ scan' = [scan EXCEPT ![m] = [pc |-> pc, held |-> c]],
         pc = "aside" => is_takeable(m) /\ c = claim
  PROVE  IInv' /\ Others(m)
<1>1. Types /\ Watches(m) /\ Silent(m)
  BY DEF IInv
<1>2. /\ watched' \in [Machine -> Observation] /\ Watches(m)'
      /\ Silent(m)'
      /\ \A k \in Machine \ {m} : watched'[k] = watched[k]
  BY <1>1, Observed
<1>3. /\ scan' \in [Machine -> Scan]
      /\ \A k \in Machine \ {m} : scan'[k] = scan[k]
      /\ \/ scan'[m].pc \notin {"aside", "settle"}
         \/ scan'[m].pc = "aside" /\ scan'[m].held = claim /\ is_takeable(m)
  <2>1. CASE scan' = scan /\ scan[m].pc \notin {"aside", "settle"}
    BY <1>1, <2>1 DEF Types
  <2>2. CASE scan' = [scan EXCEPT ![m] = [pc |-> pc, held |-> c]]
    <3>1. /\ scan' \in [Machine -> Scan] /\ scan'[m].pc = pc /\ scan'[m].held = c
          /\ \A k \in Machine \ {m} : scan'[k] = scan[k]
      BY <1>1, <2>2, WentIs
    <3> QED BY <3>1
  <2> QED BY <2>1, <2>2
<1>4. Stale(m)'
  <2>1. ASSUME is_takeable(m) PROVE IsOverTwice(claim, m)
    <3>1. /\ observed_silence(m) \in 0..CLAIM_LEASE /\ claim.age \in 0..Oldest
          /\ claim.owner \in Machine \ {m}
      BY <1>1, <2>1, SilenceIs DEF Claim
    <3>2. PICK k \in Machine \ {m} :
            observed_silence(m) + Ahead[claim.owner] <= claim.age + Ahead[k]
      BY <1>1, <2>1, SilenceIs
    <3>3. observed_silence(m) >= CLAIM_LEASE /\ IsOver(claim, m)
      BY <2>1 DEF is_takeable, IsOver
    <3>4. IsOver(claim, k)
      BY <3>1, <3>2, <3>3, Bounds DEF IsOver
    <3> QED BY <3>1, <3>3, <3>4 DEF IsOverTwice
  <2> QED BY <1>3, <2>1 DEF Stale
<1>5. Types' /\ Others(m) /\ Renamed(m)'
  BY <1>1, <1>2, <1>3 DEF Types, Others, Renamed
<1> QED BY <1>2, <1>4, <1>5, OthersKept

-----------------------------------------------------------------------------
(* The operations of a scan *)

\* A scan stays where it is, or goes where no claim is taken over.
Leads(m) ==
  \/ scan' = scan
  \/ \E pc \in ScanPoint \ {"aside", "settle"}, c \in Claim \cup {Missing} :
       scan' = [scan EXCEPT ![m] = [pc |-> pc, held |-> c]]

\* Such a step takes nothing over, whatever it does to the claim.
LEMMA LeadsElsewhere ==
  ASSUME IInv, NEW m \in Machine, claim' \in Claim \cup {Missing},
         UNCHANGED <<aside, watched>>, Leads(m)
  PROVE  IInv' /\ Others(m)
<1>1. CASE scan' = scan
  <2>1. Types'
    BY <1>1 DEF IInv, Types
  <2>2. \A k \in Machine :
          /\ Watches(k)' /\ Renamed(k)'
          /\ Silent(k)' /\ Stale(k)'
    BY <1>1 DEF IInv, Watches, Silent, Renamed, Stale
  <2>3. IInv'
    BY <2>1, <2>2, Zenon DEF IInv
  <2> QED BY <1>1, <2>3 DEF Others
<1>2. CASE \E pc \in ScanPoint \ {"aside", "settle"}, c \in Claim \cup {Missing} :
             scan' = [scan EXCEPT ![m] = [pc |-> pc, held |-> c]]
  BY <1>2, Elsewhere
<1> QED BY <1>1, <1>2 DEF Leads

\* Goto another place.
LEMMA GoesTo ==
  ASSUME NEW m \in Machine, NEW pc \in ScanPoint \ {"aside", "settle"}, Goto(m, pc)
  PROVE  Leads(m)
BY Zenon DEF Goto, Leads

\* Done, the scan of this document is over.
LEMMA IsDone == ASSUME NEW m \in Machine, Done(m) PROVE Leads(m)
<1>1. "idle" \in ScanPoint \ {"aside", "settle"}
  BY DEF ScanPoint
<1> QED BY <1>1, GoesTo DEF Done

\* release goes on to remove the claim, if there is one to remove.
LEMMA ReleaseLeads == ASSUME NEW m \in Machine, release(m) PROVE Leads(m)
<1>1. /\ "release" \in ScanPoint \ {"aside", "settle"}
      /\ "idle" \in ScanPoint \ {"aside", "settle"}
  BY DEF ScanPoint
<1> QED BY <1>1, GoesTo DEF release

\* renew goes on to write the claim, when little is left of it.
LEMMA RenewLeads ==
  ASSUME NEW m \in Machine, NEW waits, NEW pc \in {"renew", "renewInDoubt"}, renew(m, waits, pc)
  PROVE  Leads(m)
<1>1. pc \in ScanPoint \ {"aside", "settle"}
  BY DEF ScanPoint
<1>2. CASE GotoWith(m, pc, fresh_claim(m))
  <2>1. fresh_claim(m) \in Claim \cup {Missing}
    BY FreshIs
  <2> QED BY <1>1, <1>2, <2>1, Zenon DEF GotoWith, Leads
<1> QED BY <1>2, IsDone DEF renew

\* mark_done goes on to write the tombstone.
LEMMA TombstoneLeads ==
  ASSUME NEW m \in Machine, NEW outcome \in Outcome, mark_done(m, outcome)
  PROVE  Leads(m)
<1>1. "close" \in ScanPoint \ {"aside", "settle"}
  BY DEF ScanPoint
<1>2. [fresh_claim(m) EXCEPT !.state = "done", !.outcome = outcome] \in Claim \cup {Missing}
  BY TombstoneIs
<1> QED BY <1>1, <1>2, Zenon DEF mark_done, GotoWith, Leads

\* manage_owned and finish_failed do one of these.
LEMMA OwnedLeads == ASSUME NEW m \in Machine, manage_owned(m) PROVE Leads(m)
<1>1. {"filed", "failed", "removed"} \subseteq Outcome
  BY DEF Outcome
<1>2. ASSUME finish_failed(m) PROVE Leads(m)
  BY <1>1, <1>2, ReleaseLeads, RenewLeads, TombstoneLeads DEF finish_failed
<1> QED BY <1>1, <1>2, ReleaseLeads, RenewLeads, TombstoneLeads DEF manage_owned

\* Lost, after a race.
LEMMA LostLeads == ASSUME NEW m \in Machine, Lost(m) PROVE Leads(m)
<1>1. "acquire" \in ScanPoint \ {"aside", "settle"}
  BY DEF ScanPoint
<1> QED BY <1>1, GoesTo, IsDone DEF Lost

\* create_exclusive finds no claim and leaves one of its own, or changes none.
LEMMA CreateLeads ==
  ASSUME Types, NEW m \in Machine, create_exclusive(m)
  PROVE  /\ Leads(m) /\ claim' \in Claim \cup {Missing}
         /\ claim = Missing \/ Lost(m) \/ Done(m)
<1>1. "confirm" \in ScanPoint \ {"aside", "settle"}
  BY DEF ScanPoint
<1>2. claim \in Claim \cup {Missing} /\ fresh_claim(m) \in Claim
  BY FreshIs DEF Types
<1>3. claim = Missing \/ Lost(m) \/ Done(m)
  BY DEF create_exclusive
<1> QED BY <1>1, <1>2, <1>3, GoesTo, LostLeads, IsDone DEF create_exclusive

-----------------------------------------------------------------------------
(* Every step *)

\* The steps that have nothing to do with a takeover.
LEMMA OtherSteps ==
  ASSUME IInv, NEW m \in Machine,
         \/ manage_admitted(m) \/ finish_unseen_owned(m) \/ write_renewal(m) \/ write_done(m)
         \/ remove_claim(m) \/ create(m) \/ confirm(m) \/ enqueue(m)
  PROVE  IInv' /\ Others(m) /\ TakenByTwoClocks(m)
<1>1. claim \in Claim \cup {Missing} /\ scan[m].held \in Claim \cup {Missing} /\ Types
  BY DEF IInv, Types, Scan
<1>2. CASE manage_admitted(m)
  <2>1. Leads(m) /\ scan[m].pc = "idle" /\ UNCHANGED folderVars /\ UNCHANGED watched
    BY <1>2, ReleaseLeads, RenewLeads, OwnedLeads DEF manage_admitted, At, Leads
  <2> QED BY <1>1, <2>1, LeadsElsewhere DEF folderVars, TakenByTwoClocks
<1>3. CASE finish_unseen_owned(m)
  <2>1. Leads(m) /\ scan[m].pc = "idle" /\ UNCHANGED folderVars /\ UNCHANGED watched
    BY <1>3, OwnedLeads DEF finish_unseen_owned, At, Leads
  <2> QED BY <1>1, <2>1, LeadsElsewhere DEF folderVars, TakenByTwoClocks
<1>4. CASE write_renewal(m)
  <2>1. /\ Done(m) /\ scan[m].pc # "settle" /\ claim' \in {claim, scan[m].held}
        /\ UNCHANGED <<aside, watched>>
    BY <1>4 DEF write_renewal, At
  <2> QED BY <1>1, <2>1, IsDone, LeadsElsewhere DEF TakenByTwoClocks
<1>5. CASE write_done(m)
  <2>1. /\ Done(m) /\ scan[m].pc # "settle" /\ claim' \in {claim, scan[m].held}
        /\ UNCHANGED <<aside, watched>>
    BY <1>5 DEF write_done, At
  <2> QED BY <1>1, <2>1, IsDone, LeadsElsewhere DEF TakenByTwoClocks
<1>6. CASE remove_claim(m)
  <2>1. /\ Done(m) /\ scan[m].pc # "settle" /\ claim' \in {claim, Missing}
        /\ UNCHANGED <<aside, watched>>
    BY <1>6 DEF remove_claim, At
  <2> QED BY <1>1, <2>1, IsDone, LeadsElsewhere DEF TakenByTwoClocks
<1>7. CASE create(m)
  <2>1. create_exclusive(m) /\ scan[m].pc # "settle" /\ UNCHANGED <<aside, watched>>
    BY <1>7 DEF create, At
  <2> QED BY <1>1, <2>1, CreateLeads, LeadsElsewhere DEF TakenByTwoClocks
<1>8. CASE confirm(m)
  <2>1. /\ "enqueue" \in ScanPoint \ {"aside", "settle"}
        /\ "idle" \in ScanPoint \ {"aside", "settle"}
    BY DEF ScanPoint
  <2>2. Leads(m) /\ scan[m].pc # "settle" /\ UNCHANGED folderVars /\ UNCHANGED watched
    BY <1>8, <2>1, GoesTo DEF confirm, At
  <2> QED BY <1>1, <2>2, LeadsElsewhere DEF folderVars, TakenByTwoClocks
<1>9. CASE enqueue(m)
  <2>1. Leads(m) /\ scan[m].pc # "settle" /\ UNCHANGED folderVars /\ UNCHANGED watched
    BY <1>9, IsDone, ReleaseLeads DEF enqueue, At
  <2> QED BY <1>1, <2>1, LeadsElsewhere DEF folderVars, TakenByTwoClocks
<1> QED BY <1>2, <1>3, <1>4, <1>5, <1>6, <1>7, <1>8, <1>9

\* A claim is looked at, and watched when somebody else's.
LEMMA ConsiderStep ==
  ASSUME IInv, NEW m \in Machine, consider(m)
  PROVE  IInv' /\ Others(m) /\ TakenByTwoClocks(m)
<1>1. /\ "acquire" \in ScanPoint \ {"aside", "settle"} /\ Missing \in Claim \cup {Missing}
      /\ claim \in Claim \cup {Missing} /\ scan[m].pc = "idle" /\ UNCHANGED <<claim, aside>>
  BY DEF ScanPoint, IInv, Types, consider, At, folderVars
<1>2. CASE claim = Missing /\ UNCHANGED watched
  <2>1. Leads(m)
    BY <1>1, <1>2, GoesTo DEF consider, Leads, Missing
  <2> QED BY <1>1, <1>2, <2>1, LeadsElsewhere DEF TakenByTwoClocks
<1>3. CASE claim.state = "claimed" /\ Observe(m)
  <2>1. ~ Holds(m)
    BY <1>3 DEF consider, Mine, verify
  <2>2. /\ scan' = scan \/ scan' = [scan EXCEPT ![m] = [pc |-> "acquire", held |-> Missing]]
        /\ scan[m].pc \notin {"aside", "settle"}
    BY <1>1, <1>3 DEF consider, Goto, Missing
  <2> QED BY <1>1, <1>3, <2>1, <2>2, Watching DEF TakenByTwoClocks
<1> QED BY <1>2, <1>3 DEF consider

\* acquire judges a claim, and goes on to take it over when it is takeable.
LEMMA AcquireStep ==
  ASSUME IInv, NEW m \in Machine, acquire(m)
  PROVE  IInv' /\ Others(m) /\ TakenByTwoClocks(m)
<1>1. /\ {"create", "confirm", "idle"} \subseteq ScanPoint \ {"aside", "settle"}
      /\ {"aside", "idle"} \subseteq ScanPoint \ {"settle"} /\ Missing \in Claim \cup {Missing}
      /\ claim \in Claim \cup {Missing} /\ scan[m].pc = "acquire" /\ UNCHANGED <<claim, aside>>
  BY DEF ScanPoint, IInv, Types, acquire, At, folderVars
<1>2. CASE Leads(m) /\ UNCHANGED watched
  BY <1>1, <1>2, LeadsElsewhere DEF TakenByTwoClocks
<1>3. CASE /\ claim.state = "claimed" /\ ~ Holds(m) /\ Observe(m)
           /\ IF is_takeable(m) THEN GotoWith(m, "aside", claim) ELSE Done(m)
  <2>1. CASE is_takeable(m)
    BY <1>1, <1>3, <2>1, Watching DEF GotoWith, TakenByTwoClocks
  <2>2. CASE ~ is_takeable(m)
    BY <1>1, <1>3, <2>2, Watching DEF Done, Goto, TakenByTwoClocks
  <2> QED BY <2>1, <2>2
<1> QED BY <1>1, <1>2, <1>3, GoesTo, IsDone DEF acquire

\* take_over renames a claim aside.
LEMMA TakeOverStep ==
  ASSUME IInv, NEW m \in Machine, take_over(m)
  PROVE  IInv' /\ Others(m) /\ TakenByTwoClocks(m)
<1>1. /\ Types /\ scan[m] \in Scan /\ claim \in Claim \cup {Missing} /\ scan[m].pc = "aside"
      /\ watched' = watched /\ "settle" \in ScanPoint /\ Missing \in Claim \cup {Missing}
  BY DEF IInv, Types, take_over, At, ScanPoint
<1>2. CASE Leads(m) /\ UNCHANGED <<claim, aside>>
  BY <1>1, <1>2, LeadsElsewhere DEF TakenByTwoClocks
<1>3. CASE /\ claim # Missing /\ aside' = [aside EXCEPT ![m] = claim] /\ claim' = Missing
           /\ scan' = [scan EXCEPT ![m].pc = "settle"]
  <2>1. /\ scan' \in [Machine -> Scan] /\ scan'[m].pc = "settle" /\ scan'[m].held = scan[m].held
        /\ \A k \in Machine \ {m} : scan'[k] = scan[k]
    BY <1>1, <1>3 DEF Types, Scan
  <2>2. /\ aside' \in [Machine -> Claim \cup {Missing}] /\ aside'[m] = claim
        /\ \A k \in Machine \ {m} : aside'[k] = aside[k]
    BY <1>1, <1>3 DEF Types
  <2>3. Types' /\ Others(m) /\ Renamed(m)' /\ Watches(m)'
    BY <1>1, <1>3, <2>1, <2>2 DEF IInv, Types, Others, Renamed, Watches
  <2>4. Silent(m)' /\ Stale(m)'
    BY <1>1, <2>1 DEF IInv, Silent, Stale
  <2> QED BY <1>1, <2>3, <2>4, OthersKept DEF TakenByTwoClocks
<1> QED BY <1>2, <1>3, LostLeads, IsDone DEF take_over

\* settle_takeover puts a claim of its own in the place of one that is as old
\* as it was judged to be.
LEMMA SettleStep ==
  ASSUME IInv, NEW m \in Machine, settle_takeover(m)
  PROVE  IInv' /\ Others(m) /\ TakenByTwoClocks(m)
<1>1. /\ Types /\ claim \in Claim \cup {Missing} /\ aside[m] \in Claim \cup {Missing}
      /\ scan[m].pc = "settle" /\ watched' = watched /\ aside' = [aside EXCEPT ![m] = Missing]
  BY DEF IInv, Types, settle_takeover, At
<1>2. Leads(m) /\ claim' \in Claim \cup {Missing}
  BY <1>1, CreateLeads, LostLeads DEF settle_takeover
<1>3. /\ scan' \in [Machine -> Scan] /\ scan'[m].pc \notin {"aside", "settle"}
      /\ \A k \in Machine \ {m} : scan'[k] = scan[k]
  <2>1. CASE \E pc \in ScanPoint \ {"aside", "settle"}, c \in Claim \cup {Missing} :
               scan' = [scan EXCEPT ![m] = [pc |-> pc, held |-> c]]
    BY <1>1, <2>1, WentIs
  <2>2. scan' # scan
    <3>1. ASSUME Goto(m, "confirm") \/ Goto(m, "acquire") \/ Goto(m, "idle") PROVE scan'[m].pc # "settle"
      BY <1>1, <3>1 DEF Goto, Types
    <3> QED BY <1>1, <3>1 DEF settle_takeover, create_exclusive, Lost, Done
  <2> QED BY <1>2, <2>1, <2>2 DEF Leads
<1>4. /\ aside' \in [Machine -> Claim \cup {Missing}]
      /\ \A k \in Machine \ {m} : aside'[k] = aside[k]
  BY <1>1 DEF Types
<1>5. Types' /\ Others(m) /\ Renamed(m)' /\ Watches(m)' /\ Stale(m)'
  BY <1>1, <1>2, <1>3, <1>4 DEF IInv, Types, Others, Renamed, Watches, Stale
<1>6. Silent(m)'
  BY <1>1 DEF IInv, Silent
<1>7. ASSUME scan'[m].pc = "confirm"
      PROVE  claim = Missing /\ aside[m].state = "claimed" /\ IsOverTwice(aside[m], m)
  <2>1. ~ Lost(m) /\ ~ Done(m)
    BY <1>1, <1>7 DEF Lost, Done, Goto, Types
  <2>2. aside[m] = scan[m].held /\ create_exclusive(m)
    BY <2>1 DEF settle_takeover
  <2>3. claim = Missing
    BY <1>1, <2>1, <2>2, CreateLeads
  <2>4. scan[m].held # Missing
    BY <1>1, <2>2 DEF IInv, Renamed
  <2> QED BY <1>1, <1>7, <2>2, <2>3, <2>4 DEF IInv, Stale
<1> QED BY <1>5, <1>6, <1>7, OthersKept DEF TakenByTwoClocks

\* A machine that dies forgets what it was doing, and new settings make it
\* watch anew.
LEMMA ForgetStep ==
  ASSUME IInv, NEW m \in Machine, Crash(m) \/ update_config(m)
  PROVE  IInv' /\ Others(m) /\ TakenByTwoClocks(m)
<1>1. /\ Types /\ claim' = claim /\ watched' = [watched EXCEPT ![m] = Unobserved]
      /\ aside' = aside \/ aside' = [aside EXCEPT ![m] = Missing]
      /\ \/ scan' = [scan EXCEPT ![m] = Rest]
         \/ scan' = scan /\ scan[m].pc = "idle"
  BY DEF IInv, Crash, update_config, At, folderVars
<1>2. Unobserved \in Observation /\ Rest \in Scan /\ Rest.pc = "idle"
  <2>1. 0 \in 0..Oldest /\ 0 \in 0..CLAIM_LEASE /\ NoMachine \in Machine \cup {NoMachine}
    BY Bounds
  <2>2. Unobserved \in Observation
    BY <2>1, Zenon DEF Unobserved, Observation
  <2>3. "idle" \in ScanPoint /\ Missing \in Claim \cup {Missing}
    BY DEF ScanPoint
  <2>4. Rest \in Scan /\ Rest.pc = "idle"
    BY <2>3, Zenon DEF Rest, Scan
  <2> QED BY <2>2, <2>4
<1>3. /\ watched' \in [Machine -> Observation] /\ watched'[m] = Unobserved
      /\ \A k \in Machine \ {m} : watched'[k] = watched[k]
  BY <1>1, <1>2 DEF Types
<1>4. /\ scan' \in [Machine -> Scan] /\ scan'[m].pc = "idle"
      /\ \A k \in Machine \ {m} : scan'[k] = scan[k]
  BY <1>1, <1>2 DEF Types
<1>5. /\ aside' \in [Machine -> Claim \cup {Missing}]
      /\ \A k \in Machine \ {m} : aside'[k] = aside[k]
  BY <1>1 DEF Types
<1>6. Watches(m)' /\ Silent(m)' /\ Renamed(m)' /\ Stale(m)'
  BY <1>3, <1>4, Bounds DEF Watches, Silent, Renamed, Stale, Unobserved
<1>7. Types' /\ Others(m)
  BY <1>1, <1>3, <1>4, <1>5 DEF Types, Others
<1> QED BY <1>4, <1>6, <1>7, OthersKept DEF TakenByTwoClocks

\* What is remembered of a heartbeat stays true as time passes.
LEMMA NotedIs ==
  ASSUME NEW m \in Machine, NEW o \in Observation, o.owner # m
  PROVE  /\ Noted(m, o) \in Observation /\ Noted(m, o).owner # m
         /\ \/ Noted(m, o).owner = NoMachine
            \/ /\ Noted(m, o).owner = o.owner
               /\ \A p, q \in 0..MaxAhead :
                    o.silence + p <= o.age + q => Noted(m, o).silence + p <= Noted(m, o).age + q
<1> DEFINE age == IF o.age < Oldest THEN o.age + 1 ELSE o.age
           silence == IF o.silence < CLAIM_LEASE THEN o.silence + 1 ELSE o.silence
<1>1. o.age \in 0..Oldest /\ o.silence \in 0..CLAIM_LEASE
  BY DEF Observation
<1>2. /\ age \in 0..Oldest /\ silence \in 0..CLAIM_LEASE
      /\ \A p, q \in 0..MaxAhead : o.silence + p <= o.age + q => silence + p <= age + q
  BY <1>1, Bounds DEF Oldest
<1>3. CASE Noted(m, o) = [o EXCEPT !.age = age, !.silence = silence]
  <2>1. PICK n : n = Noted(m, o)
    OBVIOUS
  <2>2. PICK a, s : a = age /\ s = silence
    OBVIOUS
  <2>3. n = [o EXCEPT !.age = a, !.silence = s]
    BY <1>3, <2>1, <2>2
  <2>4. a \in 0..Oldest /\ s \in 0..CLAIM_LEASE
    BY <1>2, <2>2
  <2>5. \A p, q \in 0..MaxAhead : o.silence + p <= o.age + q => s + p <= a + q
    BY <1>2, <2>2
  <2>6. n \in Observation /\ n.owner = o.owner /\ n.age = a /\ n.silence = s
    BY <2>3, <2>4 DEF Observation
  <2> QED BY <2>1, <2>5, <2>6
<1>4. CASE Noted(m, o) = Unobserved
  <2>1. 0 \in 0..Oldest /\ 0 \in 0..CLAIM_LEASE /\ NoMachine \in Machine \cup {NoMachine}
    BY Bounds
  <2>2. Unobserved \in Observation
    BY <2>1, Zenon DEF Unobserved, Observation
  <2>3. Unobserved.owner = NoMachine /\ Unobserved.age = 0 /\ Unobserved.silence = 0
    BY DEF Unobserved
  <2> QED BY <1>4, <2>2, <2>3, Bounds
<1> QED BY <1>3, <1>4, Zenon DEF Noted

\* Time passes for the claims, what was judged of them and what is watched.
LEMMA TickStep ==
  ASSUME IInv, Tick
  PROVE  IInv' /\ \A m \in Machine : scan'[m].pc = scan[m].pc
<1>1. Types
  BY DEF IInv
<1>2. claim' \in Claim \cup {Missing}
  BY <1>1, AgedIs DEF Tick, Types
<1>3. ASSUME NEW m \in Machine
      PROVE  /\ aside'[m] \in Claim \cup {Missing} /\ (aside'[m] = Missing <=> aside[m] = Missing)
             /\ watched'[m] \in Observation /\ watched'[m].owner # m
             /\ Silent(m) => Silent(m)'
             /\ scan'[m] \in Scan /\ scan'[m].pc = scan[m].pc
             /\ scan'[m].held = Missing \/
                  (/\ scan'[m].held.state = scan[m].held.state
                   /\ scan'[m].held.owner = scan[m].held.owner
                   /\ scan'[m].held.age >= scan[m].held.age)
  <2>1. /\ aside'[m] = Aged(aside[m]) /\ watched'[m] = Noted(m, watched[m])
        /\ scan'[m] = [scan[m] EXCEPT !.held = Held(m)]
    BY Zenon DEF Tick
  <2>2. /\ aside[m] \in Claim \cup {Missing} /\ watched[m] \in Observation /\ scan[m] \in Scan
        /\ watched[m].owner # m
    BY <1>1 DEF Types, IInv, Watches
  <2>3. scan[m].held \in Claim \cup {Missing}
    BY <2>2 DEF Scan
  <2>4. PICK h : h = Held(m)
    OBVIOUS
  <2>5. /\ h \in Claim \cup {Missing}
        /\ h = Missing \/ (/\ h.state = scan[m].held.state /\ h.owner = scan[m].held.owner
                            /\ h.age >= scan[m].held.age)
    BY <2>3, <2>4, AgedIs DEF Held
  <2>6. scan'[m] \in Scan /\ scan'[m].pc = scan[m].pc /\ scan'[m].held = h
    BY <2>1, <2>2, <2>4, <2>5 DEF Scan
  <2>7. aside'[m] \in Claim \cup {Missing} /\ (aside'[m] = Missing <=> aside[m] = Missing)
    BY <2>1, <2>2, AgedIs
  <2>8. /\ watched'[m] \in Observation /\ watched'[m].owner # m
        /\ \/ watched'[m].owner = NoMachine
           \/ /\ watched'[m].owner = watched[m].owner
              /\ \A p, q \in 0..MaxAhead :
                   watched[m].silence + p <= watched[m].age + q =>
                     watched'[m].silence + p <= watched'[m].age + q
    BY <2>1, <2>2, NotedIs
  <2>9. Silent(m) => Silent(m)'
    <3>1. SUFFICES ASSUME Silent(m), watched'[m].owner \in Machine
                   PROVE  \E k \in Machine \ {m} :
                            watched'[m].silence + Ahead[watched'[m].owner] <= watched'[m].age + Ahead[k]
      BY Zenon DEF Silent
    <3>2. watched'[m].owner = watched[m].owner
      BY <2>8, <3>1, Bounds
    <3>3. PICK k \in Machine \ {m} :
            watched[m].silence + Ahead[watched[m].owner] <= watched[m].age + Ahead[k]
      BY <3>1, <3>2 DEF Silent
    <3>4. Ahead[watched[m].owner] \in 0..MaxAhead /\ Ahead[k] \in 0..MaxAhead
      BY <3>1, <3>2, IntakeAssumption
    <3> QED BY <2>8, <3>1, <3>2, <3>3, <3>4, Bounds
  <2> QED BY <2>5, <2>6, <2>7, <2>8, <2>9
<1>4. Types'
  <2>1. /\ aside' = [m \in Machine |-> aside'[m]]
        /\ watched' = [m \in Machine |-> watched'[m]]
        /\ scan' = [m \in Machine |-> scan'[m]]
    BY DEF Tick
  <2> QED BY <1>2, <1>3, <2>1, Zenon DEF Types
<1>5. ASSUME NEW m \in Machine
      PROVE  Watches(m)' /\ Renamed(m)' /\ Silent(m)' /\ Stale(m)'
  <2>1. Renamed(m) /\ (Silent(m) /\ Stale(m)) /\ scan[m].held \in Claim \cup {Missing}
    BY <1>1 DEF IInv, Types, Scan
  <2>2. Stale(m) => Stale(m)'
    <3>1. SUFFICES ASSUME Stale(m), scan'[m].pc \in {"aside", "settle"}, scan'[m].held # Missing
                   PROVE  scan'[m].held.state = "claimed" /\ IsOverTwice(scan'[m].held, m)
      BY Zenon DEF Stale, IsOverTwice, IsOver
    <3>2. PICK c : c = scan[m].held
      OBVIOUS
    <3>3. PICK d : d = scan'[m].held
      OBVIOUS
    <3>4. d.state = c.state /\ d.owner = c.owner /\ d.age >= c.age /\ d \in Claim
      BY <1>3, <3>1, <3>2, <3>3 DEF Scan
    <3>5. c \in Claim
      BY <2>1, <3>2, <3>4 DEF Claim, Missing
    <3>6. c.state = "claimed" /\ IsOverTwice(c, m)
      BY <1>3, <3>1, <3>2, <3>5, Bounds DEF Stale
    <3>7. c.age \in Nat /\ d.age \in Nat /\ c.owner \in Machine
      BY <3>4, <3>5, Bounds DEF Claim
    <3>8. ASSUME NEW k \in Machine, IsOver(c, k) PROVE IsOver(d, k)
      BY <3>4, <3>7, <3>8, Bounds DEF IsOver
    <3> QED BY <3>3, <3>4, <3>6, <3>8 DEF IsOverTwice
  <2> QED BY <1>3, <2>1, <2>2 DEF Watches, Renamed
<1> QED BY <1>3, <1>4, <1>5, Zenon DEF IInv

\* Every step keeps the invariant, and takes a claim over only in silence.
LEMMA EveryStep ==
  ASSUME IInv, [Next]_vars
  PROVE  IInv' /\ \A m \in Machine : TakenByTwoClocks(m)
<1>1. CASE UNCHANGED <<claim, aside, watched, scan>>
  BY <1>1, NothingClaimed DEF TakenByTwoClocks
<1>2. CASE Tick
  BY <1>2, TickStep DEF TakenByTwoClocks
<1>3. ASSUME NEW m \in Machine, Step(m) \/ Crash(m) \/ update_config(m)
      PROVE  IInv' /\ \A k \in Machine : TakenByTwoClocks(k)
  <2>1. IInv' /\ Others(m) /\ TakenByTwoClocks(m)
    BY <1>3, OtherSteps, ConsiderStep, AcquireStep, TakeOverStep, SettleStep, ForgetStep DEF Step
  <2>2. ASSUME NEW k \in Machine \ {m} PROVE TakenByTwoClocks(k)
    BY <2>1 DEF Others, TakenByTwoClocks
  <2> QED BY <2>1, <2>2
<1>4. ASSUME NEW m \in Machine,
             \/ ReadingFails(m) \/ BeginFiling(m) \/ EndFiling(m) \/ Command(m)
             \/ Sync(m) \/ Answer(m) \/ Restart(m)
      PROVE  UNCHANGED <<claim, aside, watched, scan>>
  BY <1>4 DEF ReadingFails, BeginFiling, EndFiling, Command, Sync, Answer, Restart, folderVars
<1>5. Delete => UNCHANGED <<claim, aside, watched, scan>>
  BY DEF Delete
<1> QED BY <1>1, <1>2, <1>3, <1>4, <1>5 DEF Next, vars, folderVars

\* At first nothing is claimed and nothing watched.
LEMMA AtFirst == Init => IInv
<1> SUFFICES ASSUME Init PROVE IInv
  OBVIOUS
<1>1. Unobserved \in Observation /\ Rest \in Scan /\ Missing \in Claim \cup {Missing}
  <2>1. 0 \in 0..Oldest /\ 0 \in 0..CLAIM_LEASE /\ NoMachine \in Machine \cup {NoMachine}
    BY Bounds
  <2>2. "idle" \in ScanPoint /\ Missing \in Claim \cup {Missing}
    BY DEF ScanPoint
  <2> QED BY <2>1, <2>2, Zenon DEF Unobserved, Observation, Rest, Scan
<1>2. Types
  BY <1>1, Zenon DEF Init, Types
<1>3. ASSUME NEW m \in Machine
      PROVE  Watches(m) /\ Renamed(m) /\ Silent(m) /\ Stale(m)
  BY Bounds DEF Init, Unobserved, Rest, Watches, Renamed, Silent, Stale
<1> QED BY <1>2, <1>3 DEF IInv

-----------------------------------------------------------------------------
(* What the machines and their queues are *)

\* The half of the types that the claims do not need.
HostTypes ==
  /\ present \in BOOLEAN
  /\ memory \in [Machine -> Memory]
  /\ row \in [Machine -> Row]
  /\ hydrated \in [Machine -> BOOLEAN]
  /\ verdict \in [Machine -> {"admitted", "unknown", "other"}]
  /\ up \in [Machine -> BOOLEAN]

\* A machine that does not run remembers nothing, and nothing is left renamed
\* aside but by a takeover that has still to be settled.
Down(m) == up[m] \/ (memory[m] = Forgetful /\ scan[m] = Rest)
PutAside(m) == aside[m] # Missing => scan[m].pc = "settle"

\* What a step of m's scan does to the rest of it.
ScanKeeps(m) ==
  /\ memory' \in [Machine -> Memory] /\ row' \in [Machine -> Row]
  /\ hydrated' \in [Machine -> BOOLEAN]
  /\ \A k \in Machine \ {m} : memory'[k] = memory[k]

\* What a watcher remembers is two truth values, however it is changed.
LEMMA MemoryIs ==
  ASSUME HostTypes, NEW m \in Machine
  PROVE  /\ memory' = memory =>
              memory' \in [Machine -> Memory] /\ \A k \in Machine \ {m} : memory'[k] = memory[k]
         /\ \A r \in Memory : memory' = [memory EXCEPT ![m] = r] =>
              memory' \in [Machine -> Memory] /\ \A k \in Machine \ {m} : memory'[k] = memory[k]
         /\ Forgetful \in Memory
         /\ \A waits \in BOOLEAN : [owned |-> TRUE, awaiting_hydration |-> waits] \in Memory
         /\ memory[m].awaiting_hydration \in BOOLEAN
         /\ [memory[m] EXCEPT !.owned = TRUE] \in Memory
<1>1. memory[m] \in Memory
  BY DEF HostTypes
<1>2. Forgetful \in Memory
  BY Zenon DEF Forgetful, Memory
<1>3. \A waits \in BOOLEAN : [owned |-> TRUE, awaiting_hydration |-> waits] \in Memory
  BY Zenon DEF Memory
<1>4. memory[m].awaiting_hydration \in BOOLEAN /\ [memory[m] EXCEPT !.owned = TRUE] \in Memory
  BY <1>1 DEF Memory
<1> QED BY <1>2, <1>3, <1>4 DEF HostTypes

\* forget, release, renew and mark_done leave a memory behind.
LEMMA Remembers ==
  ASSUME HostTypes, NEW m \in Machine
  PROVE  /\ \/ memory' = [memory EXCEPT ![m] = Forgetful]
            \/ memory' = [memory EXCEPT ![m].owned = TRUE]
            \/ \E waits \in BOOLEAN :
                 memory' = [memory EXCEPT ![m] = [owned |-> TRUE, awaiting_hydration |-> waits]]
            \/ memory' = memory
            => memory' \in [Machine -> Memory] /\ \A k \in Machine \ {m} : memory'[k] = memory[k]
<1>1. memory' = [memory EXCEPT ![m].owned = TRUE] =>
        memory' = [memory EXCEPT ![m] = [memory[m] EXCEPT !.owned = TRUE]]
  OBVIOUS
<1> QED BY <1>1, MemoryIs

\* A row that is abandoned is a row.
LEMMA RowIs ==
  ASSUME HostTypes, NEW m \in Machine
  PROVE  /\ row' = [row EXCEPT ![m] = Abandoned(@)] => row' \in [Machine -> Row]
         /\ \A r \in Row : row' = [row EXCEPT ![m] = r] => row' \in [Machine -> Row]
         /\ row' = row => row' \in [Machine -> Row]
         /\ row[m] \in Row
<1>1. row[m] \in Row /\ Abandoned(row[m]) \in Row
  BY DEF HostTypes, Abandoned, Row
<1> QED BY <1>1 DEF HostTypes

\* manage_owned decides by the row, and writes none.
LEMMA OwnedKeeps ==
  ASSUME HostTypes, NEW m \in Machine, manage_owned(m), UNCHANGED row
  PROVE  ScanKeeps(m)
<1>1. hydrated' \in [Machine -> BOOLEAN]
  BY DEF manage_owned, finish_failed, HostTypes
<1>2. \/ memory' = [memory EXCEPT ![m] = Forgetful]
      \/ memory' = [memory EXCEPT ![m].owned = TRUE]
      \/ \E waits \in BOOLEAN :
           memory' = [memory EXCEPT ![m] = [owned |-> TRUE, awaiting_hydration |-> waits]]
  BY MemoryIs DEF manage_owned, finish_failed, release, renew, mark_done
<1> QED BY <1>1, <1>2, Remembers, RowIs DEF ScanKeeps

\* So does every step of a scan: what it enqueues is active, what it gives up
\* is canceled.
LEMMA StepKeeps ==
  ASSUME HostTypes, NEW m \in Machine, Step(m)
  PROVE  ScanKeeps(m) /\ UNCHANGED <<present, verdict, up>> /\ up[m]
<1>1. UNCHANGED <<present, verdict, up>> /\ up[m]
  BY DEF Step, manage_admitted, finish_unseen_owned, write_renewal, write_done, remove_claim,
         consider, acquire, create, take_over, settle_takeover, confirm, enqueue, At,
         folderVars, hostVars
<1> SUFFICES ScanKeeps(m)
  BY <1>1
<1>2. CASE manage_admitted(m) \/ finish_unseen_owned(m)
  <2>1. CASE manage_owned(m) /\ UNCHANGED row
    BY <2>1, OwnedKeeps
  <2>2. CASE /\ hydrated' = hydrated
             /\ row' = [row EXCEPT ![m] = Abandoned(@)] \/ row' = row
             /\ \/ release(m) \/ forget(m)
                \/ renew(m, memory[m].awaiting_hydration, "renewInDoubt")
    <3>1. \/ memory' = [memory EXCEPT ![m] = Forgetful]
          \/ \E waits \in BOOLEAN :
               memory' = [memory EXCEPT ![m] = [owned |-> TRUE, awaiting_hydration |-> waits]]
      BY <2>2, MemoryIs DEF forget, release, renew
    <3> QED BY <2>2, <3>1, Remembers, RowIs DEF ScanKeeps, HostTypes
  <2> QED BY <1>2, <2>1, <2>2 DEF manage_admitted, finish_unseen_owned, forget
<1>3. CASE enqueue(m)
  <2>1. hydrated' = hydrated
    BY <1>3 DEF enqueue
  <2>2. \/ row' = [row EXCEPT ![m] = IF row[m] = "none" THEN "active" ELSE row[m]]
        \/ row' = row
    BY <1>3 DEF enqueue
  <2>3. \/ memory' = [memory EXCEPT ![m] = Forgetful]
        \/ memory' = [memory EXCEPT ![m].owned = TRUE]
    BY <1>3 DEF enqueue, release
  <2>4. row' \in [Machine -> Row]
    BY <2>2, RowIs DEF Row
  <2> QED BY <2>1, <2>3, <2>4, Remembers DEF ScanKeeps, HostTypes
<1>4. CASE write_renewal(m) \/ write_done(m)
  <2>1. hydrated' = hydrated
    BY <1>4 DEF write_renewal, write_done, hostVars
  <2>2. row' = [row EXCEPT ![m] = Abandoned(@)] \/ row' = row
    BY <1>4 DEF write_renewal, write_done, hostVars, forget
  <2>3. memory' = [memory EXCEPT ![m] = Forgetful] \/ memory' = memory
    BY <1>4 DEF write_renewal, write_done, forget
  <2> QED BY <2>1, <2>2, <2>3, Remembers, RowIs DEF ScanKeeps, HostTypes
<1>5. CASE UNCHANGED <<memory, hostVars>>
  BY <1>5, Remembers DEF hostVars, ScanKeeps, HostTypes
<1> QED BY <1>2, <1>3, <1>4, <1>5
        DEF Step, remove_claim, consider, acquire, create, take_over, settle_takeover, confirm

\* The types hold at first.
LEMMA FirstTypes == Init => IntakeTypeOK
<1> SUFFICES ASSUME Init PROVE IntakeTypeOK
  OBVIOUS
<1>1. Types
  BY AtFirst DEF IInv
<1>2. HostTypes
  <2>1. Forgetful \in Memory
    BY Zenon DEF Forgetful, Memory
  <2> QED BY <2>1 DEF Init, HostTypes, Row
<1>3. ASSUME NEW m \in Machine PROVE Down(m) /\ PutAside(m)
  BY <1>3 DEF Init, Down, PutAside
<1> QED BY <1>1, <1>2, <1>3 DEF IntakeTypeOK, Types, HostTypes, Down, PutAside

\* A claim is renamed aside on the way to settling it, and by nothing else.
LEMMA AsideSettles ==
  ASSUME IInv, NEW m \in Machine, PutAside(m), Step(m)
  PROVE  PutAside(m)'
<1>1. Types /\ scan[m].pc \in ScanPoint /\ aside[m] \in Claim \cup {Missing}
  BY DEF IInv, Types, Scan
<1>2. CASE take_over(m)
  <2>1. scan[m].pc # "settle"
    BY <1>2 DEF take_over, At
  <2>2. CASE scan' = [scan EXCEPT ![m].pc = "settle"]
    BY <1>1, <2>2 DEF Types, Scan, PutAside
  <2>3. CASE aside' = aside
    BY <2>1, <2>3 DEF PutAside
  <2> QED BY <1>2, <2>2, <2>3 DEF take_over
<1>3. CASE settle_takeover(m)
  BY <1>1, <1>3 DEF settle_takeover, Types, PutAside
<1>4. CASE ~ take_over(m) /\ ~ settle_takeover(m)
  <2>1. aside' = aside /\ scan[m].pc # "settle"
    BY <1>4 DEF Step, manage_admitted, finish_unseen_owned, write_renewal, write_done,
                remove_claim, consider, acquire, create, confirm, enqueue, At, folderVars
  <2> QED BY <2>1 DEF PutAside
<1> QED BY <1>2, <1>3, <1>4

\* Time passes for what is there; what is not there stays away.
LEMMA TimeKeeps ==
  ASSUME IInv, Tick, NEW m \in Machine, Down(m), PutAside(m)
  PROVE  Down(m)' /\ PutAside(m)'
<1>1. scan[m] \in Scan /\ aside[m] \in Claim \cup {Missing} /\ Missing \in Claim \cup {Missing}
  BY DEF IInv, Types
<1>2. scan'[m] = [scan[m] EXCEPT !.held = Held(m)] /\ scan'[m].pc = scan[m].pc
  BY <1>1 DEF Tick, Scan
<1>3. aside'[m] = Missing <=> aside[m] = Missing
  BY <1>1, AgedIs DEF Tick
<1>4. PutAside(m)'
  BY <1>2, <1>3 DEF PutAside
<1>5. scan[m] = Rest => scan'[m] = Rest
  <2> SUFFICES ASSUME scan[m] = Rest PROVE scan'[m] = Rest
    OBVIOUS
  <2>1. Held(m) = Missing
    BY <1>1, AgedIs DEF Held, Rest
  <2> QED BY <1>2, <2>1 DEF Rest
<1>6. Down(m)'
  BY <1>5 DEF Down, Tick
<1> QED BY <1>4, <1>6

\* Every step keeps the types.
LEMMA NextKeepsTypes ==
  ASSUME IInv, IntakeTypeOK, [Next]_vars
  PROVE  IntakeTypeOK'
<1>1. Types' /\ IInv'
  BY EveryStep DEF IInv
<1>2. HostTypes /\ \A m \in Machine : Down(m) /\ PutAside(m)
  BY DEF IntakeTypeOK, HostTypes, Down, PutAside
<1>3. SUFFICES HostTypes' /\ \A m \in Machine : Down(m)' /\ PutAside(m)'
  BY <1>1 DEF IntakeTypeOK, Types, HostTypes, Down, PutAside
<1>4. CASE UNCHANGED vars
  BY <1>2, <1>4, Zenon DEF vars, folderVars, hostVars, HostTypes, Down, PutAside
<1>5. CASE Tick
  <2>1. HostTypes'
    BY <1>2, <1>5 DEF Tick, HostTypes, hostVars
  <2> QED BY <1>2, <1>5, <2>1, TimeKeeps
<1>6. CASE Delete
  BY <1>2, <1>6 DEF Delete, HostTypes, hostVars, Down, PutAside
<1>7. ASSUME NEW m \in Machine, Step(m)
      PROVE  HostTypes' /\ \A k \in Machine : Down(k)' /\ PutAside(k)'
  <2>1. ScanKeeps(m) /\ UNCHANGED <<present, verdict, up>> /\ up[m] /\ Others(m)
    <3>1. Others(m)
      BY <1>7, OtherSteps, ConsiderStep, AcquireStep, TakeOverStep, SettleStep DEF Step
    <3> QED BY <1>2, <1>7, <3>1, StepKeeps
  <2>2. HostTypes'
    BY <1>2, <2>1 DEF HostTypes, ScanKeeps
  <2>3. ASSUME NEW k \in Machine \ {m} PROVE Down(k)' /\ PutAside(k)'
    BY <1>2, <2>1 DEF Down, PutAside, Others, ScanKeeps
  <2>4. Down(m)' /\ PutAside(m)'
    BY <1>2, <1>7, <2>1, AsideSettles DEF Down
  <2> QED BY <2>2, <2>3, <2>4
<1>8. ASSUME NEW m \in Machine, Crash(m) \/ update_config(m)
      PROVE  HostTypes' /\ \A k \in Machine : Down(k)' /\ PutAside(k)'
  <2>1. memory' = [memory EXCEPT ![m] = Forgetful] /\ Forgetful \in Memory
    BY <1>2, <1>8, MemoryIs DEF Crash, update_config
  <2>2. HostTypes'
    BY <1>2, <1>8, <2>1 DEF Crash, update_config, HostTypes, hostVars, folderVars
  <2>3. ASSUME NEW k \in Machine PROVE Down(k)'
    BY <1>1, <1>2, <1>8, <2>1 DEF Crash, update_config, Down, HostTypes, IInv, Types, folderVars
  <2>4. ASSUME NEW k \in Machine PROVE PutAside(k)'
    BY <1>2, <1>8 DEF Crash, update_config, PutAside, folderVars, IInv, Types
  <2> QED BY <2>2, <2>3, <2>4
<1>9. ASSUME NEW m \in Machine,
             \/ ReadingFails(m) \/ BeginFiling(m) \/ EndFiling(m) \/ Command(m)
             \/ Sync(m) \/ Answer(m) \/ Restart(m)
      PROVE  HostTypes' /\ \A k \in Machine : Down(k)' /\ PutAside(k)'
  <2>1. UNCHANGED <<memory, aside, scan>> /\ \A k \in Machine : up[k] => up'[k]
    BY <1>2, <1>9 DEF ReadingFails, BeginFiling, EndFiling, Command, Sync, Answer, Restart,
                      folderVars, hostVars, HostTypes
  <2>2. row' \in [Machine -> Row] /\ present' \in BOOLEAN
    BY <1>2, <1>9, RowIs DEF ReadingFails, BeginFiling, EndFiling, Command, Sync, Answer, Restart,
                             folderVars, hostVars, HostTypes, Row
  <2>3. /\ hydrated' \in [Machine -> BOOLEAN] /\ up' \in [Machine -> BOOLEAN]
        /\ verdict' \in [Machine -> {"admitted", "unknown", "other"}]
    BY <1>2, <1>9 DEF ReadingFails, BeginFiling, EndFiling, Command, Sync, Answer, Restart,
                      hostVars, HostTypes
  <2> QED BY <1>2, <2>1, <2>2, <2>3 DEF HostTypes, Down, PutAside
<1> QED BY <1>4, <1>5, <1>6, <1>7, <1>8, <1>9 DEF Next

-----------------------------------------------------------------------------
(* What is proved *)

\* What a scan has judged stale, and what it watches, is what it takes it for.
THEOREM IntakeInvariance == Spec => []IInv
BY AtFirst, EveryStep, PTL DEF Spec

\* Every variable keeps its type, for any number of machines; a machine that
\* does not run remembers nothing, and a claim is renamed aside only while the
\* takeover that did it is being settled (take_over, settle_takeover).
THEOREM IntakeTypes == Spec => []IntakeTypeOK
<1>1. IInv /\ IntakeTypeOK /\ [Next]_vars => IntakeTypeOK'
  BY NextKeepsTypes
<1> QED BY <1>1, FirstTypes, IntakeInvariance, PTL DEF Spec

\* A machine takes a claim over only when its own clock and the clock of a
\* machine it watches say that the lease is over, and never over a claim
\* written since it was judged (is_takeable, take_over).
THEOREM TwoClocksSaySo == Spec => [][\A m \in Machine : TakenByTwoClocks(m)]_vars
<1>1. IInv /\ [Next]_vars => [\A m \in Machine : TakenByTwoClocks(m)]_vars
  BY EveryStep
<1> QED BY <1>1, IntakeInvariance, PTL DEF Spec

\* Where the machines a reader watches agree on the time, that is the truth,
\* whatever the reader's own clock says: so for any two machines, and for any
\* number of them whose clocks agree.
THEOREM SilenceIsTrue ==
  ASSUME \A m \in Machine : OthersAgree(m)
  PROVE  Spec => TakenOverOnlyInSilence
<1>1. ASSUME IInv, [Next]_vars PROVE [\A m \in Machine : TakenInSilence(m)]_vars
  <2>1. ASSUME NEW m \in Machine PROVE TakenInSilence(m)
    <3>1. SUFFICES ASSUME scan[m].pc = "settle", scan'[m].pc = "confirm"
                   PROVE  /\ claim = Missing /\ aside[m].state = "claimed"
                          /\ aside[m].age >= CLAIM_LEASE
      BY DEF TakenInSilence
    <3>2. claim = Missing /\ aside[m].state = "claimed" /\ IsOverTwice(aside[m], m)
      BY <1>1, <3>1, EveryStep DEF TakenByTwoClocks
    <3>3. aside[m] \in Claim
      BY <1>1, <3>1 DEF IInv, Types, Renamed
    <3>4. aside[m].owner \in Machine \ {m} /\ aside[m].age \in Nat
      BY <3>2, <3>3, Bounds DEF IsOverTwice, Claim
    <3>5. PICK k \in Machine \ {m} : IsOver(aside[m], k)
      BY <3>2 DEF IsOverTwice
    <3>6. Ahead[k] = Ahead[aside[m].owner] /\ Ahead[k] \in Nat
      BY <3>4, <3>5, Bounds DEF OthersAgree
    <3> QED BY <3>2, <3>4, <3>5, <3>6, Bounds DEF IsOver
  <2> QED BY <2>1
<1>2. IInv /\ [Next]_vars => [\A m \in Machine : TakenInSilence(m)]_vars
  BY <1>1
<1> QED BY <1>2, IntakeInvariance, PTL DEF Spec, TakenOverOnlyInSilence
=============================================================================
