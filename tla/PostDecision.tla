---------------------------- MODULE PostDecision ----------------------------
(***************************************************************************)
(* A case after its decision was reviewed: the attestation, the automatic  *)
(* appeal of a party, the acceptance of the decision by both parties as    *)
(* their agreement, the award of the arbitrator, the record of the outcome *)
(* (the "auto") and the optional payment.  A case closed by an agreement   *)
(* only has its record and its payment.                                    *)
(*                                                                         *)
(* A request reads the case once and decides on what it read; a job runs   *)
(* the appeal in the background.                                           *)
(***************************************************************************)
EXTENDS Settlement, FiniteSets

CONSTANTS
  Requests,      \* slots for HTTP requests in progress
  Job,           \* the slot of the background job
  MaxRequests,   \* bound on the requests, by mode
  MaxFaults,     \* bound on crashes, failed appeals and lost jobs
  Modes          \* how requests come, of Mode

Party == {"claimant", "respondent"}
Arbitrator == "arbitrator"
Staff == "staff"

(* "faulty": requests and jobs die; "overlap": requests interleave at      *)
(* every commit.  Otherwise one actor writes at a time, and a job lets the *)
(* others act while its model is running.                                  *)
Mode == {"calm", "faulty", "overlap"}

ASSUME PostDecisionAssumption ==
  /\ MaxRequests \in [Mode -> Nat] /\ MaxFaults \in Nat
  /\ Modes \subseteq Mode
  /\ Job \notin Requests

VARIABLES
  case,      \* the columns of the Case row and the rows that hang from it
  clock,     \* where the deadlines of the attestation stand
  sess,      \* the requests and the job: point, act, actor, view
  mode, requests, faults

vars == <<case, clock, sess, mode, requests, faults, payments, checkout, events>>

-----------------------------------------------------------------------------
(* The rows.                                                               *)

Decision == {"original", "corrected"}

(* The audit event decision_accepted, and the arbitrator's.                *)
Acceptance == [party : Party, hash : Decision, decision : Decision]
Award == [made : BOOLEAN, adopted : BOOLEAN, decision : Decision, attested : BOOLEAN]
NoAward == [made |-> FALSE, adopted |-> FALSE, decision |-> "original", attested |-> FALSE]

(* What, when it changes, calls for a new record.                          *)
BasisOf == [kind : {"none", "decision", "agreement"}, decision : Decision,
            hash : Decision \cup {"none"}, award : Award, accepted : BOOLEAN,
            appeal : {"none", "processing", "corrected", "upheld"}]

Case == [status     : {"agreement", "reviewed", "processing_attestation", "attested",
                       "processing_appeal", "contested"},
         started    : {"none", "fresh", "stale"},    \* processing_started_at
         decision   : Decision,                      \* decision_json
         hash       : Decision \cup {"none"},        \* of attestation_json
         record     : Decision \cup {"none"},        \* the last of attestation_records
         contested  : BOOLEAN,
         appeal     : {"none", "processing", "corrected", "upheld"},
         accepted   : SUBSET Acceptance,
         award      : Award,
         designated : BOOLEAN,                       \* an arbitrator, in the manifest
         autos      : Nat,                           \* decision_records_json: how many
         basis      : BasisOf]                       \* and the basis of the last one

Act == {"attest", "contest", "accept", "award", "record", "pay"}

Session == [pc : {"idle", "loaded", "claimed", "saved", "running", "reload", "issue", "charge"},
            act : Act, actor : Party \cup {Arbitrator, Staff},
            view : Case, was : {"pending", "paid", "failed", "expired"}]

-----------------------------------------------------------------------------
(* What the routes derive from a view of the case.                         *)

Pending(v) == v.appeal = "processing"

(* The attestation that stands, a record only where there is none.         *)
CurrentHash(v) == IF v.hash # "none" THEN v.hash ELSE v.record

HasAccepted(v, p) == \E a \in v.accepted : a.party = p /\ a.hash = CurrentHash(v)

Complete(v) == \A p \in Party : HasAccepted(v, p)

(* The kind of outcome; none while a stage or an appeal is under way.      *)
OutcomeKind(v) ==
  CASE v.status \in {"processing_attestation", "processing_appeal"} -> "none"
    [] v.status = "agreement" -> "agreement"
    [] v.contested /\ Pending(v) -> "none"
    [] OTHER -> "decision"

(* An adopted award prevails over the acceptance.                          *)
Basis(v) ==
  [kind |-> OutcomeKind(v), decision |-> v.decision, hash |-> v.hash,
   award |-> v.award, appeal |-> v.appeal,
   accepted |-> OutcomeKind(v) = "decision" /\ ~v.award.adopted /\ Complete(v)]

(* Mutant of Eligible: the arbitrator's award is not looked at.            *)
EligibleDespiteAward(v) ==
  /\ v.status \notin {"processing_attestation", "processing_appeal"}
  /\ CurrentHash(v) # "none"
  /\ ~Pending(v) /\ (v.contested => v.appeal # "none")
  /\ v.hash # "none" /\ clock # "reflection"

(* acceptance.eligibility: whether the decision can be accepted now.       *)
Eligible(v) ==
  /\ v.status \notin {"processing_attestation", "processing_appeal"}
  /\ CurrentHash(v) # "none"
  /\ ~Pending(v) /\ (v.contested => v.appeal # "none")
  /\ ~v.award.adopted
  /\ v.hash # "none" /\ clock # "reflection"

(* arbitration.decision_is_final: the attestation, if there is one, can no *)
(* longer be contested.                                                    *)
DecisionIsFinal(v) ==
  /\ ~Pending(v)
  /\ v.hash # "none" /\ v.appeal = "none" => clock = "closed"

(* settlement_offer: the key of the charge on offer, or none.              *)
Offer(v) ==
  CASE v.status = "agreement" -> "proposal"
    [] /\ v.status # "agreement"
       /\ v.hash # "none" /\ v.record # "none"
       /\ ~Pending(v)
       /\ clock = "closed" \/ v.appeal # "none" \/ Complete(v) -> v.record
    [] OTHER -> "none"

-----------------------------------------------------------------------------
(* Requests.                                                               *)

V(s) == sess[s].view
At(s, point) == sess[s].pc = point
Doing(s, act) == At(s, "loaded") /\ sess[s].act = act

Idle == [pc |-> "idle", act |-> "record", actor |-> Staff, was |-> "pending",
         view |-> [status |-> "reviewed", started |-> "none", decision |-> "original",
                   hash |-> "none", record |-> "none", contested |-> FALSE,
                   appeal |-> "none", accepted |-> {}, award |-> NoAward,
                   designated |-> FALSE, autos |-> 0,
                   basis |-> [kind |-> "none", decision |-> "original", hash |-> "none",
                              award |-> NoAward, accepted |-> FALSE, appeal |-> "none"]]]

Finish(s) == sess' = [sess EXCEPT ![s] = Idle]
Goto(s, point, view) == sess' = [sess EXCEPT ![s].pc = point, ![s].view = view]

Turn(s) == mode # "overlap" => \A o \in DOMAIN sess \ {s} : sess[o].pc \in {"idle", "running"}

Actors(act) ==
  CASE act \in {"contest", "accept"} -> Party
    [] act = "award" -> {Arbitrator}
    [] act = "attest" -> {Staff}
    [] act = "record" -> {Staff}
    [] act = "pay" -> {"respondent"}

Load(s) ==
  /\ Turn(s)
  /\ At(s, "idle")
  /\ requests < MaxRequests[mode]
  /\ requests' = requests + 1
  /\ \E act \in Act : \E who \in Actors(act) :
       sess' = [sess EXCEPT ![s] = [pc |-> "loaded", act |-> act, actor |-> who,
                                    view |-> case, was |-> "pending"]]
  /\ UNCHANGED <<case, clock, mode, faults, settlementVars>>

(* Any refusal of a route before it writes, or an answer already there.    *)
Refuse(s) ==
  /\ At(s, "loaded")
  /\ Finish(s)
  /\ UNCHANGED <<case, clock, mode, requests, faults, settlementVars>>

(* claim_case_stage: a claim of the view still running is busy, an         *)
(* abandoned one is taken again.                                           *)
ClaimMatches(v, from, processing) ==
  IF v.status = processing
  THEN v.started # "fresh" /\ case.status = processing
  ELSE case.status \in from

-----------------------------------------------------------------------------
(* Attestation.                                                            *)

(* Mutant of ClaimAttestation: any case not yet attested in the view.      *)
ClaimAttestationBlindly(s) ==
  /\ Doing(s, "attest")
  /\ V(s).hash = "none" /\ ~V(s).contested /\ V(s).status # "agreement"
  /\ case' = [case EXCEPT !.status = "processing_attestation", !.started = "fresh"]
  /\ Goto(s, "claimed", case')
  /\ UNCHANGED <<clock, mode, requests, faults, settlementVars>>

ClaimAttestation(s) ==
  /\ Doing(s, "attest")
  /\ V(s).hash = "none" /\ ~V(s).contested /\ V(s).status # "agreement"
  /\ ClaimMatches(V(s), {"reviewed"}, "processing_attestation")
  /\ case' = [case EXCEPT !.status = "processing_attestation", !.started = "fresh"]
  /\ Goto(s, "claimed", case')
  /\ UNCHANGED <<clock, mode, requests, faults, settlementVars>>

(* The attestation is committed, and only then its record.  Its deadlines  *)
(* run from now.                                                           *)
SaveAttestation(s) ==
  /\ At(s, "claimed") /\ sess[s].act = "attest"
  /\ case' = [case EXCEPT !.hash = V(s).decision, !.status = "attested"]
  /\ clock' = "reflection"
  /\ Goto(s, "saved", [V(s) EXCEPT !.hash = V(s).decision, !.status = "attested"])
  /\ UNCHANGED <<mode, requests, faults, settlementVars>>

SaveAttestationRecord(s) ==
  /\ At(s, "saved")
  /\ case' = [case EXCEPT !.record = V(s).hash]
  /\ Goto(s, "issue", [V(s) EXCEPT !.record = V(s).hash])
  /\ UNCHANGED <<clock, mode, requests, faults, settlementVars>>

-----------------------------------------------------------------------------
(* The appeal.                                                             *)

(* Who accepted does not appeal; a case contested once is not again.       *)
ClaimAppeal(s) ==
  /\ Doing(s, "contest")
  /\ V(s).hash # "none"
  /\ ~HasAccepted(V(s), sess[s].actor) /\ ~Complete(V(s))
  /\ ~V(s).contested
  /\ ClaimMatches(V(s), {"attested", "reviewed"}, "processing_appeal")
  /\ case' = [case EXCEPT !.status = "processing_appeal", !.started = "fresh"]
  /\ Goto(s, "claimed", case')
  /\ UNCHANGED <<clock, mode, requests, faults, settlementVars>>

(* The window is closed, the limit reached, a finding or a document        *)
(* unknown: the request ends, and leaves its claim behind.                 *)
RefuseAppeal(s) ==
  /\ At(s, "claimed") /\ sess[s].act = "contest"
  /\ Finish(s)
  /\ UNCHANGED <<case, clock, mode, requests, faults, settlementVars>>

(* Mutant of RegisterContest: the window is not looked at.                 *)
RegisterContestLate(s) ==
  /\ At(s, "claimed") /\ sess[s].act = "contest"
  /\ case.appeal = "none"
  /\ case' = [case EXCEPT !.appeal = "processing", !.contested = TRUE, !.status = "contested"]
  /\ sess' = [sess EXCEPT ![s] = Idle, ![Job].pc = "running", ![Job].view = case']
  /\ UNCHANGED <<clock, mode, requests, faults, settlementVars>>

(* Mutant of RegisterContest: the job is not submitted.                    *)
RegisterContestOnly(s) ==
  /\ At(s, "claimed") /\ sess[s].act = "contest"
  /\ clock # "closed"
  /\ case.appeal = "none"
  /\ case' = [case EXCEPT !.appeal = "processing", !.contested = TRUE, !.status = "contested"]
  /\ Finish(s)
  /\ UNCHANGED <<clock, mode, requests, faults, settlementVars>>

(* The appeal and the mark of the contest are committed, the job starts.   *)
RegisterContest(s) ==
  /\ At(s, "claimed") /\ sess[s].act = "contest"
  /\ clock # "closed"
  /\ case.appeal = "none"
  /\ case' = [case EXCEPT !.appeal = "processing", !.contested = TRUE, !.status = "contested"]
  /\ sess' = [sess EXCEPT ![s] = Idle, ![Job].pc = "running", ![Job].view = case']
  /\ UNCHANGED <<clock, mode, requests, faults, settlementVars>>

(* run_appeal: a correction that verifies and that the review approves     *)
(* replaces the decision and adds a record of attestation; the attestation *)
(* itself stays.  Anything else, a model that fails included, leaves the   *)
(* decision.                                                               *)
CompleteAppeal(outcome) ==
  LET corrected(c) == [c EXCEPT !.decision = "corrected",
                                !.record = "corrected", !.appeal = outcome]
      after(c) == IF outcome = "corrected" THEN corrected(c) ELSE [c EXCEPT !.appeal = outcome]
  IN  /\ Turn(Job)
      /\ At(Job, "running")
      /\ case' = after(case)
      /\ Goto(Job, "issue", after(V(Job)))
      /\ UNCHANGED <<clock, mode, requests, faults, settlementVars>>

(* The job raises: the appeal is deleted and the contest taken back.       *)
RevertContest ==
  /\ Turn(Job)
  /\ At(Job, "running")
  /\ faults < MaxFaults
  /\ faults' = faults + 1
  /\ case' = [case EXCEPT !.appeal = IF @ = "processing" THEN "none" ELSE @,
                          !.contested = FALSE, !.status = "attested", !.started = "none"]
  /\ Finish(Job)
  /\ UNCHANGED <<clock, mode, requests, settlementVars>>

-----------------------------------------------------------------------------
(* Acceptance and award.                                                   *)

(* The event is bound to the attestation in force and records the decision.*)
AcceptDecision(s) ==
  /\ Doing(s, "accept")
  /\ OutcomeKind(V(s)) = "decision"
  /\ ~HasAccepted(V(s), sess[s].actor)
  /\ Eligible(V(s))
  /\ case' = [case EXCEPT !.accepted = @ \cup
       {[party |-> sess[s].actor, hash |-> CurrentHash(V(s)), decision |-> V(s).decision]}]
  /\ Goto(s, "reload", V(s))
  /\ UNCHANGED <<clock, mode, requests, faults, settlementVars>>

(* The record is issued first if the view's is not current.                *)
SignAward(s, adopt) ==
  /\ Doing(s, "award")
  /\ V(s).designated
  /\ ~V(s).award.made
  /\ OutcomeKind(V(s)) = "decision"
  /\ ~Complete(V(s))
  /\ DecisionIsFinal(V(s))
  /\ LET current == V(s).basis = Basis(V(s))
         award == [made |-> TRUE, adopted |-> adopt, decision |-> V(s).decision,
                   attested |-> V(s).hash # "none"]
     IN  case' = [case EXCEPT !.award = award,
                    !.autos = IF current THEN @ ELSE V(s).autos + 1,
                    !.basis = IF current THEN @ ELSE Basis(V(s))]
  /\ Goto(s, "reload", V(s))
  /\ UNCHANGED <<clock, mode, requests, faults, settlementVars>>

(* The session is expired and the case read again; the record is issued    *)
(* for an award, and for an acceptance that completes.                     *)
Reload(s) ==
  /\ At(s, "reload")
  /\ IF sess[s].act = "award" \/ Complete(case) THEN Goto(s, "issue", case) ELSE Finish(s)
  /\ UNCHANGED <<case, clock, mode, requests, faults, settlementVars>>

-----------------------------------------------------------------------------
(* The record of the outcome.                                              *)

AskRecord(s) ==
  /\ Doing(s, "record")
  /\ Goto(s, "issue", V(s))
  /\ UNCHANGED <<case, clock, mode, requests, faults, settlementVars>>

(* Mutant of IssueRecord: the first record is kept.                        *)
IssueFirstRecord(s) ==
  /\ At(s, "issue")
  /\ case' = IF OutcomeKind(V(s)) = "none" \/ V(s).autos > 0 THEN case
             ELSE [case EXCEPT !.autos = V(s).autos + 1, !.basis = Basis(V(s))]
  /\ Finish(s)
  /\ UNCHANGED <<clock, mode, requests, faults, settlementVars>>

(* A new version only when what it registers has changed.  The column is   *)
(* written whole from the session's view.                                  *)
IssueRecord(s) ==
  /\ At(s, "issue")
  /\ case' = IF OutcomeKind(V(s)) = "none" \/ V(s).basis = Basis(V(s)) THEN case
             ELSE [case EXCEPT !.autos = V(s).autos + 1, !.basis = Basis(V(s))]
  /\ Finish(s)
  /\ UNCHANGED <<clock, mode, requests, faults, settlementVars>>

-----------------------------------------------------------------------------
(* The payment.                                                            *)

AskCheckout(s) ==
  /\ Doing(s, "pay")
  /\ Offer(V(s)) \in Key
  /\ payments' = FindOrCreate(Offer(V(s)))
  /\ IF MayCharge(payments[Offer(V(s))])
     THEN sess' = [sess EXCEPT ![s].pc = "charge", ![s].was = payments[Offer(V(s))].status]
     ELSE Finish(s)
  /\ UNCHANGED <<case, clock, mode, requests, faults, checkout, events>>

Charge(s) ==
  /\ At(s, "charge")
  /\ \E i \in SessionId : OpenSession(Offer(V(s)), i, sess[s].was)
  /\ Finish(s)
  /\ UNCHANGED <<case, clock, mode, requests, faults>>

(* Stripe refuses, or the bound on sessions is reached.                    *)
ChargeFails(s) ==
  /\ At(s, "charge")
  /\ Finish(s)
  /\ UNCHANGED <<case, clock, mode, requests, faults, settlementVars>>

-----------------------------------------------------------------------------
(* The environment.                                                        *)

(* The deadlines of the attestation go by: 24 hours to reflect, then the   *)
(* rest of the window of the appeal.                                       *)
TimePasses ==
  /\ case.hash # "none"
  /\ clock # "closed"
  /\ clock' = IF clock = "reflection" THEN "window" ELSE "closed"
  /\ UNCHANGED <<case, sess, mode, requests, faults, settlementVars>>

(* PROCESSING_TTL goes by; no request that claimed takes that long.        *)
TtlElapses ==
  /\ case.status \in {"processing_attestation", "processing_appeal"}
  /\ case.started = "fresh"
  /\ \A s \in Requests : ~At(s, "claimed")
  /\ case' = [case EXCEPT !.started = "stale"]
  /\ UNCHANGED <<clock, sess, mode, requests, faults, settlementVars>>

(* Operations give an abandoned stage back to the status before it.        *)
Unstick ==
  /\ case.started = "stale"
  /\ case.status \in {"processing_attestation", "processing_appeal"}
  /\ case' = [case EXCEPT !.started = "none",
       !.status = IF @ = "processing_appeal" THEN "attested" ELSE "reviewed"]
  /\ UNCHANGED <<clock, sess, mode, requests, faults, settlementVars>>

(* A request dies half way, a restart takes the job.                       *)
Die(s) ==
  /\ mode = "faulty"
  /\ ~At(s, "idle")
  /\ faults < MaxFaults
  /\ faults' = faults + 1
  /\ Finish(s)
  /\ UNCHANGED <<case, clock, mode, requests, settlementVars>>

Init ==
  /\ mode \in Modes
  /\ \E start \in {"agreement", "reviewed"}, designated \in BOOLEAN :
       LET blank == [Idle.view EXCEPT !.status = start, !.designated = designated]
       IN  case = [blank EXCEPT !.autos = 1, !.basis = Basis(blank)]
  /\ clock = "reflection"
  /\ sess = [s \in Requests \cup {Job} |-> Idle]
  /\ requests = 0
  /\ faults = 0
  /\ SettlementInit

Attesting(s) == ClaimAttestation(s) \/ SaveAttestation(s) \/ SaveAttestationRecord(s)

Contesting(s) == ClaimAppeal(s) \/ RefuseAppeal(s) \/ RegisterContest(s)

Closing(s) ==
  \/ AcceptDecision(s) \/ Reload(s) \/ AskRecord(s)
  \/ \E adopt \in BOOLEAN : SignAward(s, adopt)

Paying(s) == AskCheckout(s) \/ Charge(s) \/ ChargeFails(s)

Request(s) ==
  Refuse(s) \/ Attesting(s) \/ Contesting(s) \/ Closing(s) \/ IssueRecord(s) \/ Paying(s)

AppealJob ==
  \/ \E outcome \in {"corrected", "upheld"} : CompleteAppeal(outcome)
  \/ RevertContest \/ IssueRecord(Job)

Outside == Stripe /\ UNCHANGED <<case, clock, sess, mode, requests, faults>>

Webhook(e) == Deliver(e) /\ UNCHANGED <<case, clock, sess, mode, requests, faults>>

Next ==
  \/ \E s \in Requests : Load(s) \/ Request(s) \/ Die(s)
  \/ AppealJob \/ Die(Job)
  \/ Outside \/ \E e \in events : Webhook(e)
  \/ TimePasses \/ TtlElapses \/ Unstick

Spec == Init /\ [][Next]_vars

(* A request that has started ends, the appeal's job runs to its end, and  *)
(* Stripe delivers its events.                                             *)
Fairness ==
  /\ \A s \in Requests : WF_vars(Request(s))
  /\ WF_vars(AppealJob)
  /\ \A e \in Event : WF_vars(Webhook(e))

FairSpec == Spec /\ Fairness

-----------------------------------------------------------------------------
TypeOK ==
  /\ case \in Case
  /\ clock \in {"reflection", "window", "closed"}
  /\ sess \in [Requests \cup {Job} -> Session]
  /\ mode \in Modes
  /\ requests \in 0..MaxRequests[mode] /\ faults \in 0..MaxFaults
  /\ SettlementTypeOK

(* "Irrevogavel": what both parties accepted, what the arbitrator adopted  *)
(* once it was attested, and what the debtor was charged for.              *)
Settled ==
  \/ Complete(case)
  \/ case.award.adopted /\ case.award.attested
  \/ Used # {}

(* When requests do not overlap, no appeal corrects a decision that is     *)
(* settled: a window that closes, a contest that was claimed before it, an *)
(* appeal that fails and is taken back, a claim left behind.               *)
DecisionStands == [][mode # "overlap" /\ Settled => case'.decision = case.decision]_vars

(* "Acatamento e sentenca arbitral sao desfechos excludentes"              *)
(* (routes/arbitration.py): the case never ends with both; and every       *)
(* variable keeps its type.                                                *)
OneInstrument == TypeOK /\ (mode # "overlap" => ~(case.award.adopted /\ Complete(case)))

(* Every act that changes what the record registers issues it again: at    *)
(* rest its last version describes the case.                               *)
RecordCurrent ==
  (mode = "calm" /\ \A s \in DOMAIN sess : sess[s].pc \in {"idle", "running"})
    => OutcomeKind(case) = "none" \/ case.basis = Basis(case)

(* The debtor's money is taken once: a session that expires, a payment on  *)
(* its way, a webhook that is late and a corrected decision never make two *)
(* charges.                                                                *)
ChargedOnce == mode # "overlap" => Cardinality(Charged) <= 1

(* The window of the appeal is opened once, whoever issues the attestation *)
(* at the same time or again after a crash.                                *)
Later == [reflection |-> 0, window |-> 1, closed |-> 2]
AttestedOnce ==
  [][case.hash # "none" => case'.hash = case.hash /\ Later[clock'] >= Later[clock]]_vars

(* Money that Stripe has taken is on the row of the charge in the end.     *)
PaymentKnown == \A i \in SessionId : (mode # "overlap" /\ i \in Unrecorded) ~> i \notin Unrecorded

(* An appeal that was filed is judged or taken back, unless a restart      *)
(* takes its job: nothing starts that one again.                           *)
AppealEnds == (mode # "faulty" /\ Pending(case)) ~> ~Pending(case)

-----------------------------------------------------------------------------
(* What the code says and does not keep.                                   *)

(* domain/acceptance.py:13: an acceptance is bound to the attestation; if  *)
(* an appeal corrects the decision the earlier ones no longer count.  So   *)
(* both parties have accepted the decision that stands.                    *)
AcceptedAsItStands ==
  Complete(case) =>
    \A p \in Party : \E a \in case.accepted : a.party = p /\ a.decision = case.decision

=============================================================================
