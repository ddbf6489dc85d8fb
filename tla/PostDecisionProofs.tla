------------------------- MODULE PostDecisionProofs -------------------------
(***************************************************************************)
(* Theorems about PostDecision, for any sets of requests and any bounds:   *)
(* types, the single attestation, the decision that stands once it is      *)
(* settled, acceptance or award but never both, one charge, and a record   *)
(* of the outcome that is current at rest.                                 *)
(***************************************************************************)
EXTENDS PostDecision, FiniteSetTheorems, TLAPS

-----------------------------------------------------------------------------
(* The inductive invariant, part by part.                                  *)

Slots == Requests \cup {Job}

Claimed(s, act) == At(s, "claimed") /\ sess[s].act = act

(* A request asks for what its actor may ask for.                          *)
Asked == \A s \in Slots : At(s, "loaded") => sess[s].actor \in Actors(sess[s].act)

(* A claim of the attestation says since when; where requests overlap      *)
(* nobody dies, so it never goes stale.                                    *)
ClaimDated(v) ==
  v.status = "processing_attestation" =>
    v.started # "none" /\ (mode = "overlap" => v.started = "fresh")

(* Before the attestation nothing of what follows it exists; after it the  *)
(* case never returns to where it could be attested.                       *)
AttestedInOrder ==
  /\ case.hash = "none" =>
       /\ clock = "reflection" /\ case.record = "none" /\ case.accepted = {}
       /\ case.status \in {"agreement", "reviewed", "processing_attestation"}
  /\ case.hash # "none" =>
       case.status \notin {"agreement", "reviewed", "processing_attestation"}

(* At most one request is issuing the attestation, on a claim that is its. *)
OneAttester ==
  /\ ClaimDated(case)
  /\ mode = "overlap" /\ case.status = "processing_attestation" =>
       \E s \in Requests : Claimed(s, "attest")
  /\ \A s \in Slots :
       Claimed(s, "attest") => case.status = "processing_attestation" /\ case.started = "fresh"
  /\ \A s, t \in Slots : Claimed(s, "attest") /\ Claimed(t, "attest") => s = t

(* A view is of this case: it has no other attestation than the case has,  *)
(* and what follows the attestation is done by those who saw it.           *)
SessionOfCase(s) ==
  /\ s \in Requests => ~At(s, "running")
  /\ s = Job => sess[s].pc \in {"idle", "running", "issue"}
  /\ V(s).hash \in {"none", case.hash}
  /\ ClaimDated(V(s))
  /\ Claimed(s, "contest") \/ At(s, "saved") \/ (s = Job /\ ~At(s, "idle")) =>
       V(s).hash # "none"
  /\ At(s, "claimed") => sess[s].act \in {"attest", "contest"}
  /\ At(s, "charge") => Offer(V(s)) \in Key

ViewsOfCase == \A s \in Slots : SessionOfCase(s)

AttestInv == AttestedInOrder /\ OneAttester /\ ViewsOfCase

(* Without overlap one request, or the job after its model has answered,   *)
(* is under way at a time.                                                 *)
Active(s) == sess[s].pc \notin {"idle", "running"}

Alone == \A s, t \in Slots : Active(s) /\ Active(t) => s = t

(* What it sees is the case; only an abandoned claim may have been given   *)
(* back meanwhile.                                                         *)
Shows(row, v) ==
  /\ row.decision = v.decision /\ row.hash = v.hash /\ row.record = v.record
  /\ row.contested = v.contested /\ row.appeal = v.appeal
  /\ row.accepted = v.accepted /\ row.award = v.award /\ row.basis = v.basis
  /\ \/ row.status = v.status
     \/ v.status = "processing_appeal" /\ row.status = "attested"
     \/ v.status = "processing_attestation" /\ row.status = "reviewed"

UpToDate(s) ==
  /\ ~At(s, "idle") /\ ~At(s, "reload") => Shows(case, V(s))
  /\ At(s, "saved") => V(s).record = "none" /\ V(s).status = "attested"
  /\ At(s, "claimed") \/ At(s, "saved") => ~V(s).contested
  /\ Claimed(s, "contest") => ~Complete(V(s))
  /\ At(s, "reload") => OutcomeKind(case) = "decision"

(* While the appeal is being judged nothing of the case is settled; an     *)
(* award of an attested decision, and a charge, come when no appeal can    *)
(* change it.                                                              *)
Final == clock = "closed" \/ case.appeal \in {"corrected", "upheld"}

AppealFirst ==
  /\ Pending(case) => case.contested /\ case.hash # "none"
  /\ At(Job, "running") => Pending(case) /\ case.status = "contested" /\ ~Settled
  /\ case.award.attested => Final
  /\ Used # {} => \/ case.status = "agreement"
                  \/ case.record # "none" /\ (Final \/ Complete(case))

(* All charges are of one key, and all but the last have expired.          *)
KeyNow == IF case.status = "agreement" THEN "proposal" ELSE case.record

OneCharge ==
  /\ \A i \in Used :
       /\ checkout[i].key = KeyNow
       /\ checkout[i].state = "expired" \/ payments[checkout[i].key].session = i
  /\ \A s \in Slots : At(s, "charge") => \A i \in Used : checkout[i].state = "expired"

(* What the record must register, whatever stage is under way: a pending   *)
(* appeal may still be taken back.                                         *)
BasisDue ==
  LET kind == IF case.status = "agreement" THEN "agreement" ELSE "decision"
  IN  [kind |-> kind, decision |-> case.decision, hash |-> case.hash, award |-> case.award,
       appeal |-> IF Pending(case) THEN "none" ELSE case.appeal,
       accepted |-> kind = "decision" /\ ~case.award.adopted /\ Complete(case)]

(* Only a request that will issue the record leaves it behind the case.    *)
WillIssue(s) ==
  \/ At(s, "saved")
  \/ At(s, "reload") /\ (sess[s].act = "award" \/ Complete(case))
  \/ At(s, "issue") /\ OutcomeKind(V(s)) # "none"

RecordDue == (\A s \in Slots : ~WillIssue(s)) => case.basis = BasisDue

OneOutcome == ~(case.award.adopted /\ Complete(case))

Orderly == Alone /\ (\A s \in Slots : UpToDate(s)) /\ AppealFirst /\ OneOutcome /\ OneCharge

CalmInv == (mode # "overlap" => Orderly) /\ (mode = "calm" => RecordDue)

(* A session that the payer has not completed has none of the money.       *)
Unpaid ==
  \A i \in SessionId : checkout[i].state \in {"none", "open", "expired"} =>
    checkout[i].money = "none"

IInv == TypeOK /\ Asked /\ AttestInv /\ CalmInv /\ Unpaid

-----------------------------------------------------------------------------
(* Types.                                                                  *)

(* The values the model builds from are well typed.                        *)
LEMMA IdleTypes == /\ Idle \in Session /\ Idle.view \in Case /\ NoAward \in Award
                   /\ Idle.pc = "idle" /\ Idle.view.hash = "none"
                   /\ Idle.view.status = "reviewed" /\ Idle.act = "record"
BY DEF Idle, Session, Case, Act, NoAward, Award, BasisOf, Decision, Party, Staff

(* A view, and what it registers, are well typed.                          *)
LEMMA ViewTypes ==
  ASSUME TypeOK, NEW s \in Slots
  PROVE  /\ V(s) \in Case /\ sess[s] \in Session /\ case \in Case
         /\ sess[s].actor \in Party \cup {Arbitrator, Staff}
BY DEF TypeOK, Session, V, Slots

(* The kinds of outcome and the basis of a record.                         *)
LEMMA BasisTypes ==
  ASSUME NEW v \in Case
  PROVE  /\ OutcomeKind(v) \in {"none", "decision", "agreement"}
         /\ Basis(v) \in BasisOf
<1>1. OutcomeKind(v) \in {"none", "decision", "agreement"}
  BY DEF OutcomeKind
<1> QED
  BY <1>1 DEF Basis, BasisOf, Case

(* A request that moves on, or ends, keeps the types of the sessions.      *)
LEMMA GotoTypes ==
  ASSUME TypeOK, NEW s \in Slots, NEW view \in Case,
         NEW point \in {"loaded", "claimed", "saved", "running", "reload", "issue", "charge"},
         Goto(s, point, view) \/ Finish(s)
  PROVE  sess' \in [Slots -> Session]
BY IdleTypes DEF TypeOK, Goto, Finish, Session, Slots

(* A record that is issued, or not, by a request or by the job.            *)
LEMMA IssueTypes ==
  ASSUME TypeOK, NEW s \in Slots, IssueRecord(s)
  PROVE  TypeOK'
<1>1. V(s) \in Case /\ case \in Case
  BY ViewTypes
<1>2. Basis(V(s)) \in BasisOf /\ V(s).autos + 1 \in Nat
  BY <1>1, BasisTypes DEF Case
<1>3. [case EXCEPT !.autos = V(s).autos + 1, !.basis = Basis(V(s))] \in Case
  BY <1>1, <1>2 DEF Case
<1>4. case' \in Case
  BY <1>1, <1>3 DEF IssueRecord
<1>5. sess' \in [Slots -> Session]
  BY <1>1, GotoTypes DEF IssueRecord
<1> QED
  BY <1>4, <1>5 DEF IssueRecord, TypeOK, Slots, settlementVars, SettlementTypeOK

(* The attestation, its claim and its record.                              *)
LEMMA AttestingTypes ==
  ASSUME TypeOK, NEW s \in Requests, Attesting(s)
  PROVE  TypeOK'
<1>1. s \in Slots /\ V(s) \in Case /\ case \in Case
  BY ViewTypes DEF Slots
<1>2. CASE ClaimAttestation(s)
  <2>1. case' \in Case
    BY <1>1, <1>2 DEF ClaimAttestation, Case
  <2>2. sess' \in [Slots -> Session]
    BY <1>1, <1>2, <2>1, GotoTypes DEF ClaimAttestation
  <2> QED
    BY <1>2, <2>1, <2>2 DEF ClaimAttestation, TypeOK, Slots, settlementVars, SettlementTypeOK
<1>3. CASE SaveAttestation(s)
  <2>1. case' \in Case /\ [V(s) EXCEPT !.hash = V(s).decision, !.status = "attested"] \in Case
    BY <1>1, <1>3 DEF SaveAttestation, Case
  <2>2. sess' \in [Slots -> Session]
    BY <1>1, <1>3, <2>1, GotoTypes DEF SaveAttestation
  <2> QED
    BY <1>3, <2>1, <2>2 DEF SaveAttestation, TypeOK, Slots, settlementVars, SettlementTypeOK
<1>4. CASE SaveAttestationRecord(s)
  <2>1. case' \in Case /\ [V(s) EXCEPT !.record = V(s).hash] \in Case
    BY <1>1, <1>4 DEF SaveAttestationRecord, Case
  <2>2. sess' \in [Slots -> Session]
    BY <1>1, <1>4, <2>1, GotoTypes DEF SaveAttestationRecord
  <2> QED
    BY <1>4, <2>1, <2>2
       DEF SaveAttestationRecord, TypeOK, Slots, settlementVars, SettlementTypeOK
<1> QED
  BY <1>2, <1>3, <1>4 DEF Attesting

(* The contest of a party, from its claim to the start of the job.         *)
LEMMA ContestingTypes ==
  ASSUME TypeOK, NEW s \in Requests, Contesting(s)
  PROVE  TypeOK'
<1>1. s \in Slots /\ Job \in Slots /\ case \in Case
  BY ViewTypes DEF Slots
<1>2. CASE ClaimAppeal(s)
  <2>1. case' \in Case
    BY <1>1, <1>2 DEF ClaimAppeal, Case
  <2>2. sess' \in [Slots -> Session]
    BY <1>1, <1>2, <2>1, GotoTypes DEF ClaimAppeal
  <2> QED
    BY <1>2, <2>1, <2>2 DEF ClaimAppeal, TypeOK, Slots, settlementVars, SettlementTypeOK
<1>3. CASE RefuseAppeal(s)
  <2>1. sess' \in [Slots -> Session]
    BY <1>1, <1>3, GotoTypes DEF RefuseAppeal
  <2> QED
    BY <1>3, <2>1 DEF RefuseAppeal, TypeOK, Slots, settlementVars, SettlementTypeOK
<1>4. CASE RegisterContest(s)
  <2>1. case' \in Case
    BY <1>1, <1>4 DEF RegisterContest, Case
  <2>2. sess' \in [Slots -> Session]
    <3> DEFINE mid == [sess EXCEPT ![s] = Idle]
               job == [mid[Job] EXCEPT !.pc = "running", !.view = case']
    <3>1. mid \in [Slots -> Session]
      BY <1>1, IdleTypes DEF TypeOK, Slots
    <3>2. mid[Job] \in Session
      BY <1>1, <3>1
    <3>3. job \in Session
      BY <2>1, <3>2 DEF Session
    <3>4. sess' = [mid EXCEPT ![Job] = job]
      BY <1>4 DEF RegisterContest
    <3> HIDE DEF mid, job
    <3> QED
      BY <3>1, <3>3, <3>4
  <2> QED
    BY <1>4, <2>1, <2>2 DEF RegisterContest, TypeOK, Slots, settlementVars, SettlementTypeOK
<1> QED
  BY <1>2, <1>3, <1>4 DEF Contesting

(* The job of the appeal.                                                  *)
LEMMA AppealTypes ==
  ASSUME TypeOK, AppealJob
  PROVE  TypeOK'
<1>1. Job \in Slots /\ V(Job) \in Case /\ case \in Case
  BY ViewTypes DEF Slots
<1>2. ASSUME NEW outcome \in {"corrected", "upheld"}, CompleteAppeal(outcome) PROVE TypeOK'
  <2> DEFINE after(c) == IF outcome = "corrected"
                         THEN [c EXCEPT !.decision = "corrected",
                                        !.record = "corrected", !.appeal = outcome]
                         ELSE [c EXCEPT !.appeal = outcome]
  <2>1. ASSUME NEW c \in Case PROVE after(c) \in Case
    <3>1. CASE outcome = "corrected"
      BY <3>1 DEF Case, Decision
    <3>2. CASE outcome = "upheld"
      BY <3>2 DEF Case
    <3> QED
      BY <3>1, <3>2
  <2>2. case' = after(case) /\ Goto(Job, "issue", after(V(Job)))
    BY <1>2 DEF CompleteAppeal
  <2> HIDE DEF after
  <2>3. sess' \in [Slots -> Session]
    BY <1>1, <2>1, <2>2, GotoTypes
  <2> QED
    BY <1>2, <2>1, <2>2, <2>3
       DEF CompleteAppeal, TypeOK, Slots, settlementVars, SettlementTypeOK
<1>3. CASE RevertContest
  <2>1. case' \in Case
    <3>1. PICK appeal \in {"none", "processing", "corrected", "upheld"} :
            case' = [case EXCEPT !.appeal = appeal, !.contested = FALSE,
                                 !.status = "attested", !.started = "none"]
      BY <1>1, <1>3 DEF RevertContest, Case
    <3> QED
      BY <1>1, <3>1 DEF Case
  <2>2. sess' \in [Slots -> Session]
    BY <1>1, <1>3, GotoTypes DEF RevertContest
  <2> QED
    BY <1>3, <2>1, <2>2, PostDecisionAssumption
       DEF RevertContest, TypeOK, Slots, settlementVars, SettlementTypeOK
<1>4. CASE IssueRecord(Job)
  BY <1>1, <1>4, IssueTypes
<1> QED
  BY <1>2, <1>3, <1>4 DEF AppealJob

(* The acceptance, the award and the record.                               *)
LEMMA ClosingTypes ==
  ASSUME TypeOK, Asked, NEW s \in Requests, Closing(s)
  PROVE  TypeOK'
<1>1. s \in Slots /\ V(s) \in Case /\ case \in Case
  BY ViewTypes DEF Slots
<1>2. Basis(V(s)) \in BasisOf
  BY <1>1, BasisTypes
<1>3. CASE AcceptDecision(s)
  <2>1. sess[s].actor \in Party
    BY <1>1, <1>3 DEF AcceptDecision, Doing, Asked, Actors
  <2>2. CurrentHash(V(s)) \in Decision /\ V(s).decision \in Decision
    BY <1>1, <1>3 DEF AcceptDecision, Eligible, CurrentHash, Case
  <2> DEFINE new == [party |-> sess[s].actor, hash |-> CurrentHash(V(s)),
                     decision |-> V(s).decision]
  <2>3. new \in Acceptance
    BY <2>1, <2>2 DEF Acceptance
  <2>4. case' = [case EXCEPT !.accepted = case.accepted \cup {new}]
    BY <1>3 DEF AcceptDecision
  <2> HIDE DEF new
  <2>5. case' \in Case
    BY <1>1, <2>3, <2>4 DEF Case
  <2>6. sess' \in [Slots -> Session]
    BY <1>1, <1>3, GotoTypes DEF AcceptDecision
  <2> QED
    BY <1>3, <2>5, <2>6 DEF AcceptDecision, TypeOK, Slots, settlementVars, SettlementTypeOK
<1>4. ASSUME NEW adopt \in BOOLEAN, SignAward(s, adopt) PROVE TypeOK'
  <2>1. PICK award \in Award, autos \in Nat, basis \in BasisOf :
          case' = [case EXCEPT !.award = award, !.autos = autos, !.basis = basis]
    <3> DEFINE award == [made |-> TRUE, adopted |-> adopt, decision |-> V(s).decision,
                         attested |-> V(s).hash # "none"]
    <3>1. award \in Award
      BY <1>1 DEF Award, Case
    <3>2. /\ case.autos \in Nat /\ V(s).autos + 1 \in Nat /\ case.basis \in BasisOf
      BY <1>1 DEF Case
    <3>3. \E autos \in Nat, basis \in BasisOf :
            case' = [case EXCEPT !.award = award, !.autos = autos, !.basis = basis]
      <4>1. CASE V(s).basis = Basis(V(s))
        <5>1. case' = [case EXCEPT !.award = award, !.autos = case.autos, !.basis = case.basis]
          BY <1>4, <4>1 DEF SignAward
        <5> QED
          BY <3>2, <5>1
      <4>2. CASE V(s).basis # Basis(V(s))
        <5>1. case' = [case EXCEPT !.award = award, !.autos = V(s).autos + 1,
                                   !.basis = Basis(V(s))]
          BY <1>4, <4>2 DEF SignAward
        <5> QED
          BY <1>2, <3>2, <5>1
      <4> QED
        BY <4>1, <4>2
    <3> HIDE DEF award
    <3> QED
      BY <3>1, <3>3
  <2>2. case' \in Case
    BY <1>1, <2>1 DEF Case
  <2>3. sess' \in [Slots -> Session]
    BY <1>1, <1>4, GotoTypes DEF SignAward
  <2> QED
    BY <1>4, <2>2, <2>3 DEF SignAward, TypeOK, Slots, settlementVars, SettlementTypeOK
<1>5. CASE Reload(s) \/ AskRecord(s)
  <2>1. sess' \in [Slots -> Session]
    BY <1>1, <1>5, GotoTypes DEF Reload, AskRecord
  <2> QED
    BY <1>5, <2>1 DEF Reload, AskRecord, TypeOK, Slots, settlementVars, SettlementTypeOK
<1> QED
  BY <1>3, <1>4, <1>5 DEF Closing

(* The payment: a charge is opened under one of the keys.                  *)
LEMMA PayingTypes ==
  ASSUME TypeOK, ViewsOfCase, NEW s \in Requests, Paying(s)
  PROVE  TypeOK'
<1>1. /\ s \in Slots /\ sess[s] \in Session /\ payments \in [Key -> Payment]
      /\ checkout \in [SessionId -> Checkout] /\ events \subseteq Event
  BY ViewTypes DEF Slots, TypeOK, SettlementTypeOK
<1>2. CASE AskCheckout(s)
  <2> DEFINE k == Offer(V(s))
  <2>1. k \in Key /\ payments' = [payments EXCEPT ![k].exists = TRUE]
    BY <1>2 DEF AskCheckout, FindOrCreate
  <2>2. \/ sess' = [sess EXCEPT ![s].pc = "charge", ![s].was = payments[k].status]
        \/ sess' = [sess EXCEPT ![s] = Idle]
    BY <1>2 DEF AskCheckout, Finish
  <2> HIDE DEF k
  <2>3. payments' \in [Key -> Payment] /\ payments[k] \in Payment
    BY <1>1, <2>1 DEF Payment
  <2>4. [sess[s] EXCEPT !.pc = "charge", !.was = payments[k].status] \in Session
    BY <1>1, <2>3 DEF Session, Payment
  <2>5. sess' \in [Slots -> Session]
    BY <1>1, <2>2, <2>4, IdleTypes DEF TypeOK, Slots
  <2> QED
    BY <1>2, <2>3, <2>5 DEF AskCheckout, TypeOK, Slots, SettlementTypeOK
<1>3. CASE Charge(s)
  <2> DEFINE k == Offer(V(s))
  <2>1. PICK i \in SessionId : OpenSession(k, i, sess[s].was)
    BY <1>3 DEF Charge
  <2>2. k \in Key
    BY <1>1, <1>3 DEF ViewsOfCase, SessionOfCase, Charge
  <2> HIDE DEF k
  <2>3. checkout' \in [SessionId -> Checkout]
    BY <1>1, <2>1, <2>2 DEF OpenSession, Checkout
  <2>4. payments' \in [Key -> Payment]
    BY <1>1, <2>1, <2>2, ZenonT(40) DEF OpenSession, Payment
  <2>5. sess' \in [Slots -> Session]
    BY <1>1, <1>3, ViewTypes, GotoTypes DEF Charge
  <2> QED
    BY <1>3, <2>1, <2>3, <2>4, <2>5
       DEF Charge, OpenSession, TypeOK, Slots, SettlementTypeOK
<1>4. CASE ChargeFails(s)
  <2>1. sess' \in [Slots -> Session]
    BY <1>1, <1>4, ViewTypes, GotoTypes DEF ChargeFails
  <2> QED
    BY <1>4, <2>1 DEF ChargeFails, TypeOK, Slots, settlementVars, SettlementTypeOK
<1> QED
  BY <1>2, <1>3, <1>4 DEF Paying

(* Stripe and its webhook.                                                 *)
LEMMA StripeTypes ==
  ASSUME SettlementTypeOK, Stripe \/ \E e \in events : Deliver(e)
  PROVE  SettlementTypeOK'
<1>1. /\ payments \in [Key -> Payment] /\ checkout \in [SessionId -> Checkout]
      /\ events \subseteq Event
  BY DEF SettlementTypeOK
<1>2. ASSUME NEW i \in SessionId, NEW m \in {"processing", "paid"}, PayerPays(i, m)
      PROVE  SettlementTypeOK'
  <2>1. checkout' \in [SessionId -> Checkout]
    BY <1>1, <1>2 DEF PayerPays, Checkout
  <2>2. events' \subseteq Event
    BY <1>1, <1>2 DEF PayerPays, Event
  <2> QED
    BY <1>1, <1>2, <2>1, <2>2 DEF PayerPays, SettlementTypeOK
<1>3. ASSUME NEW i \in SessionId, NEW m \in {"paid", "failed"}, MoneyArrives(i, m)
      PROVE  SettlementTypeOK'
  BY <1>1, <1>3 DEF MoneyArrives, SettlementTypeOK, Checkout, Event
<1>4. ASSUME NEW i \in SessionId, SessionExpires(i) PROVE SettlementTypeOK'
  BY <1>1, <1>4 DEF SessionExpires, SettlementTypeOK, Checkout, Event
<1>5. ASSUME NEW e \in events, Deliver(e) PROVE SettlementTypeOK'
  <2>1. e \in Event
    BY <1>1
  <2>2. \A p \in Payment : ApplyEvent(p, e) \in Payment
    BY <2>1 DEF ApplyEvent, Payment, Event
  <2> QED
    BY <1>1, <1>5, <2>2 DEF Deliver, SettlementTypeOK
<1> QED
  BY <1>2, <1>3, <1>4, <1>5 DEF Stripe

(* The initial case is well typed.                                         *)
LEMMA InitTypes == Init => TypeOK /\ Asked
<1> SUFFICES ASSUME Init PROVE TypeOK /\ Asked
  OBVIOUS
<1>1. PICK start \in {"agreement", "reviewed"}, designated \in BOOLEAN :
        LET blank == [Idle.view EXCEPT !.status = start, !.designated = designated]
        IN  case = [blank EXCEPT !.autos = 1, !.basis = Basis(blank)]
  BY DEF Init
<1> DEFINE blank == [Idle.view EXCEPT !.status = start, !.designated = designated]
<1>2. blank \in Case
  BY IdleTypes DEF Case
<1>3. case = [blank EXCEPT !.autos = 1, !.basis = Basis(blank)]
  BY <1>1
<1> HIDE DEF blank
<1>4. case \in Case
  BY <1>2, <1>3, BasisTypes DEF Case
<1>5. SettlementTypeOK
  BY DEF Init, SettlementInit, SettlementTypeOK, NoPayment, Payment, NoCheckout, Checkout, Key
<1>6. \A s \in Slots : ~At(s, "loaded")
  BY IdleTypes DEF Init, Slots, At
<1> QED
  BY <1>4, <1>5, <1>6, IdleTypes, PostDecisionAssumption DEF Init, TypeOK, Asked, Slots, Mode

(* Every step keeps the types.                                             *)
LEMMA NextTypes == TypeOK /\ Asked /\ ViewsOfCase /\ [Next]_vars => TypeOK'
<1> SUFFICES ASSUME TypeOK, Asked, ViewsOfCase, [Next]_vars PROVE TypeOK'
  OBVIOUS
<1> USE PostDecisionAssumption DEF Slots
<1>1. Requests \subseteq Slots /\ Job \in Slots /\ case \in Case
  BY DEF TypeOK
<1>2. ASSUME NEW s \in Requests, Load(s) PROVE TypeOK'
  <2>a. PICK act \in Act : \E who \in Actors(act) :
          sess' = [sess EXCEPT ![s] = [pc |-> "loaded", act |-> act, actor |-> who,
                                       view |-> case, was |-> "pending"]]
    BY <1>2 DEF Load
  <2>1. PICK who \in Actors(act) :
          sess' = [sess EXCEPT ![s] = [pc |-> "loaded", act |-> act, actor |-> who,
                                       view |-> case, was |-> "pending"]]
    BY <2>a
  <2>2. who \in Party \cup {Arbitrator, Staff}
    BY DEF Actors, Party, Arbitrator, Staff, Act
  <2>3. sess' \in [Slots -> Session]
    BY <1>1, <2>1, <2>2 DEF TypeOK, Session
  <2>4. requests' \in 0..MaxRequests[mode]
    BY <1>2 DEF Load, TypeOK, Mode
  <2> QED
    BY <1>2, <2>3, <2>4 DEF Load, TypeOK, settlementVars, SettlementTypeOK
<1>3. ASSUME NEW s \in Slots, Refuse(s) \/ Die(s) PROVE TypeOK'
  <2>1. sess' \in [Slots -> Session]
    BY <1>1, <1>3, GotoTypes DEF Refuse, Die
  <2> QED
    BY <1>3, <2>1 DEF Refuse, Die, TypeOK, settlementVars, SettlementTypeOK
<1>4. ASSUME NEW s \in Requests, IssueRecord(s) PROVE TypeOK'
  BY <1>4, IssueTypes
<1>5. CASE Outside \/ \E e \in events : Webhook(e)
  BY <1>5, StripeTypes DEF Outside, Webhook, TypeOK
<1>6. CASE TimePasses
  BY <1>6 DEF TimePasses, TypeOK, settlementVars, SettlementTypeOK
<1>7. CASE TtlElapses \/ Unstick
  <2>1. case' \in Case
    BY <1>1, <1>7, ZenonT(40) DEF TtlElapses, Unstick, Case
  <2> QED
    BY <1>7, <2>1 DEF TtlElapses, Unstick, TypeOK, settlementVars, SettlementTypeOK
<1>8. CASE UNCHANGED vars
  BY <1>8 DEF vars, TypeOK, SettlementTypeOK
<1>9. ASSUME NEW s \in Requests, Request(s) PROVE TypeOK'
  BY <1>1, <1>3, <1>4, <1>9, AttestingTypes, ContestingTypes, ClosingTypes, PayingTypes
     DEF Request
<1> QED
  BY <1>2, <1>3, <1>5, <1>6, <1>7, <1>8, <1>9, AppealTypes DEF Next

-----------------------------------------------------------------------------
(* The single attestation.                                                 *)

(* Nothing changes how requests come.                                      *)
LEMMA ModeKept == [Next]_vars => mode' = mode
BY ZenonT(40) DEF Next, Load, Request, Refuse, Attesting, ClaimAttestation, SaveAttestation,
       SaveAttestationRecord, Contesting, ClaimAppeal, RefuseAppeal, RegisterContest, Closing,
       AcceptDecision, SignAward, Reload, AskRecord, IssueRecord, Paying, AskCheckout, Charge,
       ChargeFails, Die, AppealJob, CompleteAppeal, RevertContest, Outside, Webhook,
       TimePasses, TtlElapses, Unstick, vars

(* A request that moves on is the only one that changes.                   *)
LEMMA GotoSessions ==
  ASSUME TypeOK, NEW s \in Slots, NEW point, NEW view, Goto(s, point, view)
  PROVE  /\ sess'[s].pc = point /\ sess'[s].view = view
         /\ sess'[s].act = sess[s].act /\ sess'[s].actor = sess[s].actor
         /\ sess'[s].was = sess[s].was
         /\ \A t \in Slots : t # s => sess'[t] = sess[t]
BY DEF TypeOK, Goto, Session, Slots

(* So is one that ends.                                                    *)
LEMMA FinishSessions ==
  ASSUME TypeOK, NEW s \in Slots, Finish(s)
  PROVE  /\ sess'[s] = Idle
         /\ \A t \in Slots : t # s => sess'[t] = sess[t]
BY DEF TypeOK, Finish, Slots

(* An idle slot is of any case.                                            *)
LEMMA IdleOfCase ==
  ASSUME NEW s \in Slots, sess'[s] = Idle
  PROVE  /\ SessionOfCase(s)' /\ ~Claimed(s, "attest")' /\ ~At(s, "loaded")'
         /\ ~Active(s)' /\ At(s, "idle")'
BY IdleTypes DEF SessionOfCase, Claimed, At, V, ClaimDated, Active

(* What is on offer stays on offer while the deadlines go by.              *)
LEMMA OfferKept ==
  ASSUME NEW v, Offer(v) \in Key, clock = "closed" => clock' = "closed"
  PROVE  Offer(v)' = Offer(v)
BY DEF Offer, Key, Pending, Complete, HasAccepted, CurrentHash

(* A step that leaves the attestation, and those who are issuing it, keeps *)
(* its rule.                                                               *)
LEMMA AttestKeep ==
  ASSUME AttestInv, mode' = mode, case'.hash = case.hash,
         clock = "closed" => clock' = "closed",
         AttestedInOrder', ClaimDated(case)',
         case'.status = "processing_attestation" <=> case.status = "processing_attestation",
         case'.started = case.started \/ case.status # "processing_attestation",
         \A t \in Slots : \/ sess'[t] = sess[t]
                          \/ /\ SessionOfCase(t)' /\ ~Claimed(t, "attest")'
                             /\ Claimed(t, "attest") => mode # "overlap"
  PROVE  AttestInv'
<1>1. ViewsOfCase'
  <2> SUFFICES ASSUME NEW t \in Slots PROVE SessionOfCase(t)'
    BY DEF ViewsOfCase
  <2>1. CASE sess'[t] = sess[t]
    <3>1. SessionOfCase(t)
      BY DEF AttestInv, ViewsOfCase
    <3>2. At(t, "charge") => Offer(V(t))' = Offer(V(t))
      BY <2>1, <3>1, OfferKept DEF SessionOfCase, V
    <3> QED
      BY <2>1, <3>1, <3>2 DEF SessionOfCase, At, V, ClaimDated, Claimed
  <2> QED
    BY <2>1
<1>2. \A t \in Slots : Claimed(t, "attest")' => Claimed(t, "attest")
  BY DEF Claimed, At
<1>3. mode = "overlap" => \A t \in Slots : Claimed(t, "attest") => Claimed(t, "attest")'
  BY DEF Claimed, At
<1>4. OneAttester'
  BY <1>2, <1>3 DEF AttestInv, OneAttester, Slots
<1> QED
  BY <1>1, <1>4 DEF AttestInv

(* A session that goes on with a view of the case is of the case.          *)
LEMMA GotoOfCase ==
  ASSUME TypeOK, NEW s \in Requests, NEW view, mode' = mode,
         NEW point \in {"loaded", "claimed", "saved", "reload", "issue"},
         Goto(s, point, view),
         view.hash \in {"none", case'.hash}, ClaimDated(view),
         Claimed(s, "contest")' \/ point = "saved" => view.hash # "none",
         point = "claimed" => sess[s].act \in {"attest", "contest"}
  PROVE  SessionOfCase(s)'
<1>1. s \in Slots /\ s # Job
  BY PostDecisionAssumption DEF Slots
<1>2. sess'[s].pc = point /\ sess'[s].view = view /\ sess'[s].act = sess[s].act
  BY <1>1, GotoSessions
<1> QED
  BY <1>1, <1>2 DEF SessionOfCase, At, V, ClaimDated, Claimed

(* The attestation is claimed only where nobody is issuing it: in a        *)
(* reviewed case; or again, when the claim went stale, and then no other   *)
(* request is under way.                                                   *)
LEMMA ClaimIsFree ==
  ASSUME TypeOK, AttestInv, mode # "overlap" => Alone, NEW s \in Requests, ClaimAttestation(s)
  PROVE  /\ case.hash = "none" /\ case.status \in {"reviewed", "processing_attestation"}
         /\ \A t \in Slots : ~Claimed(t, "attest")
<1>1. /\ s \in Slots /\ At(s, "loaded") /\ sess[s].act = "attest" /\ V(s).hash = "none"
      /\ ClaimMatches(V(s), {"reviewed"}, "processing_attestation")
  BY DEF ClaimAttestation, Doing, Slots
<1>2. case.status \in {"reviewed", "processing_attestation"}
  BY <1>1 DEF ClaimMatches
<1>3. case.hash = "none"
  BY <1>2 DEF AttestInv, AttestedInOrder
<1>4. CASE case.status = "reviewed"
  BY <1>3, <1>4 DEF AttestInv, OneAttester
<1>5. CASE case.status = "processing_attestation"
  <2>1. V(s).status = "processing_attestation" /\ V(s).started # "fresh"
    BY <1>1, <1>5 DEF ClaimMatches
  <2>2. mode # "overlap"
    BY <1>1, <2>1 DEF AttestInv, ViewsOfCase, SessionOfCase, ClaimDated
  <2>3. \A t \in Slots : Claimed(t, "attest") => t = s
    BY <1>1, <2>2 DEF Alone, Active, Claimed, At
  <2> QED
    BY <1>1, <1>2, <1>3, <2>3 DEF Claimed, At
<1> QED
  BY <1>2, <1>3, <1>4, <1>5

(* The claim, the attestation and its record.                              *)
LEMMA AttestingKeeps ==
  ASSUME TypeOK, AttestInv, mode # "overlap" => Alone, NEW s \in Requests, Attesting(s)
  PROVE  AttestInv'
<1>1. /\ s \in Slots /\ s # Job /\ V(s) \in Case /\ case \in Case /\ SessionOfCase(s)
      /\ mode' = mode
  BY ViewTypes, PostDecisionAssumption DEF Slots, AttestInv, ViewsOfCase, Attesting,
     ClaimAttestation, SaveAttestation, SaveAttestationRecord
<1>2. CASE ClaimAttestation(s)
  <2>1. /\ case.hash = "none" /\ case.status \in {"reviewed", "processing_attestation"}
        /\ \A t \in Slots : ~Claimed(t, "attest")
    BY <1>2, ClaimIsFree
  <2>2. /\ case' = [case EXCEPT !.status = "processing_attestation", !.started = "fresh"]
        /\ Goto(s, "claimed", case') /\ sess[s].act = "attest" /\ clock' = clock
    BY <1>2 DEF ClaimAttestation, Doing
  <2>3. /\ case'.hash = "none" /\ case'.status = "processing_attestation"
        /\ case'.started = "fresh" /\ case'.record = case.record
        /\ case'.accepted = case.accepted
    BY <1>1, <2>1, <2>2 DEF Case
  <2>4. AttestedInOrder' /\ ClaimDated(case)'
    BY <2>1, <2>2, <2>3 DEF AttestInv, AttestedInOrder, ClaimDated
  <2>5. /\ sess'[s].pc = "claimed" /\ sess'[s].view = case' /\ sess'[s].act = "attest"
        /\ \A t \in Slots : t # s => sess'[t] = sess[t]
    BY <1>1, <2>2, GotoSessions
  <2>6. \A t \in Slots : Claimed(t, "attest")' <=> t = s
    BY <2>1, <2>5 DEF Claimed, At
  <2>7. OneAttester'
    BY <1>1, <2>3, <2>4, <2>6 DEF OneAttester
  <2>8. SessionOfCase(s)'
    BY <1>1, <2>2, <2>3, <2>4, <2>5, GotoOfCase DEF ClaimDated, Claimed
  <2>9. \A t \in Slots : t # s => SessionOfCase(t)'
    <3> SUFFICES ASSUME NEW t \in Slots, t # s PROVE SessionOfCase(t)'
      OBVIOUS
    <3>1. sess'[t] = sess[t] /\ SessionOfCase(t)
      BY <2>5 DEF AttestInv, ViewsOfCase
    <3>2. At(t, "charge") => Offer(V(t))' = Offer(V(t))
      BY <2>2, <3>1, OfferKept DEF SessionOfCase, V
    <3> QED
      BY <1>1, <2>1, <2>3, <3>1, <3>2 DEF SessionOfCase, At, V, ClaimDated, Claimed
  <2> QED
    BY <2>4, <2>7, <2>8, <2>9 DEF AttestInv, ViewsOfCase
<1>3. CASE SaveAttestation(s)
  <2>1. /\ Claimed(s, "attest") /\ clock' = "reflection"
        /\ case' = [case EXCEPT !.hash = V(s).decision, !.status = "attested"]
        /\ Goto(s, "saved", [V(s) EXCEPT !.hash = V(s).decision, !.status = "attested"])
    BY <1>3 DEF SaveAttestation, Claimed
  <2>2. case.status = "processing_attestation" /\ case.hash = "none"
    BY <1>1, <2>1 DEF AttestInv, OneAttester, AttestedInOrder
  <2>3. case'.hash = V(s).decision /\ case'.hash # "none" /\ case'.status = "attested"
    BY <1>1, <2>1 DEF Case, Decision
  <2> DEFINE view == [V(s) EXCEPT !.hash = V(s).decision, !.status = "attested"]
  <2>4. view.hash = V(s).decision /\ view.status = "attested"
    BY <1>1 DEF Case
  <2> HIDE DEF view
  <2>5. /\ sess'[s].pc = "saved" /\ sess'[s].view = view
        /\ \A t \in Slots : t # s => sess'[t] = sess[t]
    BY <1>1, <2>1, GotoSessions DEF view
  <2>6. \A t \in Slots : ~Claimed(t, "attest")'
    BY <1>1, <2>1, <2>5 DEF Claimed, At, AttestInv, OneAttester
  <2>7. AttestedInOrder' /\ OneAttester'
    BY <2>3, <2>6 DEF AttestedInOrder, OneAttester, ClaimDated
  <2>8. SessionOfCase(s)'
    BY <1>1, <2>3, <2>4, <2>5 DEF SessionOfCase, At, V, ClaimDated, Claimed
  <2>9. \A t \in Slots : t # s => SessionOfCase(t)'
    <3> SUFFICES ASSUME NEW t \in Slots, t # s PROVE SessionOfCase(t)'
      OBVIOUS
    <3>1. sess'[t] = sess[t] /\ SessionOfCase(t) /\ clock = "reflection"
      BY <2>2, <2>5 DEF AttestInv, ViewsOfCase, AttestedInOrder
    <3>2. At(t, "charge") => Offer(V(t))' = Offer(V(t))
      BY <2>1, <3>1, OfferKept DEF SessionOfCase, V
    <3> QED
      BY <1>1, <2>2, <3>1, <3>2 DEF SessionOfCase, At, V, ClaimDated, Claimed
  <2> QED
    BY <2>7, <2>8, <2>9 DEF AttestInv, ViewsOfCase
<1>4. CASE SaveAttestationRecord(s)
  <2>1. /\ At(s, "saved") /\ case' = [case EXCEPT !.record = V(s).hash] /\ clock' = clock
        /\ Goto(s, "issue", [V(s) EXCEPT !.record = V(s).hash])
    BY <1>4 DEF SaveAttestationRecord
  <2>2. V(s).hash # "none" /\ case.hash = V(s).hash
    BY <1>1, <2>1 DEF SessionOfCase
  <2>3. case'.hash = case.hash /\ case'.status = case.status /\ case'.started = case.started
    BY <1>1, <2>1 DEF Case
  <2> DEFINE view == [V(s) EXCEPT !.record = V(s).hash]
  <2>4. view.hash = V(s).hash /\ view.status = V(s).status /\ view.started = V(s).started
    BY <1>1 DEF Case
  <2> HIDE DEF view
  <2>5. SessionOfCase(s)' /\ ~Claimed(s, "attest") /\ ~Claimed(s, "attest")'
    <3>1. sess'[s].pc = "issue" /\ sess'[s].view = view
      BY <1>1, <2>1, GotoSessions DEF view
    <3> QED
      BY <1>1, <2>1, <2>3, <2>4, <3>1 DEF SessionOfCase, At, V, ClaimDated, Claimed
  <2>6. AttestedInOrder' /\ ClaimDated(case)'
    BY <1>1, <2>2, <2>3 DEF AttestInv, AttestedInOrder, OneAttester, ClaimDated
  <2>7. \A t \in Slots : t # s => sess'[t] = sess[t]
    BY <1>1, <2>1, GotoSessions
  <2> QED
    BY <1>1, <2>1, <2>3, <2>5, <2>6, <2>7, AttestKeep
<1> QED
  BY <1>2, <1>3, <1>4 DEF Attesting

(* A step that leaves the row, and whose request goes on or ends without   *)
(* taking the attestation, keeps the rule.                                 *)
LEMMA AttestSameRow ==
  ASSUME TypeOK, AttestInv, mode' = mode, clock' = clock, case'.hash = case.hash,
         AttestedInOrder', case'.status = case.status, case'.started = case.started,
         \A t \in Slots : \/ sess'[t] = sess[t]
                          \/ /\ SessionOfCase(t)' /\ ~Claimed(t, "attest")'
                             /\ Claimed(t, "attest") => mode # "overlap"
  PROVE  AttestInv'
<1>1. ClaimDated(case)'
  BY DEF AttestInv, OneAttester, ClaimDated
<1> QED
  BY <1>1, AttestKeep

(* A contest is of an attested case, from its claim to the end of its job. *)
LEMMA ContestingKeeps ==
  ASSUME TypeOK, AttestInv, NEW s \in Requests, Contesting(s)
  PROVE  AttestInv'
<1>1. /\ s \in Slots /\ s # Job /\ V(s) \in Case /\ case \in Case /\ SessionOfCase(s)
      /\ mode' = mode /\ clock' = clock /\ ~Claimed(s, "attest")
  BY ViewTypes, PostDecisionAssumption DEF Slots, AttestInv, ViewsOfCase, Contesting,
     ClaimAppeal, RefuseAppeal, RegisterContest, Claimed, At, Doing
<1>2. CASE ClaimAppeal(s)
  <2>1. /\ case' = [case EXCEPT !.status = "processing_appeal", !.started = "fresh"]
        /\ Goto(s, "claimed", case') /\ sess[s].act = "contest" /\ V(s).hash # "none"
        /\ ClaimMatches(V(s), {"attested", "reviewed"}, "processing_appeal")
    BY <1>2 DEF ClaimAppeal, Doing
  <2>2. case.hash = V(s).hash /\ case.status # "processing_attestation"
    BY <1>1, <2>1 DEF SessionOfCase, AttestInv, AttestedInOrder
  <2>3. case'.hash = case.hash /\ case'.status = "processing_appeal"
    BY <1>1, <2>1 DEF Case
  <2>4. AttestedInOrder' /\ ClaimDated(case)'
    BY <2>1, <2>2, <2>3 DEF AttestedInOrder, ClaimDated
  <2>5. SessionOfCase(s)'
    BY <1>1, <2>1, <2>2, <2>3, GotoOfCase DEF ClaimDated
  <2>6. /\ ~Claimed(s, "attest")'
        /\ \A t \in Slots : t # s => sess'[t] = sess[t]
    BY <1>1, <2>1, GotoSessions DEF Claimed, At
  <2> QED
    BY <1>1, <2>2, <2>3, <2>4, <2>5, <2>6, AttestKeep
<1>3. CASE RefuseAppeal(s)
  <2>1. Finish(s) /\ case' = case
    BY <1>3 DEF RefuseAppeal
  <2>2. SessionOfCase(s)' /\ ~Claimed(s, "attest")' /\ \A t \in Slots : t # s => sess'[t] = sess[t]
    BY <1>1, <2>1, FinishSessions, IdleOfCase
  <2>3. AttestedInOrder'
    BY <1>1, <2>1 DEF AttestInv, AttestedInOrder
  <2> QED
    BY <1>1, <2>1, <2>2, <2>3, AttestSameRow
<1>4. CASE RegisterContest(s)
  <2>1. /\ Claimed(s, "contest")
        /\ case' = [case EXCEPT !.appeal = "processing", !.contested = TRUE,
                                !.status = "contested"]
        /\ sess' = [sess EXCEPT ![s] = Idle, ![Job].pc = "running", ![Job].view = case']
    BY <1>4 DEF RegisterContest, Claimed
  <2>2. case.hash # "none"
    BY <1>1, <2>1 DEF SessionOfCase
  <2>3. case'.hash = case.hash /\ case'.status = "contested"
    BY <1>1, <2>1 DEF Case
  <2>4. AttestedInOrder' /\ ClaimDated(case)' /\ case.status # "processing_attestation"
    BY <2>2, <2>3 DEF AttestInv, AttestedInOrder, ClaimDated
  <2>5. /\ sess'[s] = Idle /\ sess'[Job].pc = "running" /\ sess'[Job].view = case'
        /\ \A t \in Slots : t \notin {s, Job} => sess'[t] = sess[t]
    BY <1>1, <2>1 DEF TypeOK, Slots, Session
  <2>6. SessionOfCase(s)' /\ ~Claimed(s, "attest")'
    BY <1>1, <2>5, IdleOfCase
  <2>7. SessionOfCase(Job)' /\ ~Claimed(Job, "attest")' /\ ~Claimed(Job, "attest")
    <3>1. ~Claimed(Job, "attest")
      BY DEF AttestInv, ViewsOfCase, SessionOfCase, Claimed, At, Slots
    <3> QED
      BY <1>1, <2>2, <2>3, <2>4, <2>5, <3>1, PostDecisionAssumption
         DEF SessionOfCase, Claimed, At, V, ClaimDated
  <2> QED
    BY <1>1, <2>3, <2>4, <2>5, <2>6, <2>7, AttestKeep
<1> QED
  BY <1>2, <1>3, <1>4 DEF Contesting

(* The job ends on the attestation it started on.                          *)
LEMMA AppealKeeps ==
  ASSUME TypeOK, AttestInv, AppealJob
  PROVE  AttestInv'
<1>1. /\ Job \in Slots /\ Job \notin Requests /\ V(Job) \in Case /\ case \in Case
      /\ SessionOfCase(Job)
      /\ mode' = mode /\ clock' = clock /\ ~Claimed(Job, "attest")
  BY ViewTypes, PostDecisionAssumption DEF Slots, AttestInv, ViewsOfCase, SessionOfCase,
     AppealJob, CompleteAppeal, RevertContest, IssueRecord, Claimed, At
<1>2. ASSUME NEW outcome \in {"corrected", "upheld"}, CompleteAppeal(outcome) PROVE AttestInv'
  <2> DEFINE after(c) == IF outcome = "corrected"
                         THEN [c EXCEPT !.decision = "corrected",
                                        !.record = "corrected", !.appeal = outcome]
                         ELSE [c EXCEPT !.appeal = outcome]
  <2>1. \A c \in Case : /\ after(c).hash = c.hash /\ after(c).status = c.status
                        /\ after(c).started = c.started
    BY DEF Case
  <2>2. case' = after(case) /\ Goto(Job, "issue", after(V(Job))) /\ At(Job, "running")
    BY <1>2 DEF CompleteAppeal
  <2>3. /\ case'.hash = case.hash /\ case'.status = case.status /\ case'.started = case.started
        /\ after(V(Job)).hash = V(Job).hash /\ after(V(Job)).status = V(Job).status
        /\ after(V(Job)).started = V(Job).started
    BY <1>1, <2>1, <2>2
  <2> HIDE DEF after
  <2>4. V(Job).hash # "none" /\ case.hash # "none"
    BY <1>1, <2>2 DEF SessionOfCase, At
  <2>5. AttestedInOrder'
    BY <2>3, <2>4 DEF AttestInv, AttestedInOrder
  <2>6. /\ sess'[Job].pc = "issue" /\ sess'[Job].view = after(V(Job))
        /\ \A t \in Slots : t # Job => sess'[t] = sess[t]
    BY <1>1, <2>2, GotoSessions
  <2>7. SessionOfCase(Job)' /\ ~Claimed(Job, "attest")'
    BY <1>1, <2>3, <2>4, <2>6 DEF SessionOfCase, Claimed, At, V, ClaimDated
  <2> QED
    BY <1>1, <2>3, <2>5, <2>6, <2>7, AttestSameRow
<1>3. CASE RevertContest
  <2>1. case'.hash = case.hash /\ case'.status = "attested" /\ Finish(Job) /\ At(Job, "running")
    BY <1>1, <1>3 DEF RevertContest, Case
  <2>2. case.hash # "none"
    BY <1>1, <2>1 DEF SessionOfCase, At
  <2>3. AttestedInOrder' /\ ClaimDated(case)' /\ case.status # "processing_attestation"
    BY <2>1, <2>2 DEF AttestInv, AttestedInOrder, ClaimDated
  <2>4. /\ SessionOfCase(Job)' /\ ~Claimed(Job, "attest")'
        /\ \A t \in Slots : t # Job => sess'[t] = sess[t]
    BY <1>1, <2>1, FinishSessions, IdleOfCase
  <2> QED
    BY <1>1, <2>1, <2>3, <2>4, AttestKeep
<1>4. CASE IssueRecord(Job)
  <2>1. /\ Finish(Job) /\ case'.hash = case.hash /\ case'.status = case.status
        /\ case'.started = case.started /\ case'.record = case.record
        /\ case'.accepted = case.accepted
    BY <1>1, <1>4 DEF IssueRecord, Case
  <2>2. AttestedInOrder'
    BY <1>1, <2>1 DEF AttestInv, AttestedInOrder
  <2>3. /\ SessionOfCase(Job)' /\ ~Claimed(Job, "attest")'
        /\ \A t \in Slots : t # Job => sess'[t] = sess[t]
    BY <1>1, <2>1, FinishSessions, IdleOfCase
  <2> QED
    BY <1>1, <2>1, <2>2, <2>3, AttestSameRow
<1> QED
  BY <1>2, <1>3, <1>4 DEF AppealJob

(* Acceptance, award, record and payment leave the attestation alone.      *)
LEMMA ClosingKeeps ==
  ASSUME TypeOK, AttestInv, NEW s \in Requests, Closing(s) \/ IssueRecord(s) \/ Paying(s)
  PROVE  AttestInv'
<1>1. /\ s \in Slots /\ s # Job /\ V(s) \in Case /\ case \in Case /\ SessionOfCase(s)
      /\ mode' = mode /\ clock' = clock /\ ~Claimed(s, "attest")
  BY ViewTypes, PostDecisionAssumption DEF Slots, AttestInv, ViewsOfCase, Closing,
     AcceptDecision, SignAward, Reload, AskRecord, IssueRecord, Paying, AskCheckout, Charge,
     ChargeFails, Claimed, At, Doing
<1>2. /\ case'.hash = case.hash /\ case'.status = case.status /\ case'.started = case.started
      /\ case'.record = case.record
  BY <1>1, ZenonT(40)
     DEF Closing, AcceptDecision, SignAward, Reload, AskRecord, IssueRecord, Paying,
     AskCheckout, Charge, ChargeFails, Case
<1>3. case.hash = "none" => case'.accepted = case.accepted
  <2>1. CASE AcceptDecision(s)
    <3>1. V(s).hash # "none"
      BY <2>1 DEF AcceptDecision, Eligible
    <3> QED
      BY <1>1, <3>1 DEF SessionOfCase
  <2>2. CASE ~AcceptDecision(s)
    BY <1>1, <2>2 DEF Closing, SignAward, Reload, AskRecord, IssueRecord, Paying,
       AskCheckout, Charge, ChargeFails, Case
  <2> QED
    BY <2>1, <2>2
<1>4. AttestedInOrder'
  BY <1>1, <1>2, <1>3 DEF AttestInv, AttestedInOrder
<1>5. ASSUME Finish(s) PROVE AttestInv'
  <2>1. SessionOfCase(s)' /\ ~Claimed(s, "attest")' /\ \A t \in Slots : t # s => sess'[t] = sess[t]
    BY <1>1, <1>5, FinishSessions, IdleOfCase
  <2> QED
    BY <1>1, <1>2, <1>4, <2>1, AttestSameRow
<1>6. ASSUME NEW point \in {"reload", "issue"}, NEW view \in {V(s), case}, Goto(s, point, view)
      PROVE  AttestInv'
  <2>1. ClaimDated(view) /\ view.hash \in {"none", case'.hash}
    BY <1>1, <1>2 DEF AttestInv, OneAttester, SessionOfCase
  <2>2. /\ sess'[s].pc = point
        /\ \A t \in Slots : t # s => sess'[t] = sess[t]
    BY <1>1, <1>6, GotoSessions
  <2>3. SessionOfCase(s)' /\ ~Claimed(s, "attest")'
    BY <1>1, <1>6, <2>1, <2>2, GotoOfCase DEF Claimed, At
  <2> QED
    BY <1>1, <1>2, <1>4, <2>2, <2>3, AttestSameRow
<1>7. ASSUME AskCheckout(s), ~Finish(s) PROVE AttestInv'
  <2>1. /\ Offer(V(s)) \in Key
        /\ sess' = [sess EXCEPT ![s].pc = "charge", ![s].was = payments[Offer(V(s))].status]
    BY <1>7 DEF AskCheckout
  <2>2. /\ sess'[s].pc = "charge" /\ sess'[s].view = V(s)
        /\ \A t \in Slots : t # s => sess'[t] = sess[t]
    BY <1>1, <2>1 DEF TypeOK, Slots, Session, V
  <2>3. Offer(V(s))' = Offer(V(s))
    BY <1>1, <2>1, <2>2, OfferKept DEF V
  <2>4. SessionOfCase(s)' /\ ~Claimed(s, "attest")'
    BY <1>1, <1>2, <2>1, <2>2, <2>3 DEF SessionOfCase, Claimed, At, V, ClaimDated
  <2> QED
    BY <1>1, <1>2, <1>4, <2>2, <2>4, AttestSameRow
<1> QED
  BY <1>5, <1>6, <1>7 DEF Closing, AcceptDecision, SignAward, Reload, AskRecord, IssueRecord,
     Paying, AskCheckout, Charge, ChargeFails

(* Every step keeps the rule of the attestation.                           *)
LEMMA NextAttest ==
  TypeOK /\ AttestInv /\ (mode # "overlap" => Alone) /\ [Next]_vars => AttestInv'
<1> SUFFICES ASSUME TypeOK, AttestInv, mode # "overlap" => Alone, [Next]_vars
             PROVE  AttestInv'
  OBVIOUS
<1>1. case \in Case /\ mode' = mode /\ Requests \subseteq Slots /\ Job \in Slots
  BY ModeKept DEF TypeOK, Slots
<1>2. ASSUME NEW s \in Requests, Load(s) PROVE AttestInv'
  <2>a. PICK act \in Act : \E who \in Actors(act) :
          sess' = [sess EXCEPT ![s] = [pc |-> "loaded", act |-> act, actor |-> who,
                                       view |-> case, was |-> "pending"]]
    BY <1>2 DEF Load
  <2>1. /\ sess'[s].pc = "loaded" /\ sess'[s].view = case
        /\ \A t \in Slots : t # s => sess'[t] = sess[t]
    BY <1>1, <2>a DEF TypeOK, Slots
  <2>2. case' = case /\ clock' = clock /\ ~Claimed(s, "attest")
    BY <1>2 DEF Load, Claimed, At
  <2>3. SessionOfCase(s)' /\ ~Claimed(s, "attest")' /\ AttestedInOrder'
    BY <1>1, <2>1, <2>2, PostDecisionAssumption
       DEF SessionOfCase, AttestInv, OneAttester, AttestedInOrder, Claimed, At, V, ClaimDated
  <2> QED
    BY <1>1, <2>1, <2>2, <2>3, AttestSameRow
<1>3. ASSUME NEW s \in Slots, Refuse(s) \/ Die(s) PROVE AttestInv'
  <2>1. /\ Finish(s) /\ case' = case /\ clock' = clock
        /\ Claimed(s, "attest") => mode # "overlap"
    BY <1>3 DEF Refuse, Die, Claimed, At
  <2>2. /\ SessionOfCase(s)' /\ ~Claimed(s, "attest")'
        /\ \A t \in Slots : t # s => sess'[t] = sess[t]
    BY <2>1, FinishSessions, IdleOfCase
  <2>3. AttestedInOrder'
    BY <2>1 DEF AttestInv, AttestedInOrder
  <2> QED
    BY <1>1, <2>1, <2>2, <2>3, AttestSameRow
<1>4. CASE Outside \/ (\E e \in events : Webhook(e)) \/ UNCHANGED vars
  <2>1. case' = case /\ clock' = clock /\ sess' = sess
    BY <1>4 DEF Outside, Webhook, vars
  <2>2. AttestedInOrder'
    BY <2>1 DEF AttestInv, AttestedInOrder
  <2> QED
    BY <1>1, <2>1, <2>2, AttestSameRow
<1>5. CASE TimePasses
  <2>1. case' = case /\ sess' = sess /\ case.hash # "none" /\ clock # "closed"
    BY <1>5 DEF TimePasses
  <2>2. AttestedInOrder' /\ ClaimDated(case)'
    BY <1>1, <2>1 DEF AttestInv, AttestedInOrder, OneAttester, ClaimDated
  <2> QED
    BY <1>1, <2>1, <2>2, AttestKeep
<1>6. CASE TtlElapses \/ Unstick
  <2>1. /\ sess' = sess /\ clock' = clock /\ case'.hash = case.hash
        /\ case'.record = case.record /\ case'.accepted = case.accepted
    BY <1>1, <1>6 DEF TtlElapses, Unstick, Case
  <2>2. \A t \in Slots : ~Claimed(t, "attest")
    <3> SUFFICES ASSUME NEW t \in Slots, Claimed(t, "attest") PROVE FALSE
      OBVIOUS
    <3>1. t \in Requests /\ case.started = "fresh"
      BY DEF AttestInv, OneAttester, ViewsOfCase, SessionOfCase, Claimed, At, Slots
    <3> QED
      BY <1>6, <3>1 DEF TtlElapses, Unstick, Claimed
  <2>3. ViewsOfCase'
    <3> SUFFICES ASSUME NEW t \in Slots PROVE SessionOfCase(t)'
      BY DEF ViewsOfCase
    <3>1. SessionOfCase(t)
      BY DEF AttestInv, ViewsOfCase
    <3>2. At(t, "charge") => Offer(V(t))' = Offer(V(t))
      BY <2>1, <3>1, OfferKept DEF SessionOfCase, V
    <3> QED
      BY <1>1, <2>1, <3>1, <3>2 DEF SessionOfCase, At, V, ClaimDated, Claimed
  <2>4. \A t \in Slots : ~Claimed(t, "attest")'
    BY <2>1, <2>2 DEF Claimed, At
  <2>5. CASE TtlElapses
    <3>1. case'.status = case.status /\ case'.started = "stale"
      BY <1>1, <2>5 DEF TtlElapses, Case
    <3>2. case.status = "processing_attestation" => mode # "overlap"
      BY <2>2 DEF AttestInv, OneAttester, Slots
    <3>3. AttestedInOrder' /\ OneAttester'
      BY <1>1, <2>1, <2>4, <3>1, <3>2
         DEF AttestInv, AttestedInOrder, OneAttester, ClaimDated
    <3> QED
      BY <2>3, <3>3 DEF AttestInv
  <2>6. CASE Unstick
    <3>1. \/ case.status = "processing_appeal" /\ case'.status = "attested"
          \/ case.status = "processing_attestation" /\ case'.status = "reviewed"
      BY <1>1, <2>6 DEF Unstick, Case
    <3>2. AttestedInOrder' /\ OneAttester'
      BY <1>1, <2>1, <2>4, <3>1
         DEF AttestInv, AttestedInOrder, OneAttester, ClaimDated
    <3> QED
      BY <2>3, <3>2 DEF AttestInv
  <2> QED
    BY <1>6, <2>5, <2>6
<1> QED
  BY <1>1, <1>2, <1>3, <1>4, <1>5, <1>6, AttestingKeeps, ContestingKeeps, AppealKeeps,
     ClosingKeeps DEF Next, Request


-----------------------------------------------------------------------------
(* Who is under way, when requests do not overlap.                         *)

(* A request that was not loaded in this step was asked for before.        *)
LEMMA NextAsked == TypeOK /\ Asked /\ ViewsOfCase /\ [Next]_vars => Asked'
<1> SUFFICES ASSUME TypeOK, Asked, ViewsOfCase, [Next]_vars PROVE Asked'
  OBVIOUS
<1> USE DEF Slots
<1>1. ASSUME NEW s \in Slots, NEW point \in {"claimed", "saved", "reload", "issue"}, NEW view,
             Goto(s, point, view)
      PROVE  Asked'
  BY <1>1, GotoSessions DEF Asked, At
<1>2. ASSUME NEW s \in Slots, Finish(s) PROVE Asked'
  BY <1>2, FinishSessions, IdleTypes DEF Asked, At
<1>3. ASSUME sess' = sess PROVE Asked'
  BY <1>3 DEF Asked, At
<1>4. ASSUME NEW s \in Requests, Load(s) PROVE Asked'
  <2>1. PICK act \in Act : \E who \in Actors(act) :
          sess' = [sess EXCEPT ![s] = [pc |-> "loaded", act |-> act, actor |-> who,
                                       view |-> case, was |-> "pending"]]
    BY <1>4 DEF Load
  <2>2. /\ sess'[s].actor \in Actors(sess'[s].act)
        /\ \A t \in Slots : t # s => sess'[t] = sess[t]
    BY <2>1 DEF TypeOK
  <2> QED
    BY <2>2 DEF Asked, At
<1>5. ASSUME NEW s \in Requests, RegisterContest(s) PROVE Asked'
  <2>1. /\ sess'[s] = Idle \/ sess'[s].pc = "running"
        /\ sess'[Job].pc = "running"
        /\ \A t \in Slots : t \notin {s, Job} => sess'[t] = sess[t]
    BY <1>5 DEF RegisterContest, TypeOK, Session
  <2> QED
    BY <2>1, IdleTypes DEF Asked, At
<1>6. ASSUME NEW s \in Requests, AskCheckout(s) PROVE Asked'
  <2>1. CASE Finish(s)
    BY <1>2, <2>1
  <2>2. CASE ~Finish(s)
    <3>1. /\ sess'[s].pc = "charge"
          /\ \A t \in Slots : t # s => sess'[t] = sess[t]
      BY <1>6, <2>2 DEF AskCheckout, TypeOK, Session
    <3> QED
      BY <3>1 DEF Asked, At
  <2> QED
    BY <2>1, <2>2
<1>7. ASSUME NEW s \in Requests, Request(s) PROVE Asked'
  BY <1>1, <1>2, <1>5, <1>6, <1>7
     DEF Request, Refuse, Attesting, ClaimAttestation, SaveAttestation, SaveAttestationRecord,
         Contesting, ClaimAppeal, RefuseAppeal, Closing, AcceptDecision, SignAward, Reload,
         AskRecord, IssueRecord, Paying, Charge, ChargeFails
<1>8. CASE AppealJob
  BY <1>1, <1>2, <1>8 DEF AppealJob, CompleteAppeal, RevertContest, IssueRecord
<1> QED
  BY <1>2, <1>3, <1>4, <1>7, <1>8
     DEF Next, Die, Outside, Webhook, TimePasses, TtlElapses, Unstick, vars


(* While one is under way the others are idle, or the job's model runs.    *)
LEMMA OthersRest ==
  ASSUME Alone, ViewsOfCase, NEW s \in Slots, Active(s)
  PROVE  \A t \in Slots : t # s => At(t, "idle") \/ (t = Job /\ At(t, "running"))
BY DEF Alone, Active, ViewsOfCase, SessionOfCase, At, Slots

(* Nobody sets out while another is under way.                             *)
LEMMA AloneKeep ==
  ASSUME Alone,
         \A t \in Slots : Active(t)' => \/ Active(t)
                                        \/ \A o \in Slots : o # t => ~Active(o) /\ ~Active(o)'
  PROVE  Alone'
BY DEF Alone

(* One actor at a time.                                                    *)
LEMMA NextAlone == TypeOK /\ Alone /\ mode # "overlap" /\ [Next]_vars => Alone'
<1> SUFFICES ASSUME TypeOK, Alone, mode # "overlap", [Next]_vars PROVE Alone'
  OBVIOUS
<1> USE DEF Slots
<1>0. DOMAIN sess = Slots
  BY DEF TypeOK
<1>1. ASSUME NEW s \in Slots, Active(s), NEW point, NEW view, Goto(s, point, view) PROVE Alone'
  <2>1. \A t \in Slots : t # s => sess'[t] = sess[t]
    BY <1>1, GotoSessions
  <2> QED
    BY <1>1, <2>1, AloneKeep DEF Active
<1>2. ASSUME NEW s \in Slots, Finish(s) PROVE Alone'
  <2>1. ~Active(s)' /\ \A t \in Slots : t # s => sess'[t] = sess[t]
    BY <1>2, FinishSessions, IdleTypes DEF Active
  <2> QED
    BY <2>1, AloneKeep DEF Active
<1>3. ASSUME sess' = sess PROVE Alone'
  BY <1>3 DEF Alone, Active
<1>4. ASSUME NEW s \in Requests, Load(s) PROVE Alone'
  <2>a. PICK act \in Act : \E who \in Actors(act) :
          sess' = [sess EXCEPT ![s] = [pc |-> "loaded", act |-> act, actor |-> who,
                                       view |-> case, was |-> "pending"]]
    BY <1>4 DEF Load
  <2>1. \A t \in Slots : t # s => sess'[t] = sess[t]
    BY <2>a DEF TypeOK
  <2>2. \A o \in Slots : o # s => ~Active(o)
    BY <1>0, <1>4 DEF Load, Turn, Active
  <2> QED
    BY <2>1, <2>2, AloneKeep DEF Active
<1>5. ASSUME NEW s \in Requests, RegisterContest(s) PROVE Alone'
  <2>1. /\ sess'[s] = Idle \/ sess'[s].pc = "running"
        /\ sess'[Job].pc = "running"
        /\ \A t \in Slots : t \notin {s, Job} => sess'[t] = sess[t]
    BY <1>5 DEF RegisterContest, TypeOK, Session
  <2>2. ~Active(s)' /\ ~Active(Job)'
    BY <2>1, IdleTypes DEF Active
  <2> QED
    BY <2>1, <2>2, AloneKeep DEF Active
<1>6. ASSUME NEW s \in Requests, AskCheckout(s) PROVE Alone'
  <2>1. CASE Finish(s)
    BY <1>2, <2>1
  <2>2. CASE ~Finish(s)
    <3>1. \A t \in Slots : t # s => sess'[t] = sess[t]
      BY <1>6, <2>2 DEF AskCheckout, TypeOK
    <3>2. Active(s)
      BY <1>6 DEF AskCheckout, Doing, At, Active
    <3> QED
      BY <3>1, <3>2, AloneKeep DEF Active
  <2> QED
    BY <2>1, <2>2
<1>7. ASSUME NEW s \in Requests, Request(s) PROVE Alone'
  <2>1. Active(s)
    BY <1>7 DEF Request, Refuse, Attesting, ClaimAttestation, SaveAttestation,
       SaveAttestationRecord, Contesting, ClaimAppeal, RefuseAppeal, RegisterContest, Closing,
       AcceptDecision, SignAward, Reload, AskRecord, IssueRecord, Paying, AskCheckout, Charge,
       ChargeFails, Doing, At, Active
  <2> QED
    BY <1>1, <1>2, <1>5, <1>6, <1>7, <2>1
       DEF Request, Refuse, Attesting, ClaimAttestation, SaveAttestation,
           SaveAttestationRecord, Contesting, ClaimAppeal, RefuseAppeal, Closing,
           AcceptDecision, SignAward, Reload, AskRecord, IssueRecord, Paying, Charge,
           ChargeFails
<1>8. ASSUME NEW outcome \in {"corrected", "upheld"}, CompleteAppeal(outcome) PROVE Alone'
  <2>1. PICK view : Goto(Job, "issue", view)
    BY <1>8 DEF CompleteAppeal
  <2>2. \A t \in Slots : t # Job => sess'[t] = sess[t]
    BY <2>1, GotoSessions
  <2>3. \A o \in Slots : o # Job => ~Active(o)
    BY <1>0, <1>8 DEF CompleteAppeal, Turn, Active
  <2> QED
    BY <2>2, <2>3, AloneKeep DEF Active
<1> QED
  BY <1>2, <1>3, <1>4, <1>7, <1>8
     DEF Next, AppealJob, RevertContest, IssueRecord, Die, Outside, Webhook, TimePasses,
         TtlElapses, Unstick, vars


-----------------------------------------------------------------------------
(* What a request sees, when requests do not overlap.                      *)

(* A view that is the case agrees with it on all that the routes derive;   *)
(* one that may be acted on has its status as well.                        *)
LEMMA SameDerived ==
  ASSUME NEW v, Shows(case, v)
  PROVE  /\ Complete(v) <=> Complete(case)
         /\ CurrentHash(v) = CurrentHash(case)
         /\ Pending(v) <=> Pending(case)
         /\ DecisionIsFinal(v) <=> DecisionIsFinal(case)
         /\ OutcomeKind(v) # "none" => /\ case.status = v.status
                                       /\ OutcomeKind(case) = OutcomeKind(v)
                                       /\ Basis(case) = Basis(v)
<1>1. CurrentHash(v) = CurrentHash(case)
  BY DEF Shows, CurrentHash
<1>2. Complete(v) <=> Complete(case)
  BY <1>1 DEF Shows, Complete, HasAccepted
<1>3. /\ Pending(v) <=> Pending(case)
      /\ DecisionIsFinal(v) <=> DecisionIsFinal(case)
  BY DEF Shows, Pending, DecisionIsFinal
<1>4. ASSUME OutcomeKind(v) # "none"
      PROVE  /\ case.status = v.status
             /\ OutcomeKind(case) = OutcomeKind(v)
             /\ Basis(case) = Basis(v)
  <2>1. case.status = v.status
    BY <1>4 DEF Shows, OutcomeKind
  <2>2. OutcomeKind(case) = OutcomeKind(v)
    BY <2>1 DEF Shows, OutcomeKind, Pending
  <2> QED
    BY <1>2, <2>1, <2>2 DEF Shows, Basis
<1> QED
  BY <1>1, <1>2, <1>3, <1>4

(* An attested case is not an agreement, and what a request sees of it     *)
(* neither.                                                                *)
LEMMA NotAgreement ==
  ASSUME TypeOK, AttestInv, case.hash # "none"
  PROVE  case.status \notin {"agreement", "reviewed", "processing_attestation"}
BY DEF AttestInv, AttestedInOrder

(* While the appeal is being judged every route that would change what is  *)
(* being judged refuses.                                                   *)
LEMMA JudgedRefuses ==
  ASSUME TypeOK, AttestInv, NEW s \in Requests, UpToDate(s), AppealFirst, At(Job, "running")
  PROVE  /\ ~Attesting(s) /\ ~ClaimAppeal(s) /\ ~RegisterContest(s)
         /\ ~AcceptDecision(s) /\ \A adopt \in BOOLEAN : ~SignAward(s, adopt)
         /\ IssueRecord(s) => case' = case
         /\ ~AskCheckout(s) /\ ~Charge(s)
<1>1. /\ s \in Slots /\ s # Job /\ V(s) \in Case /\ case \in Case
  BY ViewTypes, PostDecisionAssumption DEF Slots
<1>2. /\ Pending(case) /\ case.contested /\ case.status = "contested"
  BY DEF AppealFirst
<1>3. ASSUME Shows(case, V(s))
      PROVE  V(s).contested /\ Pending(V(s)) /\ V(s).status = "contested"
  BY <1>2, <1>3, SameDerived DEF Shows
<1>4. ~At(s, "idle") /\ ~At(s, "reload") => OutcomeKind(V(s)) = "none"
  BY <1>3 DEF UpToDate, OutcomeKind
<1>5. ~Attesting(s)
  <2>1. ~ClaimAttestation(s)
    BY <1>3 DEF ClaimAttestation, Doing, At, UpToDate
  <2>2. ~SaveAttestation(s)
    BY <1>1, <1>2 DEF SaveAttestation, AttestInv, OneAttester, Claimed, At
  <2>3. ~SaveAttestationRecord(s)
    BY <1>3 DEF SaveAttestationRecord, UpToDate, At
  <2> QED
    BY <2>1, <2>2, <2>3 DEF Attesting
<1>6. ~ClaimAppeal(s) /\ ~RegisterContest(s)
  BY <1>3 DEF ClaimAppeal, RegisterContest, Doing, At, UpToDate, Claimed
<1>7. ~AcceptDecision(s) /\ \A adopt \in BOOLEAN : ~SignAward(s, adopt)
  BY <1>4 DEF AcceptDecision, SignAward, Doing, At
<1>8. IssueRecord(s) => case' = case
  BY <1>4 DEF IssueRecord, At
<1>9. ~AskCheckout(s) /\ ~Charge(s)
  <2>1. At(s, "charge") => Offer(V(s)) \in Key
    BY <1>1 DEF AttestInv, ViewsOfCase, SessionOfCase
  <2> QED
    BY <1>3, <2>1 DEF AskCheckout, Charge, Doing, At, UpToDate, Offer, Key
<1> QED
  BY <1>5, <1>6, <1>7, <1>8, <1>9

(* So a request leaves the case as it is, and opens no charge.             *)
LEMMA JudgedQuiet ==
  ASSUME TypeOK, AttestInv, NEW s \in Requests, UpToDate(s), AppealFirst,
         At(Job, "running"), Request(s)
  PROVE  case' = case /\ checkout' = checkout
<1>1. \/ Refuse(s) \/ RefuseAppeal(s) \/ Reload(s) \/ AskRecord(s) \/ ChargeFails(s)
      \/ IssueRecord(s) /\ case' = case
  BY JudgedRefuses DEF Request, Contesting, Closing, Paying
<1> QED
  BY <1>1 DEF Refuse, RefuseAppeal, Reload, AskRecord, ChargeFails, IssueRecord,
     settlementVars

(* One that waits still sees the case if what it sees is left alone.       *)
LEMMA ViewKeep ==
  ASSUME NEW t \in Slots, UpToDate(t), sess'[t] = sess[t],
         Shows(case, V(t)) => Shows(case', V(t)),
         At(t, "reload") => OutcomeKind(case)' = "decision"
  PROVE  UpToDate(t)'
BY DEF UpToDate, At, V, Claimed, Complete, HasAccepted, CurrentHash

(* One that goes on.                                                       *)
LEMMA GotoUpToDate ==
  ASSUME TypeOK, NEW s \in Slots, NEW point, NEW view, Goto(s, point, view),
         point # "reload" => Shows(case', view),
         point = "reload" => OutcomeKind(case)' = "decision",
         point = "saved" => view.record = "none" /\ view.status = "attested",
         point \in {"claimed", "saved"} => ~view.contested,
         point = "claimed" /\ sess[s].act = "contest" => ~Complete(view)
  PROVE  UpToDate(s)'
<1>1. sess'[s].pc = point /\ sess'[s].view = view /\ sess'[s].act = sess[s].act
  BY GotoSessions
<1> QED
  BY <1>1 DEF UpToDate, At, V, Claimed, Complete, HasAccepted, CurrentHash

(* One that ends.                                                          *)
LEMMA IdleUpToDate ==
  ASSUME NEW s \in Slots, sess'[s] = Idle
  PROVE  UpToDate(s)'
BY IdleTypes DEF UpToDate, At, Claimed


(* The claim of the attestation, the attestation and its record are seen   *)
(* by the request that makes them.                                         *)
LEMMA AttestingSees ==
  ASSUME TypeOK, AttestInv, NEW s \in Requests, UpToDate(s), Attesting(s)
  PROVE  UpToDate(s)'
<1>1. /\ s \in Slots /\ V(s) \in Case /\ case \in Case
  BY ViewTypes DEF Slots
<1>2. CASE ClaimAttestation(s)
  <2>1. /\ case' \in Case /\ Goto(s, "claimed", case') /\ sess[s].act = "attest"
    BY <1>1, <1>2 DEF ClaimAttestation, Doing, Case
  <2>2. Shows(case', case')
    BY DEF Shows
  <2>3. ~case'.contested
    BY <1>1, <1>2 DEF ClaimAttestation, UpToDate, Doing, At, Shows, Case
  <2>4. sess'[s].pc = "claimed" /\ sess'[s].view = case' /\ sess'[s].act = "attest"
    BY <1>1, <2>1, GotoSessions
  <2> QED
    BY <2>2, <2>3, <2>4 DEF UpToDate, At, V, Claimed
<1>3. CASE SaveAttestation(s)
  <2> DEFINE view == [V(s) EXCEPT !.hash = V(s).decision, !.status = "attested"]
  <2>1. /\ case' = [case EXCEPT !.hash = V(s).decision, !.status = "attested"]
        /\ Goto(s, "saved", view) /\ At(s, "claimed") /\ sess[s].act = "attest"
    BY <1>3 DEF SaveAttestation
  <2>2. Shows(case, V(s)) /\ case.hash = "none" /\ case.record = "none" /\ ~V(s).contested
    BY <1>1, <2>1 DEF UpToDate, At, AttestInv, OneAttester, AttestedInOrder, Claimed
  <2>3. /\ Shows(case', view) /\ view.record = "none" /\ view.status = "attested"
        /\ ~view.contested
    BY <1>1, <2>1, <2>2 DEF Shows, Case
  <2> HIDE DEF view
  <2> QED
    BY <1>1, <2>1, <2>3, GotoUpToDate
<1>4. CASE SaveAttestationRecord(s)
  <2> DEFINE view == [V(s) EXCEPT !.record = V(s).hash]
  <2>1. /\ case' = [case EXCEPT !.record = V(s).hash]
        /\ Goto(s, "issue", view) /\ At(s, "saved")
    BY <1>4 DEF SaveAttestationRecord
  <2>2. Shows(case, V(s))
    BY <2>1 DEF UpToDate, At
  <2>3. Shows(case', view)
    BY <1>1, <2>1, <2>2 DEF Shows, Case
  <2> HIDE DEF view
  <2> QED
    BY <1>1, <2>1, <2>3, GotoUpToDate
<1> QED
  BY <1>2, <1>3, <1>4 DEF Attesting

(* So are the claim of a contest and its end.                              *)
LEMMA ContestingSees ==
  ASSUME TypeOK, AttestInv, NEW s \in Requests, UpToDate(s), Contesting(s)
  PROVE  UpToDate(s)' /\ (UpToDate(Job)' \/ sess'[Job] = sess[Job])
<1>1. /\ s \in Slots /\ s # Job /\ Job \in Slots /\ V(s) \in Case /\ case \in Case
  BY ViewTypes, PostDecisionAssumption DEF Slots
<1>2. CASE ClaimAppeal(s)
  <2>1. /\ case' = [case EXCEPT !.status = "processing_appeal", !.started = "fresh"]
        /\ Goto(s, "claimed", case') /\ At(s, "loaded")
        /\ ~V(s).contested /\ ~Complete(V(s))
    BY <1>2 DEF ClaimAppeal, Doing
  <2>2. Shows(case, V(s))
    BY <2>1 DEF UpToDate, At
  <2>3. Shows(case', case') /\ ~case'.contested
    BY <1>1, <2>1, <2>2 DEF Shows, Case
  <2>4. ~Complete(case')
    <3>1. case'.hash = V(s).hash /\ case'.record = V(s).record /\ case'.accepted = V(s).accepted
      BY <1>1, <2>1, <2>2 DEF Shows, Case
    <3> QED
      BY <2>1, <3>1 DEF Complete, HasAccepted, CurrentHash
  <2>5. /\ sess'[s].pc = "claimed" /\ sess'[s].view = case'
        /\ sess'[Job] = sess[Job]
    BY <1>1, <2>1, GotoSessions
  <2> QED
    BY <2>3, <2>4, <2>5 DEF UpToDate, At, V, Claimed, Complete, HasAccepted, CurrentHash
<1>3. CASE RefuseAppeal(s)
  <2>1. sess'[s] = Idle /\ sess'[Job] = sess[Job]
    BY <1>1, <1>3, FinishSessions DEF RefuseAppeal
  <2> QED
    BY <1>1, <2>1, IdleUpToDate
<1>4. CASE RegisterContest(s)
  <2>1. sess'[s] = Idle /\ sess'[Job].pc = "running" /\ sess'[Job].view = case'
    BY <1>1, <1>4 DEF RegisterContest, TypeOK, Slots, Session
  <2>2. UpToDate(Job)'
    BY <2>1 DEF UpToDate, At, V, Shows, Claimed
  <2> QED
    BY <1>1, <2>1, <2>2, IdleUpToDate
<1> QED
  BY <1>2, <1>3, <1>4 DEF Contesting

(* After an acceptance or an award the outcome is a decision; the record   *)
(* is asked for on the case as it is.                                      *)
LEMMA ClosingSees ==
  ASSUME TypeOK, NEW s \in Requests, UpToDate(s), Closing(s)
  PROVE  UpToDate(s)'
<1>1. /\ s \in Slots /\ V(s) \in Case /\ case \in Case
  BY ViewTypes DEF Slots
<1>2. CASE AcceptDecision(s) \/ \E adopt \in BOOLEAN : SignAward(s, adopt)
  <2>1. /\ Goto(s, "reload", V(s)) /\ At(s, "loaded") /\ OutcomeKind(V(s)) = "decision"
    BY <1>2 DEF AcceptDecision, SignAward, Doing
  <2>2. OutcomeKind(case) = "decision"
    BY <2>1, SameDerived DEF UpToDate, At
  <2>3. /\ case'.status = case.status /\ case'.contested = case.contested
        /\ case'.appeal = case.appeal
    BY <1>1, <1>2 DEF AcceptDecision, SignAward, Case
  <2>4. OutcomeKind(case)' = "decision"
    BY <2>2, <2>3 DEF OutcomeKind, Pending
  <2> QED
    BY <1>1, <2>1, <2>4, GotoUpToDate
<1>3. CASE Reload(s)
  <2>1. CASE Finish(s)
    BY <1>1, <2>1, FinishSessions, IdleUpToDate
  <2>2. CASE ~Finish(s)
    <3>1. Goto(s, "issue", case) /\ case' = case
      BY <1>3, <2>2 DEF Reload
    <3>2. Shows(case', case')
      BY DEF Shows
    <3> QED
      BY <1>1, <3>1, <3>2, GotoUpToDate
  <2> QED
    BY <2>1, <2>2
<1>4. CASE AskRecord(s)
  <2>1. Goto(s, "issue", V(s)) /\ case' = case /\ At(s, "loaded")
    BY <1>4 DEF AskRecord, Doing
  <2>2. Shows(case', V(s))
    BY <2>1 DEF UpToDate, At
  <2> QED
    BY <1>1, <2>1, <2>2, GotoUpToDate
<1> QED
  BY <1>2, <1>3, <1>4 DEF Closing


(* The record as it is issued changes nothing that a request decides on.   *)
LEMMA IssueLeaves ==
  ASSUME TypeOK, NEW s \in Slots, IssueRecord(s)
  PROVE  /\ case'.decision = case.decision /\ case'.hash = case.hash
         /\ case'.record = case.record /\ case'.contested = case.contested
         /\ case'.appeal = case.appeal /\ case'.accepted = case.accepted
         /\ case'.award = case.award /\ case'.status = case.status
         /\ Finish(s)
BY DEF IssueRecord, TypeOK, Case

(* The job ends with the case before it, as it changed it.                 *)
LEMMA AppealSees ==
  ASSUME TypeOK, UpToDate(Job), AppealJob
  PROVE  UpToDate(Job)' /\ \A t \in Slots : t # Job => sess'[t] = sess[t]
<1>1. /\ Job \in Slots /\ V(Job) \in Case /\ case \in Case
  BY ViewTypes DEF Slots
<1>2. ASSUME NEW outcome \in {"corrected", "upheld"}, CompleteAppeal(outcome)
      PROVE  UpToDate(Job)' /\ \A t \in Slots : t # Job => sess'[t] = sess[t]
  <2> DEFINE after(c) == IF outcome = "corrected"
                         THEN [c EXCEPT !.decision = "corrected",
                                        !.record = "corrected", !.appeal = outcome]
                         ELSE [c EXCEPT !.appeal = outcome]
             view == after(V(Job))
  <2>1. case' = after(case) /\ Goto(Job, "issue", view) /\ At(Job, "running")
    BY <1>2 DEF CompleteAppeal
  <2>2. Shows(case, V(Job))
    BY <2>1 DEF UpToDate, At
  <2>3. Shows(after(case), view)
    <3>1. CASE outcome = "corrected"
      BY <1>1, <2>2, <3>1 DEF Shows, Case
    <3>2. CASE outcome # "corrected"
      BY <1>1, <2>2, <3>2 DEF Shows, Case
    <3> QED
      BY <3>1, <3>2
  <2>4. Shows(case', view)
    BY <2>1, <2>3
  <2> HIDE DEF view
  <2> QED
    BY <1>1, <2>1, <2>4, GotoUpToDate, GotoSessions
<1>3. CASE RevertContest \/ IssueRecord(Job)
  <2>1. Finish(Job)
    BY <1>3 DEF RevertContest, IssueRecord
  <2> QED
    BY <1>1, <2>1, FinishSessions, IdleUpToDate
<1> QED
  BY <1>2, <1>3 DEF AppealJob

(* What each one sees stays true, of its own steps and of the others'.     *)
LEMMA NextViews ==
  ASSUME TypeOK, AttestInv, Orderly, mode # "overlap", [Next]_vars
  PROVE  \A t \in Slots : UpToDate(t)'
<1>1. /\ case \in Case /\ Requests \subseteq Slots /\ Job \in Slots /\ Job \notin Requests
      /\ ViewsOfCase
      /\ Alone /\ AppealFirst /\ \A t \in Slots : UpToDate(t)
  BY PostDecisionAssumption DEF TypeOK, Slots, AttestInv, Orderly
<1>2. ASSUME NEW s \in Requests, Load(s), NEW t \in Slots PROVE UpToDate(t)'
  <2>1. PICK act \in Act : \E who \in Actors(act) :
          sess' = [sess EXCEPT ![s] = [pc |-> "loaded", act |-> act, actor |-> who,
                                       view |-> case, was |-> "pending"]]
    BY <1>2 DEF Load
  <2>2. /\ sess'[s].pc = "loaded" /\ sess'[s].view = case /\ case' = case
        /\ t # s => sess'[t] = sess[t]
    BY <1>1, <1>2, <2>1 DEF TypeOK, Slots, Load
  <2>3. CASE t = s
    BY <2>2, <2>3 DEF UpToDate, At, V, Claimed, Shows
  <2>4. CASE t # s
    BY <1>1, <2>2, <2>4, ViewKeep DEF UpToDate, OutcomeKind, Pending
  <2> QED
    BY <2>3, <2>4
<1>3. ASSUME NEW s \in Slots, Finish(s), case' = case, NEW t \in Slots PROVE UpToDate(t)'
  <2>1. sess'[s] = Idle /\ (t # s => sess'[t] = sess[t])
    BY <1>3, FinishSessions
  <2> QED
    BY <1>1, <1>3, <2>1, IdleUpToDate, ViewKeep DEF UpToDate, OutcomeKind, Pending
<1>4. ASSUME sess' = sess, case' = case, NEW t \in Slots PROVE UpToDate(t)'
  BY <1>1, <1>4, ViewKeep DEF UpToDate, OutcomeKind, Pending
<1>5. ASSUME NEW s \in Requests, Request(s), NEW t \in Slots PROVE UpToDate(t)'
  <2>1. s \in Slots /\ s # Job /\ Active(s)
    BY <1>1, <1>5 DEF Request, Refuse, Attesting, ClaimAttestation, SaveAttestation,
       SaveAttestationRecord, Contesting, ClaimAppeal, RefuseAppeal, RegisterContest, Closing,
       AcceptDecision, SignAward, Reload, AskRecord, IssueRecord, Paying, AskCheckout, Charge,
       ChargeFails, Doing, At, Active
  <2>2. \A o \in Slots : o # s => At(o, "idle") \/ (o = Job /\ At(o, "running"))
    BY <1>1, <2>1, OthersRest
  <2>3. /\ UpToDate(s)'
        /\ \A o \in Slots : \/ o = s \/ sess'[o] = sess[o]
                            \/ o = Job /\ UpToDate(Job)'
    <3>1. ASSUME NEW point, NEW view, Goto(s, point, view)
          PROVE  \A o \in Slots : o # s => sess'[o] = sess[o]
      BY <2>1, <3>1, GotoSessions
    <3>2. ASSUME Finish(s)
          PROVE  UpToDate(s)' /\ \A o \in Slots : o # s => sess'[o] = sess[o]
      BY <2>1, <3>2, FinishSessions, IdleUpToDate
    <3>3. CASE Attesting(s)
      BY <1>1, <3>1, <3>3, AttestingSees
         DEF Attesting, ClaimAttestation, SaveAttestation, SaveAttestationRecord
    <3>4. CASE Contesting(s)
      <4>1. \A o \in Slots : o \notin {s, Job} => sess'[o] = sess[o]
        BY <3>1, <3>2, <3>4 DEF Contesting, ClaimAppeal, RefuseAppeal, RegisterContest,
           TypeOK, Slots
      <4> QED
        BY <1>1, <3>4, <4>1, ContestingSees
    <3>5. CASE Closing(s)
      BY <1>1, <3>1, <3>2, <3>5, ClosingSees
         DEF Closing, AcceptDecision, SignAward, Reload, AskRecord
    <3>6. CASE AskCheckout(s)
      <4>1. CASE ~Finish(s)
        <5>1. /\ sess'[s].pc = "charge" /\ sess'[s].view = V(s) /\ case' = case
              /\ \A o \in Slots : o # s => sess'[o] = sess[o]
          BY <2>1, <3>6, <4>1 DEF AskCheckout, TypeOK, Slots, Session, V
        <5>2. Shows(case, V(s))
          BY <1>1, <2>1, <3>6 DEF AskCheckout, Doing, UpToDate, At
        <5> QED
          BY <5>1, <5>2 DEF UpToDate, At, V, Claimed
      <4> QED
        BY <3>2, <4>1
    <3>7. CASE Refuse(s) \/ IssueRecord(s) \/ Charge(s) \/ ChargeFails(s)
      BY <3>2, <3>7 DEF Refuse, IssueRecord, Charge, ChargeFails
    <3> QED
      BY <1>5, <3>3, <3>4, <3>5, <3>6, <3>7 DEF Request, Paying
  <2>4. ASSUME t # s, sess'[t] = sess[t], At(t, "idle") PROVE UpToDate(t)'
    BY <2>4 DEF UpToDate, At, Claimed
  <2>5. ASSUME t = Job, sess'[t] = sess[t], At(t, "running") PROVE UpToDate(t)'
    <3>1. case' = case
      BY <1>1, <1>5, <2>1, <2>5, JudgedQuiet
    <3> QED
      BY <1>1, <2>5, <3>1, ViewKeep DEF At
  <2> QED
    BY <2>1, <2>2, <2>3, <2>4, <2>5
<1>6. ASSUME AppealJob, NEW t \in Slots PROVE UpToDate(t)'
  <2>1. UpToDate(Job)' /\ \A o \in Slots : o # Job => sess'[o] = sess[o]
    BY <1>1, <1>6, AppealSees
  <2>2. CASE IssueRecord(Job)
    <3>1. Active(Job)
      BY <2>2 DEF IssueRecord, At, Active
    <3>2. \A o \in Slots : o # Job => At(o, "idle")
      BY <1>1, <3>1, OthersRest
    <3> QED
      BY <2>1, <3>2 DEF UpToDate, At, Claimed
  <2>3. CASE ~IssueRecord(Job)
    <3>1. Turn(Job)
      BY <1>6, <2>3 DEF AppealJob, CompleteAppeal, RevertContest
    <3>2. \A o \in Slots : o # Job => At(o, "idle")
      BY <1>1, <3>1 DEF Turn, TypeOK, Slots, ViewsOfCase, SessionOfCase, At
    <3> QED
      BY <2>1, <3>2 DEF UpToDate, At, Claimed
  <2> QED
    BY <2>2, <2>3
<1>7. ASSUME TtlElapses \/ Unstick, NEW t \in Slots PROVE UpToDate(t)'
  <2>1. /\ sess' = sess /\ case.status \in {"processing_attestation", "processing_appeal"}
        /\ case'.decision = case.decision /\ case'.hash = case.hash
        /\ case'.record = case.record /\ case'.contested = case.contested
        /\ case'.appeal = case.appeal /\ case'.accepted = case.accepted
        /\ case'.award = case.award /\ case'.basis = case.basis
        /\ \/ case'.status = case.status
           \/ case.status = "processing_appeal" /\ case'.status = "attested"
           \/ case.status = "processing_attestation" /\ case'.status = "reviewed"
    BY <1>1, <1>7 DEF TtlElapses, Unstick, Case
  <2>2. Shows(case, V(t)) => Shows(case', V(t))
    BY <2>1 DEF Shows
  <2>3. ~At(t, "reload")
    BY <1>1, <2>1 DEF UpToDate, OutcomeKind
  <2> QED
    BY <1>1, <2>1, <2>2, <2>3, ViewKeep
<1> QED
  BY <1>1, <1>2, <1>3, <1>4, <1>5, <1>6, <1>7
     DEF Next, Die, Outside, Webhook, TimePasses, vars


-----------------------------------------------------------------------------
(* The outcome of the case.                                                *)

(* A step that leaves what the outcome rests on.                           *)
SameOutcome ==
  /\ case'.decision = case.decision /\ case'.hash = case.hash
  /\ case'.record = case.record /\ case'.contested = case.contested
  /\ case'.appeal = case.appeal /\ case'.accepted = case.accepted
  /\ case'.award = case.award
  /\ case'.status = "agreement" <=> case.status = "agreement"
  /\ clock = "closed" => clock' = "closed"

(* Eight operations change what the outcome rests on.                      *)
OutcomeStep ==
  \/ \E s \in Requests : \/ SaveAttestation(s) \/ SaveAttestationRecord(s)
                         \/ RegisterContest(s) \/ AcceptDecision(s)
                         \/ \E adopt \in BOOLEAN : SignAward(s, adopt)
  \/ \E outcome \in {"corrected", "upheld"} : CompleteAppeal(outcome)
  \/ RevertContest

(* The others do not, and none of them starts the job or changes the       *)
(* status of the case it judges.                                           *)
LEMMA OutcomeSteps ==
  ASSUME TypeOK, AttestInv, Orderly, [Next]_vars, ~OutcomeStep
  PROVE  /\ SameOutcome
         /\ At(Job, "running")' => At(Job, "running") /\ case'.status = case.status
<1> DEFINE Goal == /\ SameOutcome
                   /\ At(Job, "running")' => At(Job, "running") /\ case'.status = case.status
<1>1. /\ case \in Case /\ Requests \subseteq Slots /\ Job \in Slots /\ Job \notin Requests
      /\ AppealFirst /\ \A t \in Slots : UpToDate(t)
  BY PostDecisionAssumption DEF TypeOK, Slots, Orderly
<1>2. ASSUME case' = case, clock' = clock,
             At(Job, "running")' => At(Job, "running")
      PROVE  Goal
  BY <1>2 DEF SameOutcome
<1>3. ASSUME NEW s \in Slots, Finish(s), case' = case, clock' = clock PROVE Goal
  <2>1. At(Job, "running")' => At(Job, "running")
    BY <1>1, <1>3, FinishSessions, IdleTypes DEF At
  <2> QED
    BY <1>2, <1>3, <2>1
<1>4. ASSUME NEW s \in Requests, ClaimAttestation(s) \/ ClaimAppeal(s) PROVE Goal
  <2>1. /\ clock' = clock /\ Goto(s, "claimed", case')
        /\ case'.decision = case.decision /\ case'.hash = case.hash
        /\ case'.record = case.record /\ case'.contested = case.contested
        /\ case'.appeal = case.appeal /\ case'.accepted = case.accepted
        /\ case'.award = case.award
        /\ case'.status \in {"processing_attestation", "processing_appeal"}
    BY <1>1, <1>4 DEF ClaimAttestation, ClaimAppeal, Case
  <2>2. case.status # "agreement"
    BY <1>4 DEF ClaimAttestation, ClaimAppeal, ClaimMatches
  <2>3. ~At(Job, "running") /\ s \in Slots /\ s # Job
    BY <1>1, <1>4, JudgedRefuses DEF Attesting
  <2>4. ~At(Job, "running")'
    BY <1>1, <2>1, <2>3, GotoSessions DEF At
  <2> QED
    BY <2>1, <2>2, <2>4 DEF SameOutcome
<1>5. ASSUME NEW s \in Slots, IssueRecord(s) PROVE Goal
  <2>1. At(Job, "running")' => At(Job, "running")
    BY <1>1, <1>5, FinishSessions, IdleTypes DEF At, IssueRecord
  <2> QED
    BY <1>5, <2>1, IssueLeaves DEF SameOutcome, IssueRecord
<1>6. ASSUME NEW s \in Requests, Reload(s) \/ AskRecord(s) PROVE Goal
  <2>1. CASE Finish(s)
    BY <1>1, <1>3, <1>6, <2>1 DEF Reload, AskRecord
  <2>2. CASE ~Finish(s)
    <3>1. PICK view : Goto(s, "issue", view)
      BY <1>6, <2>2 DEF Reload, AskRecord
    <3>2. At(Job, "running")' => At(Job, "running")
      BY <1>1, <3>1, GotoSessions DEF At
    <3> QED
      BY <1>2, <1>6, <3>2 DEF Reload, AskRecord
  <2> QED
    BY <2>1, <2>2
<1>7. ASSUME NEW s \in Requests, Paying(s) PROVE Goal
  <2>1. CASE Finish(s)
    BY <1>1, <1>3, <1>7, <2>1 DEF Paying, AskCheckout, Charge, ChargeFails
  <2>2. CASE ~Finish(s)
    <3>1. At(Job, "running")' => At(Job, "running")
      BY <1>1, <1>7, <2>2 DEF Paying, AskCheckout, Charge, ChargeFails, TypeOK, Slots, At
    <3> QED
      BY <1>2, <1>7, <3>1 DEF Paying, AskCheckout, Charge, ChargeFails
  <2> QED
    BY <2>1, <2>2
<1>8. ASSUME NEW s \in Requests, Load(s) PROVE Goal
  <2>1. PICK act \in Act : \E who \in Actors(act) :
          sess' = [sess EXCEPT ![s] = [pc |-> "loaded", act |-> act, actor |-> who,
                                       view |-> case, was |-> "pending"]]
    BY <1>8 DEF Load
  <2>2. At(Job, "running")' => At(Job, "running")
    BY <1>1, <2>1 DEF TypeOK, Slots, At
  <2> QED
    BY <1>2, <1>8, <2>2 DEF Load
<1>9. ASSUME TtlElapses \/ Unstick PROVE Goal
  <2>1. /\ sess' = sess /\ clock' = clock
        /\ case.status \in {"processing_attestation", "processing_appeal"}
        /\ case'.decision = case.decision /\ case'.hash = case.hash
        /\ case'.record = case.record /\ case'.contested = case.contested
        /\ case'.appeal = case.appeal /\ case'.accepted = case.accepted
        /\ case'.award = case.award /\ case'.status # "agreement"
    BY <1>1, <1>9 DEF TtlElapses, Unstick, Case
  <2>2. ~At(Job, "running")
    BY <1>1, <2>1 DEF AppealFirst
  <2> QED
    BY <2>1, <2>2 DEF SameOutcome, At
<1>10. ASSUME TimePasses PROVE Goal
  BY <1>10 DEF TimePasses, SameOutcome, At
<1>11. ASSUME sess' = sess, case' = case, clock' = clock PROVE Goal
  BY <1>2, <1>11 DEF At
<1>12. ASSUME NEW s \in Requests, Request(s) PROVE Goal
  <2>1. \/ Refuse(s) \/ ClaimAttestation(s) \/ ClaimAppeal(s) \/ RefuseAppeal(s)
        \/ Reload(s) \/ AskRecord(s) \/ IssueRecord(s) \/ Paying(s)
    BY <1>12 DEF OutcomeStep, Request, Attesting, Contesting, Closing
  <2> HIDE DEF Goal
  <2> QED
    BY <1>1, <1>3, <1>4, <1>5, <1>6, <1>7, <2>1 DEF Refuse, RefuseAppeal
<1> HIDE DEF Goal
<1>13. Goal
  BY <1>1, <1>3, <1>5, <1>8, <1>9, <1>10, <1>11, <1>12
     DEF Next, AppealJob, OutcomeStep, Die, Outside, Webhook, vars
<1> QED
  BY <1>13 DEF Goal


(* Stripe and its webhook use no session that was not, nor move one to     *)
(* another charge; what is expired stays so.                               *)
LEMMA StripeLeaves ==
  ASSUME SettlementTypeOK, Unpaid, Stripe \/ \E e \in events : Deliver(e)
  PROVE  /\ Used' = Used
         /\ \A i \in SessionId : /\ checkout'[i].key = checkout[i].key
                                 /\ checkout[i].state = "expired" => checkout'[i].state = "expired"
         /\ \A k \in Key : payments'[k].session = payments[k].session
<1> DEFINE Goal == /\ Used' = Used
                   /\ \A i \in SessionId :
                        /\ checkout'[i].key = checkout[i].key
                        /\ checkout[i].state = "expired" => checkout'[i].state = "expired"
                   /\ \A k \in Key : payments'[k].session = payments[k].session
<1>1. /\ payments \in [Key -> Payment] /\ checkout \in [SessionId -> Checkout]
      /\ events \subseteq Event
  BY DEF SettlementTypeOK
<1>3. ASSUME NEW i \in SessionId, NEW m \in {"processing", "paid"}, PayerPays(i, m)
      PROVE  Goal
  BY <1>1, <1>3 DEF PayerPays, Checkout, Used
<1>4. ASSUME NEW i \in SessionId, NEW m \in {"paid", "failed"}, MoneyArrives(i, m)
      PROVE  Goal
  <2>1. checkout[i].state = "complete"
    BY <1>1, <1>4 DEF MoneyArrives, Unpaid, Checkout
  <2> QED
    BY <1>1, <1>4, <2>1 DEF MoneyArrives, Checkout, Used
<1>5. ASSUME NEW i \in SessionId, SessionExpires(i) PROVE Goal
  BY <1>1, <1>5 DEF SessionExpires, Checkout, Used
<1>6. ASSUME NEW e \in events, Deliver(e) PROVE Goal
  <2>1. \A p \in Payment : ApplyEvent(p, e).session = p.session
    BY <1>1 DEF ApplyEvent, Payment
  <2> QED
    BY <1>1, <1>6, <2>1 DEF Deliver, Used
<1> QED
  BY <1>3, <1>4, <1>5, <1>6 DEF Stripe


(* A session that is not complete has none of the payer's money, whatever  *)
(* Stripe and the requests do.                                             *)
LEMMA NextUnpaid == TypeOK /\ Unpaid /\ [Next]_vars => Unpaid'
<1> SUFFICES ASSUME TypeOK, Unpaid, [Next]_vars PROVE Unpaid'
  OBVIOUS
<1>1. checkout \in [SessionId -> Checkout]
  BY DEF TypeOK, SettlementTypeOK
<1>2. CASE checkout' = checkout
  BY <1>2 DEF Unpaid
<1>3. ASSUME NEW s \in Requests, Charge(s) PROVE Unpaid'
  <2>1. PICK i \in SessionId : OpenSession(Offer(V(s)), i, sess[s].was)
    BY <1>3 DEF Charge
  <2> QED
    BY <1>1, <2>1 DEF OpenSession, Unpaid
<1>4. CASE Stripe
  <2>1. ASSUME NEW i \in SessionId, NEW m \in {"processing", "paid"}, PayerPays(i, m)
        PROVE  Unpaid'
    BY <1>1, <2>1 DEF PayerPays, Unpaid, Checkout
  <2>2. ASSUME NEW i \in SessionId, NEW m \in {"paid", "failed"}, MoneyArrives(i, m)
        PROVE  Unpaid'
    BY <1>1, <2>2 DEF MoneyArrives, Unpaid, Checkout
  <2>3. ASSUME NEW i \in SessionId, SessionExpires(i) PROVE Unpaid'
    BY <1>1, <2>3 DEF SessionExpires, Unpaid, Checkout
  <2> QED
    BY <1>4, <2>1, <2>2, <2>3 DEF Stripe
<1> QED
  BY <1>2, <1>3, <1>4
     DEF Next, Load, Request, Refuse, Attesting, ClaimAttestation, SaveAttestation,
         SaveAttestationRecord, Contesting, ClaimAppeal, RefuseAppeal, RegisterContest, Closing,
         AcceptDecision, SignAward, Reload, AskRecord, IssueRecord, Paying, AskCheckout,
         ChargeFails, Die, AppealJob, CompleteAppeal, RevertContest, Outside, Webhook, Deliver,
         TimePasses, TtlElapses, Unstick, vars, settlementVars

(* Only a charge uses a new session.                                       *)
LEMMA UsedSteps ==
  ASSUME TypeOK, Unpaid, [Next]_vars, \A s \in Requests : ~Charge(s)
  PROVE  Used' = Used
<1>1. checkout' = checkout => Used' = Used
  BY DEF Used
<1>2. SettlementTypeOK
  BY DEF TypeOK
<1>3. CASE Outside \/ \E e \in events : Webhook(e)
  BY <1>2, <1>3, StripeLeaves DEF Outside, Webhook
<1> QED
  BY <1>1, <1>3
     DEF Next, Load, Request, Refuse, Attesting, ClaimAttestation, SaveAttestation,
         SaveAttestationRecord, Contesting, ClaimAppeal, RefuseAppeal, RegisterContest, Closing,
         AcceptDecision, SignAward, Reload, AskRecord, IssueRecord, Paying, AskCheckout,
         ChargeFails, Die, AppealJob, CompleteAppeal, RevertContest,
         TimePasses, TtlElapses, Unstick, vars, settlementVars

(* What is on offer in a view of the case is the charge of now, and the    *)
(* case is ready for it.                                                   *)
LEMMA OfferNow ==
  ASSUME NEW v, Shows(case, v), Offer(v) \in Key
  PROVE  /\ Offer(v) = KeyNow
         /\ \/ case.status = "agreement"
            \/ case.record # "none" /\ case.hash # "none" /\ ~Pending(case)
               /\ (clock = "closed" \/ case.appeal # "none" \/ Complete(case))
<1>1. CASE v.status = "agreement"
  BY <1>1 DEF Shows, Offer, KeyNow
<1>2. CASE v.status # "agreement"
  <2>1. /\ v.hash # "none" /\ v.record # "none" /\ ~Pending(v)
        /\ clock = "closed" \/ v.appeal # "none" \/ Complete(v)
        /\ Offer(v) = v.record
    BY <1>2 DEF Offer, Key
  <2>2. case.status # "agreement"
    BY <1>2 DEF Shows
  <2> QED
    BY <2>1, <2>2, SameDerived DEF Shows, KeyNow
<1> QED
  BY <1>1, <1>2

(* Both parties' acceptance of the attestation in force stays.             *)
LEMMA CompleteStays ==
  ASSUME TypeOK, NEW row, case.hash # "none", row.hash = case.hash,
         case.accepted \subseteq row.accepted, Complete(case)
  PROVE  Complete(row)
BY DEF Complete, HasAccepted, CurrentHash


(* What is settled is out of the appeal's reach, and one outcome closes    *)
(* the case, across every step.                                            *)
LEMMA NextOutcome ==
  ASSUME TypeOK, AttestInv, Orderly, Unpaid, mode # "overlap", [Next]_vars
  PROVE  AppealFirst' /\ OneOutcome'
<1>1. /\ case \in Case /\ Requests \subseteq Slots /\ Job \in Slots /\ Job \notin Requests
      /\ AppealFirst /\ OneOutcome /\ \A t \in Slots : UpToDate(t) /\ V(t) \in Case
      /\ \A t \in Slots : SessionOfCase(t)
  BY ViewTypes, PostDecisionAssumption DEF TypeOK, Slots, Orderly, AttestInv, ViewsOfCase
<1>2. ASSUME SameOutcome,
             At(Job, "running")' => At(Job, "running") /\ case'.status = case.status,
             \/ Used' = Used
             \/ /\ ~At(Job, "running")
                /\ \/ case.status = "agreement"
                   \/ case.record # "none" /\ (Final \/ Complete(case))
      PROVE  AppealFirst' /\ OneOutcome'
  <2>1. Complete(case)' <=> Complete(case)
    BY <1>2 DEF SameOutcome, Complete, HasAccepted, CurrentHash
  <2>2. Final => Final'
    BY <1>2 DEF SameOutcome, Final
  <2>3. /\ Pending(case)' <=> Pending(case)
        /\ case'.award = case.award /\ case'.contested = case.contested
        /\ case'.record = case.record /\ case'.hash = case.hash
        /\ case'.status = "agreement" <=> case.status = "agreement"
    BY <1>2 DEF SameOutcome, Pending
  <2>4. OneOutcome'
    BY <1>1, <2>1, <2>3 DEF OneOutcome
  <2>5. AppealFirst'
    BY <1>1, <1>2, <2>1, <2>2, <2>3 DEF AppealFirst, Settled
  <2> QED
    BY <2>4, <2>5
<1>3. ASSUME NEW s \in Requests, Charge(s) PROVE AppealFirst' /\ OneOutcome'
  <2>1. case' = case /\ clock' = clock /\ At(s, "charge")
    BY <1>3 DEF Charge
  <2>2. ~At(Job, "running")
    BY <1>1, <1>3, JudgedRefuses
  <2>3. Shows(case, V(s)) /\ Offer(V(s)) \in Key
    BY <1>1, <2>1 DEF UpToDate, SessionOfCase, At
  <2>4. \/ case.status = "agreement"
        \/ case.record # "none" /\ (Final \/ Complete(case))
    BY <1>1, <2>3, OfferNow DEF Final, Pending, Case
  <2>5. ~At(Job, "running")'
    BY <1>1, <1>3, <2>2, FinishSessions, IdleTypes DEF Charge, At
  <2> QED
    BY <1>2, <2>1, <2>2, <2>4, <2>5 DEF SameOutcome
<1>4. ASSUME ~OutcomeStep, \A s \in Requests : ~Charge(s) PROVE AppealFirst' /\ OneOutcome'
  BY <1>2, <1>4, OutcomeSteps, UsedSteps
<1>5. ASSUME NEW s \in Requests, SaveAttestation(s) PROVE AppealFirst' /\ OneOutcome'
  <2>1. /\ case.status = "processing_attestation" /\ case.hash = "none"
        /\ case.accepted = {} /\ case.record = "none" /\ clock = "reflection"
    BY <1>1, <1>5 DEF SaveAttestation, AttestInv, OneAttester, AttestedInOrder, Claimed
  <2>2. /\ case'.accepted = {} /\ case'.award = case.award /\ case'.appeal = case.appeal
        /\ case'.contested = case.contested /\ checkout' = checkout
    BY <1>1, <1>5, <2>1 DEF SaveAttestation, Case, settlementVars
  <2>3. Used = {} /\ Used' = {}
    BY <1>1, <2>1, <2>2 DEF AppealFirst, Complete, HasAccepted, Party, Used
  <2>4. ~At(Job, "running")'
    <3>1. PICK view : Goto(s, "saved", view)
      BY <1>5 DEF SaveAttestation
    <3>2. ~At(Job, "running")
      BY <1>1, <1>5, JudgedRefuses DEF Attesting
    <3> QED
      BY <1>1, <3>1, <3>2, GotoSessions DEF At
  <2>5. ~Complete(case)'
    BY <2>2 DEF Complete, HasAccepted, Party
  <2>6. Final => Final'
    BY <2>1, <2>2 DEF Final
  <2> QED
    BY <1>1, <2>1, <2>2, <2>3, <2>4, <2>5, <2>6 DEF AppealFirst, OneOutcome, Pending
<1>6. ASSUME NEW s \in Requests, SaveAttestationRecord(s) PROVE AppealFirst' /\ OneOutcome'
  <2>1. Shows(case, V(s)) /\ V(s).hash # "none" /\ V(s).record = "none"
    BY <1>1, <1>6, PostDecisionAssumption DEF SaveAttestationRecord, UpToDate, SessionOfCase, At
  <2>2. /\ case'.hash = case.hash /\ case.hash # "none" /\ case'.record = V(s).hash
        /\ case'.accepted = case.accepted /\ case'.award = case.award
        /\ case'.appeal = case.appeal /\ case'.contested = case.contested
        /\ case'.status = case.status /\ clock' = clock /\ checkout' = checkout
    BY <1>1, <1>6, <2>1 DEF SaveAttestationRecord, Case, Shows, settlementVars
  <2>3. Complete(case)' <=> Complete(case)
    BY <2>2 DEF Complete, HasAccepted, CurrentHash
  <2>4. (Final' <=> Final) /\ Used' = Used
    BY <2>2 DEF Final, Used
  <2>5. ~At(Job, "running")'
    <3>1. PICK view : Goto(s, "issue", view)
      BY <1>6 DEF SaveAttestationRecord
    <3>2. ~At(Job, "running")
      BY <1>1, <1>6, JudgedRefuses DEF Attesting
    <3> QED
      BY <1>1, <3>1, <3>2, GotoSessions DEF At
  <2> QED
    BY <1>1, <2>1, <2>2, <2>3, <2>4, <2>5 DEF AppealFirst, OneOutcome, Pending
<1>7. ASSUME NEW s \in Requests, RegisterContest(s) PROVE AppealFirst' /\ OneOutcome'
  <2>1. /\ Shows(case, V(s)) /\ V(s).hash # "none" /\ ~Complete(V(s))
        /\ clock # "closed" /\ case.appeal = "none"
    BY <1>1, <1>7 DEF RegisterContest, UpToDate, SessionOfCase, Claimed, At
  <2>2. case.hash # "none" /\ case.status # "agreement" /\ ~Complete(case) /\ ~Final
    BY <2>1, NotAgreement, SameDerived DEF Shows, Final
  <2>3. Used = {} /\ ~case.award.attested
    BY <1>1, <2>2 DEF AppealFirst
  <2>4. /\ case'.hash = case.hash /\ case'.record = case.record
        /\ case'.accepted = case.accepted /\ case'.award = case.award
        /\ case'.appeal = "processing" /\ case'.contested
        /\ case'.status = "contested" /\ clock' = clock /\ checkout' = checkout
    BY <1>1, <1>7 DEF RegisterContest, Case, settlementVars
  <2>5. ~Complete(case)' /\ Used' = {}
    BY <2>2, <2>3, <2>4 DEF Complete, HasAccepted, CurrentHash, Used
  <2> QED
    BY <2>2, <2>3, <2>4, <2>5 DEF AppealFirst, OneOutcome, Pending, Settled
<1>8. ASSUME NEW s \in Requests, AcceptDecision(s) PROVE AppealFirst' /\ OneOutcome'
  <2>1. /\ Shows(case, V(s)) /\ ~V(s).award.adopted /\ V(s).hash # "none" /\ ~Pending(V(s))
        /\ case'.hash = case.hash /\ case'.record = case.record
        /\ case.accepted \subseteq case'.accepted /\ case'.award = case.award
        /\ case'.appeal = case.appeal /\ case'.contested = case.contested
        /\ case'.status = case.status /\ clock' = clock /\ checkout' = checkout
    BY <1>1, <1>8 DEF AcceptDecision, Eligible, Doing, At, UpToDate, Case, settlementVars
  <2>2. ~case.award.adopted /\ case.hash # "none"
    BY <2>1 DEF Shows
  <2>3. Complete(case) => Complete(case)'
    BY <2>1, <2>2 DEF Complete, HasAccepted, CurrentHash
  <2>4. (Final' <=> Final) /\ Used' = Used
    BY <2>1 DEF Final, Used
  <2>5. ~At(Job, "running")'
    <3>1. PICK view : Goto(s, "reload", view)
      BY <1>8 DEF AcceptDecision
    <3>2. ~At(Job, "running")
      BY <1>1, <1>8, JudgedRefuses
    <3> QED
      BY <1>1, <3>1, <3>2, GotoSessions DEF At
  <2> QED
    BY <1>1, <2>1, <2>2, <2>3, <2>4, <2>5 DEF AppealFirst, OneOutcome, Pending
<1>9. ASSUME NEW s \in Requests, NEW adopt \in BOOLEAN, SignAward(s, adopt)
      PROVE  AppealFirst' /\ OneOutcome'
  <2>1. /\ Shows(case, V(s)) /\ ~Complete(V(s)) /\ DecisionIsFinal(V(s))
        /\ case'.hash = case.hash /\ case'.record = case.record
        /\ case'.accepted = case.accepted /\ case'.award.attested = (V(s).hash # "none")
        /\ case'.appeal = case.appeal /\ case'.contested = case.contested
        /\ case'.status = case.status /\ clock' = clock /\ checkout' = checkout
    BY <1>1, <1>9 DEF SignAward, Doing, At, UpToDate, Case, settlementVars
  <2>2. ~Complete(case) /\ DecisionIsFinal(case) /\ case'.award.attested = (case.hash # "none")
    BY <2>1, SameDerived DEF Shows
  <2>3. ~Complete(case)'
    BY <2>1, <2>2 DEF Complete, HasAccepted, CurrentHash
  <2>4. (Final' <=> Final) /\ Used' = Used /\ (case.hash # "none" => Final)
    BY <1>1, <2>1, <2>2 DEF Final, Used, DecisionIsFinal, Pending, Case
  <2>5. ~At(Job, "running")'
    <3>1. PICK view : Goto(s, "reload", view)
      BY <1>9 DEF SignAward
    <3>2. ~At(Job, "running")
      BY <1>1, <1>9, JudgedRefuses
    <3> QED
      BY <1>1, <3>1, <3>2, GotoSessions DEF At
  <2> QED
    BY <1>1, <2>1, <2>2, <2>3, <2>4, <2>5 DEF AppealFirst, OneOutcome, Pending
<1>10. ASSUME (\E outcome \in {"corrected", "upheld"} : CompleteAppeal(outcome)) \/ RevertContest
       PROVE  AppealFirst' /\ OneOutcome'
  <2>1. /\ At(Job, "running") /\ Pending(case) /\ ~Settled /\ V(Job).hash # "none"
    BY <1>1, <1>10 DEF CompleteAppeal, RevertContest, AppealFirst, SessionOfCase, At
  <2>2. case.hash # "none" /\ ~Complete(case) /\ Used = {}
    BY <1>1, <2>1 DEF Settled, SessionOfCase
  <2>3. /\ case'.hash = case.hash /\ case'.accepted = case.accepted
        /\ case'.award = case.award /\ clock' = clock /\ checkout' = checkout
        /\ case'.appeal \in {"none", "corrected", "upheld"}
        /\ case.award.attested => clock = "closed"
    <3>1. CASE RevertContest
      BY <1>1, <2>1, <3>1 DEF RevertContest, Case, Pending, settlementVars, AppealFirst, Final
    <3>2. ASSUME NEW outcome \in {"corrected", "upheld"}, CompleteAppeal(outcome)
          PROVE  /\ case'.hash = case.hash /\ case'.accepted = case.accepted
                 /\ case'.award = case.award /\ clock' = clock /\ checkout' = checkout
                 /\ case'.appeal \in {"none", "corrected", "upheld"}
                 /\ case.award.attested => clock = "closed"
      <4>1. CASE outcome = "corrected"
        BY <1>1, <2>1, <3>2, <4>1
           DEF CompleteAppeal, Case, Pending, settlementVars, AppealFirst, Final
      <4>2. CASE outcome = "upheld"
        BY <1>1, <2>1, <3>2, <4>2
           DEF CompleteAppeal, Case, Pending, settlementVars, AppealFirst, Final
      <4> QED
        BY <4>1, <4>2
    <3> QED
      BY <1>10, <3>1, <3>2
  <2>4. ~Complete(case)' /\ Used' = {} /\ ~Pending(case)'
    BY <2>2, <2>3 DEF Complete, HasAccepted, CurrentHash, Used, Pending
  <2>5. ~At(Job, "running")'
    <3>1. (\E view : Goto(Job, "issue", view)) \/ Finish(Job)
      BY <1>10 DEF CompleteAppeal, RevertContest
    <3> QED
      BY <1>1, <3>1, GotoSessions, FinishSessions, IdleTypes DEF At
  <2>6. case'.award.attested => Final'
    BY <2>3 DEF Final
  <2> QED
    BY <2>4, <2>5, <2>6 DEF AppealFirst, OneOutcome
<1> QED
  BY <1>3, <1>4, <1>5, <1>6, <1>7, <1>8, <1>9, <1>10 DEF OutcomeStep


-----------------------------------------------------------------------------
(* The payment.                                                            *)

(* A step that leaves the charges, and the charge of now where there are   *)
(* any, keeps their rule.                                                  *)
LEMMA ChargeKeep ==
  ASSUME OneCharge, checkout' = checkout, payments' = payments,
         Used = {} \/ KeyNow' = KeyNow,
         \A t \in Slots : At(t, "charge")' => At(t, "charge")
  PROVE  OneCharge'
BY DEF OneCharge, Used

(* All charges are of one key, and all but the last have expired, across   *)
(* every step.                                                             *)
LEMMA NextCharge ==
  ASSUME TypeOK, AttestInv, Orderly, Unpaid, mode # "overlap", [Next]_vars
  PROVE  OneCharge'
<1>1. /\ case \in Case /\ Requests \subseteq Slots /\ Job \in Slots /\ Job \notin Requests
      /\ AppealFirst /\ OneCharge /\ Alone /\ \A t \in Slots : UpToDate(t) /\ V(t) \in Case
      /\ \A t \in Slots : SessionOfCase(t)
  BY ViewTypes, PostDecisionAssumption DEF TypeOK, Slots, Orderly, AttestInv, ViewsOfCase
<1>2. /\ payments \in [Key -> Payment] /\ checkout \in [SessionId -> Checkout]
      /\ events \subseteq Event /\ SettlementTypeOK /\ Used \subseteq SessionId
  BY DEF TypeOK, SettlementTypeOK, Used
<1>3. CASE Outside \/ \E e \in events : Webhook(e)
  <2>1. /\ case' = case /\ sess' = sess
        /\ Used' = Used
        /\ \A i \in SessionId : /\ checkout'[i].key = checkout[i].key
                                /\ checkout[i].state = "expired" => checkout'[i].state = "expired"
        /\ \A k \in Key : payments'[k].session = payments[k].session
    BY <1>2, <1>3, StripeLeaves DEF Outside, Webhook
  <2>2. \A i \in SessionId : checkout[i].key \in Key
    BY <1>2 DEF Checkout
  <2>3. KeyNow' = KeyNow
    BY <2>1 DEF KeyNow
  <2> QED
    BY <1>1, <1>2, <2>1, <2>2, <2>3 DEF OneCharge, At
<1>4. ASSUME NEW s \in Requests, AskCheckout(s) PROVE OneCharge'
  <2> DEFINE k == Offer(V(s))
  <2>1. /\ Shows(case, V(s)) /\ k \in Key /\ case' = case /\ checkout' = checkout
        /\ payments' = [payments EXCEPT ![k].exists = TRUE]
    BY <1>1, <1>4 DEF AskCheckout, UpToDate, Doing, At, FindOrCreate
  <2>2. k = KeyNow
    BY <2>1, OfferNow
  <2>3. \/ /\ MayCharge(payments[k])
           /\ sess' = [sess EXCEPT ![s].pc = "charge", ![s].was = payments[k].status]
        \/ sess' = [sess EXCEPT ![s] = Idle]
    BY <1>4 DEF AskCheckout, Finish
  <2> HIDE DEF k
  <2>4. \A j \in Key : payments'[j].session = payments[j].session
    BY <1>2, <2>1 DEF Payment
  <2>5. MayCharge(payments[k]) => \A i \in Used : checkout[i].state = "expired"
    <3> SUFFICES ASSUME MayCharge(payments[k]), NEW i \in Used PROVE checkout[i].state = "expired"
      OBVIOUS
    <3>1. checkout[i].state = "expired" \/ payments[k].session = i
      BY <1>1, <2>2 DEF OneCharge
    <3>2. checkout[i].state \in {"open", "complete", "expired"} /\ i # NoSession
      BY <1>2 DEF Used, Checkout, SessionId, NoSession
    <3> QED
      BY <3>1, <3>2 DEF MayCharge
  <2>6. \A t \in Slots : At(t, "charge")' => At(t, "charge") \/ MayCharge(payments[k])
    BY <1>1, <2>3, IdleTypes DEF TypeOK, Slots, At
  <2>7. \A i \in SessionId : checkout[i].key \in Key
    BY <1>2 DEF Checkout
  <2>8. KeyNow' = KeyNow /\ Used' = Used
    BY <2>1 DEF KeyNow, Used
  <2> QED
    BY <1>1, <1>2, <2>1, <2>4, <2>5, <2>6, <2>7, <2>8 DEF OneCharge
<1>5. ASSUME NEW s \in Requests, Charge(s) PROVE OneCharge'
  <2> DEFINE k == Offer(V(s))
  <2>1. PICK i \in SessionId : OpenSession(k, i, sess[s].was)
    BY <1>5 DEF Charge
  <2>2. Shows(case, V(s)) /\ k \in Key /\ case' = case /\ At(s, "charge") /\ Finish(s)
    BY <1>1, <1>5 DEF Charge, UpToDate, SessionOfCase, At
  <2>3. k = KeyNow /\ KeyNow' = KeyNow
    BY <2>2, OfferNow DEF KeyNow
  <2> HIDE DEF k
  <2>4. \A j \in Used : checkout[j].state = "expired" /\ checkout[j].key = k
    BY <1>1, <2>2, <2>3 DEF OneCharge
  <2>5. /\ checkout'[i].key = k /\ payments'[k].session = i
        /\ \A j \in SessionId : j # i => checkout'[j] = checkout[j]
    BY <1>2, <2>1, <2>2 DEF OpenSession, Payment
  <2>6. \A j \in Used' : j = i \/ j \in Used
    BY <1>2, <2>5 DEF Used
  <2>7. \A t \in Slots : ~At(t, "charge")'
    <3>1. Active(s)
      BY <2>2 DEF Active, At
    <3>2. \A t \in Slots : t # s => ~At(t, "charge")
      BY <1>1, <2>2, <3>1 DEF Alone, Active, At
    <3> QED
      BY <1>1, <2>2, <3>2, FinishSessions, IdleTypes DEF At
  <2>8. \A j \in Used' : /\ checkout'[j].key = KeyNow'
                         /\ \/ checkout'[j].state = "expired"
                            \/ payments'[checkout'[j].key].session = j
    <3> SUFFICES ASSUME NEW j \in Used'
                 PROVE  /\ checkout'[j].key = KeyNow'
                        /\ \/ checkout'[j].state = "expired"
                           \/ payments'[checkout'[j].key].session = j
      OBVIOUS
    <3>1. CASE j = i
      BY <2>3, <2>5, <3>1
    <3>2. CASE j # i
      BY <1>2, <2>3, <2>4, <2>5, <2>6, <3>2
    <3> QED
      BY <3>1, <3>2
  <2> QED
    BY <2>7, <2>8 DEF OneCharge
<1>6. ASSUME NEW s \in Slots, NEW point, NEW view, point # "charge", Goto(s, point, view)
      PROVE  \A t \in Slots : At(t, "charge")' => At(t, "charge")
  BY <1>6, GotoSessions DEF At
<1>7. ASSUME NEW s \in Slots, Finish(s)
      PROVE  \A t \in Slots : At(t, "charge")' => At(t, "charge")
  BY <1>7, FinishSessions, IdleTypes DEF At
<1>8. CASE ~OutcomeStep /\ payments' = payments /\ checkout' = checkout
  <2>1. KeyNow' = KeyNow
    BY <1>8, OutcomeSteps DEF SameOutcome, KeyNow
  <2>2. ASSUME NEW s \in Requests, Load(s)
        PROVE  \A t \in Slots : At(t, "charge")' => At(t, "charge")
    <3>1. PICK act \in Act : \E who \in Actors(act) :
            sess' = [sess EXCEPT ![s] = [pc |-> "loaded", act |-> act, actor |-> who,
                                         view |-> case, was |-> "pending"]]
      BY <2>2 DEF Load
    <3> QED
      BY <1>1, <3>1 DEF TypeOK, Slots, At
  <2>3. \/ \E s \in Requests : AskCheckout(s) \/ Charge(s)
        \/ \A t \in Slots : At(t, "charge")' => At(t, "charge")
    <3>1. ASSUME NEW s \in Requests, Request(s), ~AskCheckout(s), ~Charge(s)
          PROVE  \A t \in Slots : At(t, "charge")' => At(t, "charge")
      BY <1>1, <1>6, <1>7, <1>8, <3>1
         DEF OutcomeStep, Request, Refuse, Attesting, ClaimAttestation,
             Contesting, ClaimAppeal, RefuseAppeal, Closing,
             Reload, AskRecord, IssueRecord, Paying, ChargeFails
    <3>2. sess' = sess => \A t \in Slots : At(t, "charge")' => At(t, "charge")
      BY DEF At
    <3> QED
      BY <1>1, <1>7, <1>8, <2>2, <3>1, <3>2
         DEF Next, OutcomeStep, AppealJob, IssueRecord, Die, Outside, Webhook, TimePasses,
             TtlElapses, Unstick, vars
  <2> QED
    BY <1>1, <1>4, <1>5, <1>8, <2>1, <2>3, ChargeKeep
<1>9. CASE OutcomeStep
  <2>1. checkout' = checkout /\ payments' = payments
    BY <1>9 DEF OutcomeStep, SaveAttestation, SaveAttestationRecord, RegisterContest,
       AcceptDecision, SignAward, CompleteAppeal, RevertContest, settlementVars
  <2>2. \A t \in Slots : At(t, "charge")' => At(t, "charge")
    <3>1. ASSUME NEW s \in Requests, RegisterContest(s)
          PROVE  \A t \in Slots : At(t, "charge")' => At(t, "charge")
      BY <1>1, <3>1, IdleTypes DEF RegisterContest, TypeOK, Slots, Session, At
    <3> QED
      BY <1>1, <1>6, <1>7, <1>9, <3>1
         DEF OutcomeStep, SaveAttestation, SaveAttestationRecord,
             AcceptDecision, SignAward, CompleteAppeal, RevertContest
  <2>3. Used = {} \/ KeyNow' = KeyNow
    <3>1. ASSUME NEW s \in Requests, SaveAttestation(s) PROVE Used = {}
      <4>1. /\ case.status = "processing_attestation" /\ case.record = "none"
        BY <1>1, <3>1 DEF SaveAttestation, AttestInv, OneAttester, AttestedInOrder, Claimed
      <4> QED
        BY <1>1, <4>1 DEF AppealFirst
    <3>2. ASSUME NEW s \in Requests, SaveAttestationRecord(s) PROVE Used = {}
      <4>1. Shows(case, V(s)) /\ V(s).record = "none" /\ V(s).status = "attested"
        BY <1>1, <3>2 DEF SaveAttestationRecord, UpToDate, At
      <4> QED
        BY <1>1, <4>1 DEF AppealFirst, Shows
    <3>3. ASSUME NEW s \in Requests, RegisterContest(s) PROVE KeyNow' = KeyNow
      <4>1. V(s).hash # "none" /\ V(s).hash \in {"none", case.hash}
        BY <1>1, <3>3 DEF RegisterContest, SessionOfCase, Claimed, At
      <4>2. case.status # "agreement"
        BY <4>1, NotAgreement
      <4> QED
        BY <1>1, <3>3, <4>2 DEF RegisterContest, KeyNow, Case
    <3>4. ASSUME NEW s \in Requests,
                 AcceptDecision(s) \/ \E adopt \in BOOLEAN : SignAward(s, adopt)
          PROVE  KeyNow' = KeyNow
      <4>1. case'.status = case.status /\ case'.record = case.record
        BY <1>1, <3>4, ZenonT(40) DEF AcceptDecision, SignAward, Case
      <4> QED
        BY <4>1 DEF KeyNow
    <3>5. CASE (\E outcome \in {"corrected", "upheld"} : CompleteAppeal(outcome))
               \/ RevertContest
      BY <1>1, <3>5 DEF CompleteAppeal, RevertContest, AppealFirst, Settled
    <3> QED
      BY <1>9, <3>1, <3>2, <3>3, <3>4, <3>5 DEF OutcomeStep
  <2> QED
    BY <1>1, <2>1, <2>2, <2>3, ChargeKeep
<1>10. \/ Outside \/ (\E e \in events : Webhook(e))
       \/ \E s \in Requests : AskCheckout(s) \/ Charge(s)
       \/ payments' = payments /\ checkout' = checkout
  BY ZenonT(40) DEF Next, Load, Request, Refuse, Attesting, ClaimAttestation, SaveAttestation,
     SaveAttestationRecord, Contesting, ClaimAppeal, RefuseAppeal, RegisterContest, Closing,
     AcceptDecision, SignAward, Reload, AskRecord, IssueRecord, Paying,
     ChargeFails, Die, AppealJob, CompleteAppeal, RevertContest,
     TimePasses, TtlElapses, Unstick, vars, settlementVars
<1> QED
  BY <1>3, <1>4, <1>5, <1>8, <1>9, <1>10


-----------------------------------------------------------------------------
(* The record of the outcome.                                              *)

(* What is registered of a case that has an outcome is what is due.        *)
LEMMA BasisIsDue ==
  ASSUME TypeOK, AttestInv, AppealFirst, OutcomeKind(case) # "none"
  PROVE  Basis(case) = BasisDue
<1>1. ~Pending(case)
  BY NotAgreement DEF AppealFirst, OutcomeKind
<1>2. OutcomeKind(case) = IF case.status = "agreement" THEN "agreement" ELSE "decision"
  BY <1>1 DEF OutcomeKind
<1> QED
  BY <1>1, <1>2 DEF Basis, BasisDue

(* A record that is due stays due while nobody who will issue it stops.    *)
LEMMA RecordKeep ==
  ASSUME RecordDue, case'.basis = case.basis, BasisDue' = BasisDue,
         \A t \in Slots : WillIssue(t) => \E u \in Slots : WillIssue(u)'
  PROVE  RecordDue'
BY DEF RecordDue

(* What is due depends on the outcome alone.                               *)
LEMMA DueOfOutcome ==
  ASSUME SameOutcome
  PROVE  BasisDue' = BasisDue /\ (Complete(case)' <=> Complete(case))
<1>1. Complete(case)' <=> Complete(case)
  BY DEF SameOutcome, Complete, HasAccepted, CurrentHash
<1>2. Pending(case)' <=> Pending(case)
  BY DEF SameOutcome, Pending
<1> QED
  BY <1>1, <1>2 DEF SameOutcome, BasisDue

(* At a step that leaves the outcome only the one who issues the record    *)
(* stops, and then the record is what is due.                              *)
LEMMA IssueDue ==
  ASSUME TypeOK, AttestInv, Orderly, RecordDue, SameOutcome, NEW s \in Slots, IssueRecord(s)
  PROVE  RecordDue'
<1>1. /\ case \in Case /\ V(s) \in Case /\ AppealFirst /\ Alone /\ At(s, "issue")
      /\ Shows(case, V(s)) /\ ViewsOfCase
  BY ViewTypes DEF TypeOK, Orderly, AttestInv, IssueRecord, UpToDate, At
<1>2. BasisDue' = BasisDue
  BY DueOfOutcome
<1>3. \A t \in Slots : t # s => ~WillIssue(t)
  BY <1>1, OthersRest DEF Active, At, WillIssue
<1>4. CASE OutcomeKind(V(s)) = "none"
  <2>1. case' = case /\ ~WillIssue(s)
    BY <1>1, <1>4 DEF IssueRecord, WillIssue, At
  <2> QED
    BY <1>2, <1>3, <2>1 DEF RecordDue
<1>5. CASE OutcomeKind(V(s)) # "none"
  <2>1. Basis(V(s)) = BasisDue
    BY <1>1, <1>5, SameDerived, BasisIsDue
  <2>2. case'.basis = Basis(V(s))
    <3>1. CASE V(s).basis = Basis(V(s))
      BY <1>1, <1>5, <3>1 DEF IssueRecord, Shows
    <3>2. CASE V(s).basis # Basis(V(s))
      BY <1>1, <1>5, <3>2 DEF IssueRecord, Case
    <3> QED
      BY <3>1, <3>2
  <2> QED
    BY <1>2, <2>1, <2>2 DEF RecordDue
<1> QED
  BY <1>4, <1>5

(* Whoever leaves the record behind the case will issue it, in every step  *)
(* of a calm run.                                                          *)
LEMMA NextRecord ==
  ASSUME TypeOK, AttestInv, Orderly, RecordDue, mode = "calm", [Next]_vars
  PROVE  RecordDue'
<1>1. /\ case \in Case /\ Requests \subseteq Slots /\ Job \in Slots /\ Job \notin Requests
      /\ AppealFirst /\ Alone /\ \A t \in Slots : UpToDate(t) /\ V(t) \in Case
      /\ ViewsOfCase /\ \A t \in Slots : SessionOfCase(t)
  BY ViewTypes, PostDecisionAssumption DEF TypeOK, Slots, Orderly, AttestInv, ViewsOfCase
<1>2. ASSUME SameOutcome, case'.basis = case.basis,
             \A t \in Slots : WillIssue(t) => sess'[t] = sess[t]
      PROVE  RecordDue'
  <2>1. \A t \in Slots : WillIssue(t) => WillIssue(t)'
    BY <1>2, DueOfOutcome DEF WillIssue, At, V, OutcomeKind, Pending
  <2> QED
    BY <1>2, <2>1, DueOfOutcome, RecordKeep
<1>3. ASSUME NEW s \in Slots, ~WillIssue(s),
             \A t \in Slots : t # s => sess'[t] = sess[t],
             SameOutcome, case'.basis = case.basis
      PROVE  RecordDue'
  BY <1>2, <1>3
<1>4. CASE ~OutcomeStep
  <2>1. SameOutcome
    BY <1>4, OutcomeSteps
  <2>2. ASSUME NEW s \in Requests, Load(s) PROVE RecordDue'
    <3>1. PICK act \in Act : \E who \in Actors(act) :
            sess' = [sess EXCEPT ![s] = [pc |-> "loaded", act |-> act, actor |-> who,
                                         view |-> case, was |-> "pending"]]
      BY <2>2 DEF Load
    <3>2. \A t \in Slots : t # s => sess'[t] = sess[t]
      BY <3>1 DEF TypeOK, Slots
    <3> QED
      BY <1>1, <1>3, <2>1, <2>2, <3>2 DEF Load, WillIssue, At
  <2>3. ASSUME NEW s \in Requests, Reload(s) PROVE RecordDue'
    <3>1. case' = case /\ At(s, "reload") /\ OutcomeKind(case) = "decision"
      BY <1>1, <2>3 DEF Reload, UpToDate
    <3>2. CASE sess[s].act = "award" \/ Complete(case)
      <4>1. Goto(s, "issue", case)
        BY <2>3, <3>2 DEF Reload
      <4>2. sess'[s].pc = "issue" /\ sess'[s].view = case
        BY <1>1, <4>1, GotoSessions
      <4>3. WillIssue(s)'
        BY <3>1, <4>2 DEF WillIssue, At, V, OutcomeKind, Pending
      <4> QED
        BY <1>1, <4>3 DEF RecordDue
    <3>3. CASE ~(sess[s].act = "award" \/ Complete(case))
      <4>1. ~WillIssue(s)
        BY <3>1, <3>3 DEF WillIssue, At
      <4>2. \A t \in Slots : t # s => sess'[t] = sess[t]
        BY <1>1, <2>3, <3>3, FinishSessions DEF Reload
      <4> QED
        BY <1>1, <1>3, <2>1, <3>1, <4>1, <4>2
    <3> QED
      BY <3>2, <3>3
  <2>4. ASSUME NEW s \in Slots, IssueRecord(s) PROVE RecordDue'
    BY <2>1, <2>4, IssueDue
  <2>5. ASSUME NEW s \in Requests, Request(s), ~Reload(s), ~IssueRecord(s) PROVE RecordDue'
    <3>1. \/ Refuse(s) \/ ClaimAttestation(s) \/ ClaimAppeal(s) \/ RefuseAppeal(s)
          \/ AskRecord(s) \/ Paying(s)
      BY <1>4, <2>5 DEF OutcomeStep, Request, Attesting, Contesting, Closing
    <3>2. ~WillIssue(s)
      BY <3>1 DEF Refuse, ClaimAttestation, ClaimAppeal, RefuseAppeal, AskRecord, Paying,
         AskCheckout, Charge, ChargeFails, Doing, At, WillIssue
    <3>3. case'.basis = case.basis
      BY <1>1, <3>1 DEF Refuse, ClaimAttestation, ClaimAppeal, RefuseAppeal, AskRecord, Paying,
         AskCheckout, Charge, ChargeFails, Case
    <3>4. \A t \in Slots : t # s => sess'[t] = sess[t]
      <4>1. \/ \E point, view : Goto(s, point, view)
            \/ Finish(s) \/ AskCheckout(s)
        BY <3>1 DEF Refuse, ClaimAttestation, ClaimAppeal, RefuseAppeal, AskRecord, Paying,
           Charge, ChargeFails
      <4>2. AskCheckout(s) /\ ~Finish(s) => \A t \in Slots : t # s => sess'[t] = sess[t]
        BY <1>1 DEF AskCheckout, TypeOK, Slots
      <4> QED
        BY <1>1, <4>1, <4>2, GotoSessions, FinishSessions
    <3> QED
      BY <1>1, <1>3, <2>1, <3>2, <3>3, <3>4
  <2>6. ASSUME sess' = sess, case'.basis = case.basis PROVE RecordDue'
    BY <1>2, <2>1, <2>6
  <2>7. CASE TtlElapses \/ Unstick
    BY <1>1, <2>6, <2>7 DEF TtlElapses, Unstick, Case
  <2> QED
    BY <1>1, <1>4, <2>2, <2>3, <2>4, <2>5, <2>6, <2>7
       DEF Next, AppealJob, OutcomeStep, Die, Outside, Webhook, TimePasses, vars
<1>5. ASSUME NEW s \in Requests, SaveAttestation(s) PROVE RecordDue'
  <2>1. PICK view : Goto(s, "saved", view)
    BY <1>5 DEF SaveAttestation
  <2>2. WillIssue(s)'
    BY <1>1, <2>1, GotoSessions DEF WillIssue, At
  <2> QED
    BY <1>1, <2>2 DEF RecordDue
<1>6. ASSUME NEW s \in Requests, SaveAttestationRecord(s) PROVE RecordDue'
  <2> DEFINE view == [V(s) EXCEPT !.record = V(s).hash]
  <2>1. Goto(s, "issue", view) /\ V(s).status = "attested" /\ ~V(s).contested
    BY <1>1, <1>6 DEF SaveAttestationRecord, UpToDate, At
  <2>2. OutcomeKind(view) # "none"
    BY <1>1, <2>1 DEF OutcomeKind, Case
  <2> HIDE DEF view
  <2>3. sess'[s].pc = "issue" /\ sess'[s].view = view
    BY <1>1, <2>1, GotoSessions
  <2>4. WillIssue(s)'
    BY <2>2, <2>3 DEF WillIssue, At, V, OutcomeKind, Pending
  <2> QED
    BY <1>1, <2>4 DEF RecordDue
<1>7. ASSUME NEW s \in Requests, RegisterContest(s) PROVE RecordDue'
  <2>1. /\ At(s, "claimed") /\ Active(s) /\ V(s).hash # "none" /\ case.appeal = "none"
        /\ V(s).hash \in {"none", case.hash}
    BY <1>1, <1>7 DEF RegisterContest, SessionOfCase, Claimed, At, Active
  <2>2. case.status # "agreement"
    BY <2>1, NotAgreement
  <2>3. \A t \in Slots : ~WillIssue(t)
    BY <1>1, <2>1, OthersRest DEF WillIssue, At
  <2>4. /\ case'.hash = case.hash /\ case'.record = case.record
        /\ case'.accepted = case.accepted /\ case'.award = case.award
        /\ case'.appeal = "processing" /\ case'.decision = case.decision
        /\ case'.status = "contested" /\ case'.basis = case.basis
    BY <1>1, <1>7 DEF RegisterContest, Case
  <2>5. Complete(case)' <=> Complete(case)
    BY <2>4 DEF Complete, HasAccepted, CurrentHash
  <2>6. BasisDue' = BasisDue
    BY <2>1, <2>2, <2>4, <2>5 DEF BasisDue, Pending
  <2> QED
    BY <2>3, <2>4, <2>6, RecordKeep
<1>8. ASSUME NEW outcome \in {"corrected", "upheld"}, CompleteAppeal(outcome) PROVE RecordDue'
  <2> DEFINE view == IF outcome = "corrected"
                     THEN [V(Job) EXCEPT !.decision = "corrected",
                                         !.record = "corrected", !.appeal = outcome]
                     ELSE [V(Job) EXCEPT !.appeal = outcome]
  <2>1. Goto(Job, "issue", view) /\ V(Job).status = "contested"
    BY <1>1, <1>8 DEF CompleteAppeal, UpToDate, At, AppealFirst, Shows
  <2>2. view.status = "contested" /\ view.appeal = outcome
    BY <1>1, <2>1 DEF Case
  <2> HIDE DEF view
  <2>3. sess'[Job].pc = "issue" /\ sess'[Job].view = view
    BY <1>1, <2>1, GotoSessions
  <2>4. WillIssue(Job)'
    BY <2>2, <2>3 DEF WillIssue, At, V, OutcomeKind, Pending
  <2> QED
    BY <1>1, <2>4 DEF RecordDue
<1>9. CASE RevertContest
  <2>1. /\ Pending(case) /\ case.status = "contested" /\ At(Job, "running")
    BY <1>1, <1>9 DEF RevertContest, AppealFirst
  <2>2. \A t \in Slots : ~WillIssue(t)
    BY <1>1, <1>9, <2>1 DEF RevertContest, Turn, WillIssue, At, TypeOK, Slots
  <2>3. /\ case'.hash = case.hash /\ case'.record = case.record
        /\ case'.accepted = case.accepted /\ case'.award = case.award
        /\ case'.appeal = "none" /\ case'.decision = case.decision
        /\ case'.status = "attested" /\ case'.basis = case.basis
    BY <1>1, <1>9, <2>1 DEF RevertContest, Case, Pending
  <2>4. Complete(case)' <=> Complete(case)
    BY <2>3 DEF Complete, HasAccepted, CurrentHash
  <2>5. BasisDue' = BasisDue
    BY <2>1, <2>3, <2>4 DEF BasisDue, Pending
  <2> QED
    BY <2>2, <2>3, <2>5, RecordKeep
<1>10. ASSUME NEW s \in Requests, AcceptDecision(s) PROVE RecordDue'
  <2>1. /\ Shows(case, V(s)) /\ V(s).hash # "none" /\ ~V(s).award.adopted
        /\ At(s, "loaded") /\ Goto(s, "reload", V(s))
        /\ case'.hash = case.hash /\ case'.record = case.record
        /\ case.accepted \subseteq case'.accepted /\ case'.award = case.award
        /\ case'.appeal = case.appeal /\ case'.decision = case.decision
        /\ case'.status = case.status /\ case'.basis = case.basis
    BY <1>1, <1>10 DEF AcceptDecision, Eligible, Doing, At, UpToDate, Case
  <2>2. sess'[s].pc = "reload" /\ \A t \in Slots : t # s => sess'[t] = sess[t]
    BY <1>1, <2>1, GotoSessions
  <2>3. CASE Complete(case)'
    BY <1>1, <2>2, <2>3 DEF RecordDue, WillIssue, At
  <2>4. CASE ~Complete(case)'
    <3>1. case.hash # "none"
      BY <2>1 DEF Shows
    <3>2. ~Complete(case)
      BY <2>1, <2>4, <3>1 DEF Complete, HasAccepted, CurrentHash
    <3>3. BasisDue' = BasisDue
      BY <2>1, <2>4, <3>2 DEF BasisDue, Pending
    <3>4. \A t \in Slots : ~WillIssue(t)
      <4>1. Active(s)
        BY <2>1 DEF At, Active
      <4> QED
        BY <1>1, <2>1, <4>1, OthersRest DEF WillIssue, At
    <3> QED
      BY <2>1, <3>3, <3>4, RecordKeep
  <2> QED
    BY <2>3, <2>4
<1>11. ASSUME NEW s \in Requests, NEW adopt \in BOOLEAN, SignAward(s, adopt) PROVE RecordDue'
  <2>1. Goto(s, "reload", V(s)) /\ sess[s].act = "award"
    BY <1>11 DEF SignAward, Doing
  <2>2. sess'[s].pc = "reload" /\ sess'[s].act = "award"
    BY <1>1, <2>1, GotoSessions
  <2> QED
    BY <1>1, <2>2 DEF RecordDue, WillIssue, At
<1> QED
  BY <1>4, <1>5, <1>6, <1>7, <1>8, <1>9, <1>10, <1>11 DEF OutcomeStep


-----------------------------------------------------------------------------
(* The theorems.                                                           *)

(* The invariant holds of a case that was just reviewed or agreed.         *)
LEMMA InitInv == Init => IInv
<1> SUFFICES ASSUME Init PROVE IInv
  OBVIOUS
<1>1. TypeOK /\ Asked
  BY InitTypes
<1>2. PICK start \in {"agreement", "reviewed"}, designated \in BOOLEAN :
        LET blank == [Idle.view EXCEPT !.status = start, !.designated = designated]
        IN  case = [blank EXCEPT !.autos = 1, !.basis = Basis(blank)]
  BY DEF Init
<1> DEFINE blank == [Idle.view EXCEPT !.status = start, !.designated = designated]
<1>3. /\ blank \in Case /\ blank.status = start /\ blank.decision = "original"
      /\ blank.hash = "none" /\ blank.record = "none" /\ ~blank.contested
      /\ blank.appeal = "none" /\ blank.accepted = {} /\ blank.award = NoAward
  BY IdleTypes, ZenonT(40) DEF Case, Idle
<1>4. case = [blank EXCEPT !.autos = 1, !.basis = Basis(blank)]
  BY <1>2
<1> HIDE DEF blank
<1>5. /\ case.status = start /\ case.decision = "original"
      /\ case.hash = "none" /\ case.record = "none" /\ ~case.contested
      /\ case.appeal = "none" /\ case.accepted = {} /\ case.award = NoAward
      /\ case.basis = Basis(blank)
  BY <1>3, <1>4 DEF Case
<1>6. /\ clock = "reflection" /\ Used = {} /\ SettlementInit
      /\ \A s \in Slots : sess[s] = Idle
  BY DEF Init, Slots, SettlementInit, Used, NoCheckout
<1>7. /\ \A s \in Slots : At(s, "idle") /\ ~Active(s) /\ V(s).hash = "none"
                          /\ V(s).status = "reviewed" /\ ~WillIssue(s)
  BY <1>6, IdleTypes DEF At, Active, V, WillIssue
<1>8. AttestInv
  BY <1>5, <1>6, <1>7 DEF AttestInv, AttestedInOrder, OneAttester, ViewsOfCase, SessionOfCase,
     ClaimDated, Claimed, At, Slots
<1>9. ~Complete(case) /\ ~NoAward.attested /\ ~NoAward.adopted
  BY <1>5 DEF Complete, HasAccepted, Party, NoAward
<1>10. Orderly
  BY <1>5, <1>6, <1>7, <1>9, PostDecisionAssumption
     DEF Orderly, Alone, UpToDate, AppealFirst, OneOutcome, OneCharge, Pending, Claimed, At,
         Slots
<1>11. RecordDue
  <2>1. ~Complete(blank)
    BY <1>3 DEF Complete, HasAccepted, Party
  <2>2. OutcomeKind(blank) = IF start = "agreement" THEN "agreement" ELSE "decision"
    BY <1>3 DEF OutcomeKind
  <2>3. Basis(blank) = BasisDue
    BY <1>3, <1>5, <1>9, <2>1, <2>2 DEF Basis, BasisDue, Pending
  <2> QED
    BY <1>5, <2>3 DEF RecordDue
<1>12. Unpaid
  BY <1>6 DEF SettlementInit, Unpaid, NoCheckout
<1> QED
  BY <1>1, <1>8, <1>10, <1>11, <1>12 DEF IInv, CalmInv

(* Every step keeps it.                                                    *)
LEMMA NextInv == IInv /\ [Next]_vars => IInv'
<1> SUFFICES ASSUME IInv, [Next]_vars PROVE IInv'
  OBVIOUS
<1>1. /\ TypeOK /\ Asked /\ AttestInv /\ CalmInv /\ Unpaid /\ ViewsOfCase
      /\ mode # "overlap" => Orderly /\ Alone
      /\ mode = "calm" => RecordDue
      /\ mode' = mode
  BY ModeKept DEF IInv, CalmInv, AttestInv, Orderly
<1>2. TypeOK' /\ Asked' /\ AttestInv' /\ Unpaid'
  BY <1>1, NextTypes, NextAsked, NextAttest, NextUnpaid
<1>3. mode # "overlap" => Orderly'
  BY <1>1, NextAlone, NextViews, NextOutcome, NextCharge DEF Orderly
<1>4. mode = "calm" => RecordDue'
  BY <1>1, NextRecord
<1> QED
  BY <1>1, <1>2, <1>3, <1>4 DEF IInv, CalmInv

(* It holds of every state a case goes through.                            *)
LEMMA PostDecisionInvariant == Spec => []IInv
BY InitInv, NextInv, PTL DEF Spec

(* Every variable keeps its type, and a case never ends with both the      *)
(* acceptance of both parties and an adopted award, as long as requests do *)
(* not overlap (routes/acceptance.py, routes/arbitration.py).              *)
THEOREM OneInstrumentEver == Spec => []OneInstrument
<1>1. IInv => OneInstrument
  BY DEF IInv, CalmInv, Orderly, OneOutcome, OneInstrument
<1> QED
  BY <1>1, PostDecisionInvariant, PTL

(* The attestation is issued once, and its deadlines only run forward,     *)
(* however requests overlap and whoever dies half way.                     *)
THEOREM AttestedOnceEver == Spec => AttestedOnce
<1>1. ASSUME IInv, Next, case.hash # "none"
      PROVE  case'.hash = case.hash /\ Later[clock'] >= Later[clock]
  <2>1. case \in Case /\ clock \in {"reflection", "window", "closed"}
    BY <1>1 DEF IInv, TypeOK
  <2>2. \A s \in Requests : ~SaveAttestation(s)
    BY <1>1 DEF IInv, AttestInv, OneAttester, AttestedInOrder, SaveAttestation, Claimed, Slots
  <2>3. /\ case'.hash = case.hash
        /\ clock' = clock \/ (clock = "reflection" /\ clock' = "window")
                          \/ (clock = "window" /\ clock' = "closed")
    <3>1. CASE TimePasses
      BY <2>1, <3>1 DEF TimePasses
    <3>2. ASSUME NEW outcome \in {"corrected", "upheld"}, CompleteAppeal(outcome)
          PROVE  case'.hash = case.hash /\ clock' = clock
      <4>1. CASE outcome = "corrected"
        BY <2>1, <3>2, <4>1 DEF CompleteAppeal, Case
      <4>2. CASE outcome = "upheld"
        BY <2>1, <3>2, <4>2 DEF CompleteAppeal, Case
      <4> QED
        BY <4>1, <4>2
    <3>3. CASE TtlElapses \/ Unstick \/ RevertContest \/ \E s \in Slots : IssueRecord(s)
      BY <2>1, <3>3 DEF TtlElapses, Unstick, RevertContest, IssueRecord, Case
    <3>4. ASSUME NEW s \in Requests, Request(s) PROVE case'.hash = case.hash /\ clock' = clock
      <4>1. CASE Attesting(s) \/ Contesting(s)
        BY <2>1, <2>2, <4>1 DEF Attesting, ClaimAttestation, SaveAttestationRecord, Contesting,
           ClaimAppeal, RefuseAppeal, RegisterContest, Case
      <4>2. CASE Closing(s)
        BY <2>1, <4>2 DEF Closing, AcceptDecision, SignAward, Reload, AskRecord, Case
      <4>3. CASE Refuse(s) \/ IssueRecord(s) \/ Paying(s)
        BY <2>1, <4>3 DEF Refuse, IssueRecord, Paying, AskCheckout, Charge, ChargeFails, Case
      <4> QED
        BY <3>4, <4>1, <4>2, <4>3 DEF Request
    <3>5. ASSUME case' = case, clock' = clock PROVE case'.hash = case.hash /\ clock' = clock
      BY <3>5
    <3> QED
      BY <1>1, <3>1, <3>2, <3>3, <3>4, <3>5
         DEF Next, Load, Die, AppealJob, Outside, Webhook, Slots
  <2> QED
    BY <2>1, <2>3 DEF Later
<1>2. IInv /\ [Next]_vars =>
        [case.hash # "none" => case'.hash = case.hash /\ Later[clock'] >= Later[clock]]_vars
  BY <1>1
<1> QED
  BY <1>2, PostDecisionInvariant, PTL DEF Spec, AttestedOnce

(* A decision that both parties accepted, or that the arbitrator adopted   *)
(* once attested, or that the debtor was charged for, is never corrected   *)
(* by an appeal: not by one claimed before, one left behind by a request   *)
(* that died, nor one taken back and filed again.                          *)
THEOREM DecisionStandsEver == Spec => DecisionStands
<1>1. ASSUME IInv, Next, mode # "overlap", Settled PROVE case'.decision = case.decision
  <2>1. /\ TypeOK /\ AttestInv /\ Orderly /\ AppealFirst /\ case \in Case
    BY <1>1 DEF IInv, CalmInv, Orderly, TypeOK
  <2>2. ~At(Job, "running")
    BY <1>1, <2>1 DEF AppealFirst
  <2>3. CASE OutcomeStep
    BY <2>1, <2>2, <2>3 DEF OutcomeStep, SaveAttestation, SaveAttestationRecord,
       RegisterContest, AcceptDecision, SignAward, CompleteAppeal, RevertContest, Case
  <2>4. CASE ~OutcomeStep
    BY <1>1, <2>1, <2>4, OutcomeSteps DEF SameOutcome
  <2> QED
    BY <2>3, <2>4
<1>2. IInv /\ [Next]_vars =>
        [mode # "overlap" /\ Settled => case'.decision = case.decision]_vars
  BY <1>1
<1> QED
  BY <1>2, PostDecisionInvariant, PTL DEF Spec, DecisionStands

(* The debtor's money is taken at most once, for any number of Checkout    *)
(* sessions, expiries and late or repeated webhooks (routes/payments.py).  *)
THEOREM ChargedOnceEver == Spec => []ChargedOnce
<1>1. ASSUME IInv, mode # "overlap" PROVE Cardinality(Charged) <= 1
  <2>1. OneCharge /\ Unpaid /\ checkout \in [SessionId -> Checkout]
    BY <1>1 DEF IInv, CalmInv, Orderly, TypeOK, SettlementTypeOK
  <2>2. \A i \in Charged : payments[KeyNow].session = i
    BY <2>1 DEF OneCharge, Unpaid, Charged, Used, Checkout
  <2>3. CASE Charged = {}
    BY <2>3, FS_EmptySet
  <2>4. CASE Charged # {}
    <3>1. PICK i \in Charged : TRUE
      BY <2>4
    <3>2. Charged = {i}
      BY <2>2, <3>1
    <3>3. Cardinality({i}) = 1
      BY FS_Singleton
    <3> QED
      BY <3>2, <3>3
  <2> QED
    BY <2>3, <2>4
<1>2. IInv => ChargedOnce
  BY <1>1 DEF ChargedOnce
<1> QED
  BY <1>2, PostDecisionInvariant, PTL

(* At rest the last version of the record of the outcome describes the     *)
(* case, when nobody dies between the act and its record                   *)
(* (routes/records.py).                                                    *)
THEOREM RecordCurrentEver == Spec => []RecordCurrent
<1>1. ASSUME IInv, mode = "calm", \A s \in DOMAIN sess : sess[s].pc \in {"idle", "running"},
             OutcomeKind(case) # "none"
      PROVE  case.basis = Basis(case)
  <2>1. TypeOK /\ AttestInv /\ AppealFirst /\ RecordDue /\ DOMAIN sess = Slots
    BY <1>1 DEF IInv, CalmInv, Orderly, TypeOK, Slots
  <2>2. \A s \in Slots : ~WillIssue(s)
    BY <1>1, <2>1 DEF WillIssue, At
  <2> QED
    BY <1>1, <2>1, <2>2, BasisIsDue DEF RecordDue
<1>2. IInv => RecordCurrent
  BY <1>1 DEF RecordCurrent
<1> QED
  BY <1>2, PostDecisionInvariant, PTL

=============================================================================
