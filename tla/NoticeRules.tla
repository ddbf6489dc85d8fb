----------------------------- MODULE NoticeRules -----------------------------
(***************************************************************************)
(* Which acts become a notice, and for whom (notifications/rules.py), and  *)
(* which facts become a reminder without an act (notifications/            *)
(* reminders.py).  Pure definitions: an event is the audit event with the  *)
(* part of its payload a rule reads; texts are left out.                   *)
(***************************************************************************)
EXTENDS Integers, FiniteSets

Parties == {"claimant", "respondent"}
Other(p) == {q \in Parties : p \in Parties /\ q # p}

-----------------------------------------------------------------------------
(***************************************************************************)
(* RULES.  An act of one party is told to the other; an act of the         *)
(* platform or of the arbitrator to both.  e.party is the payload's party, *)
(* role, disclosed_to, contested_by, assigned_to or payee, whichever the   *)
(* event carries; e.holds the payload's flag, or whether both consents     *)
(* stand.                                                                  *)
(***************************************************************************)
(* Until the lock. *)
PreparationRoles(e) ==
    CASE e.type \in {"invitation_accepted", "consent_withdrawn", "response_submitted"} ->
             Other(e.party)
      [] e.type = "consent_accepted" ->
             IF e.holds /\ e.party \in Parties THEN Parties ELSE Other(e.party)
      [] e.type = "evidence_disclosed" -> {e.party} \cap Parties
      [] e.type = "submission_ready" -> IF e.holds THEN Other(e.party) ELSE {}
      [] OTHER -> {}

(* Composition. *)
ConciliationRoles(e) ==
    CASE e.type \in {"manifest_locked", "conciliation_screened", "conciliation_round_generated",
                     "conciliation_agreement_completed"} -> Parties
      [] e.type \in {"conciliation_position_recorded", "conciliation_agreement_response"} ->
             Other(e.party)
      [] OTHER -> {}

(* The decision; the record is told only when it ends a case without one. *)
DecisionRoles(e) ==
    CASE e.type \in {"attestation_issued", "appeal_completed"} -> Parties
      [] e.type = "decision_record_issued" ->
             IF e.party \in {"agreement", "no_merit_decision"} THEN Parties ELSE {}
      [] e.type = "contest_registered" ->
             IF e.party \in Parties THEN Other(e.party) ELSE Parties
      [] e.type = "decision_accepted" -> Other(e.party)
      [] OTHER -> {}

(* The arbitrator, the way out, and what follows. *)
ClosingRoles(e) ==
    CASE e.type \in {"arbitrator_accepted", "arbitral_award_signed", "arbitral_award_declined"} ->
             Parties
      [] e.type \in {"arbitrator_confirmed", "withdrawn_to_court"} -> Other(e.party)
      [] e.type = "deadline_created" ->
             IF e.party = "all" THEN Parties
                                ELSE {e.party} \cap (Parties \cup {"arbitrator"})
      [] e.type = "settlement_payment_paid" -> {e.party}
      [] OTHER -> {}

RolesTold(e) == PreparationRoles(e) \cup ConciliationRoles(e) \cup DecisionRoles(e)
                \cup ClosingRoles(e)

(***************************************************************************)
(* Reminders, over a clock in hours.  c is an attested case, d a deadline, *)
(* m a document, i an invitation.                                          *)
(***************************************************************************)
Closed == {"inconclusive", "inadmissible", "invalidated", "system_failure",
           "contested", "attested", "reviewed", "withdrawn"}

WindowRuns(c, now) == /\ c.status = "attested"
                      /\ now < c.windowEnds
                      /\ ~c.contested /\ c.acceptances < 2
ContestClosing(c, now, lead) == WindowRuns(c, now) /\ c.windowEnds - now <= lead
ReflectionOver(c, now, reflection) == WindowRuns(c, now) /\ now >= c.issued + reflection

DeadlineOpen(d, status, now, lead, limit) ==
    /\ ~d.completed /\ d.due <= now + lead /\ now - d.due <= limit
    /\ status \notin Closed \cup {"agreement"}
DeadlineKind(d, now) == IF d.due <= now THEN "overdue" ELSE "due"

Stalled(m, status, locked, now, hours) ==
    /\ hours > 0
    /\ m.response = "pending" /\ ~m.admitted /\ ~locked /\ status \notin Closed
    /\ m.disclosed # -1 /\ m.disclosed <= now - hours

InvitationExpiring(i, now, lead) ==
    i.status = "pending" /\ i.expires > now /\ i.expires <= now + lead
=============================================================================
