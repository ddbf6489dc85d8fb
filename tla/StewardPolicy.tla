---------------------------- MODULE StewardPolicy ----------------------------
(***************************************************************************)
(* What the steward ("gestor") may do next, as a function of the case that *)
(* a database session has loaded (app/domain/steward.py).  The policy is   *)
(* deterministic; the language model only chooses among the legal actions, *)
(* and a choice outside the list is replaced by the first legal one.       *)
(***************************************************************************)
EXTENDS Naturals, Sequences

PARTIES == {"claimant", "respondent"}

(* A party's position in a round: not filed, filed with text, or waived.   *)
PositionKind == {"none", "waived", "text"}

(* Its answer to the round's proposal.                                     *)
Answer == {"none", "accepted", "refused"}

Round == [position  : [PARTIES -> PositionKind],
          response  : [PARTIES -> Answer],
          continue  : BOOLEAN]       \* continue_recommended

NewRound(continue) == [position |-> [p \in PARTIES |-> "none"],
                       response |-> [p \in PARTIES |-> "none"],
                       continue |-> continue]

ProcessingStatus == {"processing_organize", "processing_decision", "processing_review"}

TERMINAL_STATUSES == {"agreement", "reviewed", "attested", "contested", "withdrawn"}

MODEL_ACTIONS == {"conciliate", "organize", "decide", "review"}

-----------------------------------------------------------------------------

(* Before the first round there is an empty one: nobody has answered it.   *)
LatestRound(c) == IF c.rounds = <<>> THEN NewRound(FALSE) ELSE c.rounds[Len(c.rounds)]

(* Mutant of BothAnswered: one position is enough.                         *)
OneAnswered(r) == \E p \in PARTIES : r.position[p] # "none"

BothAnswered(r) == \A p \in PARTIES : r.position[p] # "none"

BothWaived(r) == \A p \in PARTIES : r.position[p] = "waived"

HasNewMaterial(r) == \E p \in PARTIES : r.position[p] = "text"

AnotherRound(r) ==
  /\ BothAnswered(r)
  /\ ~BothWaived(r)
  /\ r.continue \/ HasNewMaterial(r)

(* agreement.complete: two acceptances of the same round's proposal.       *)
Complete(r) == \A p \in PARTIES : r.response[p] = "accepted"

HasAgreement(c) == \E i \in 1..Len(c.rounds) : Complete(c.rounds[i])

(* No outcome and no stage in flight: the steward may act on merit.        *)
Conductible(c) ==
  /\ c.status \notin TERMINAL_STATUSES \cup ProcessingStatus
  /\ c.conclusion # "agreement"

(* The model actions legal for a locked case.  The formal acts that come   *)
(* before the lock (admit, lock) are not repeated here: a locked case has  *)
(* no pending material.  When none is legal the steward waits or holds.    *)
Legal(c, action) ==
  /\ Conductible(c)
  /\ \/ /\ action = "conciliate"
        /\ ~c.organized
        /\ c.rounds = <<>> \/ AnotherRound(LatestRound(c))
     \/ /\ action = "organize"
        /\ ~c.organized
        /\ BothAnswered(LatestRound(c))
     \/ action = "decide" /\ c.organized /\ c.decision = "none"
     \/ action = "review" /\ c.organized /\ c.decision # "none" /\ ~c.review

(* The choice of the language model is free within the list, and the       *)
(* fallback is in it; an empty list stands for wait and hold.              *)
Choices(c) == {action \in MODEL_ACTIONS : Legal(c, action)}

=============================================================================
