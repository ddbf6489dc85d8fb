------------------------------ MODULE CaseLife ------------------------------
(***************************************************************************)
(* What the procedure promises the parties of one case, whatever sessions, *)
(* jobs and crashes it takes: nobody is judged before both were heard on   *)
(* the proposal at hand, each phase follows the one before, and an         *)
(* agreement, a withdrawal or a reviewed decision is the end.              *)
(***************************************************************************)
CONSTANT Parties

VARIABLES phase,    \* where the case stands
          heard     \* the parties that took a position on the proposal at hand

Phase == {"composition", "judgment", "decided", "closed", "agreed", "withdrawn"}

TypeOK == phase \in Phase /\ heard \in SUBSET Parties

Init == phase = "composition" /\ heard = {}

Hear(p) ==
  /\ phase = "composition"
  /\ heard' = heard \cup {p}
  /\ UNCHANGED phase

(* A new proposal opens only over an old one that both have answered.      *)
Propose ==
  /\ phase = "composition"
  /\ heard = Parties
  /\ heard' = {}
  /\ UNCHANGED phase

Enter(next) == phase' = next /\ heard' = {}

Agree == phase = "composition" /\ Enter("agreed")

Judge == phase = "composition" /\ heard = Parties /\ Enter("judgment")

Decide == phase = "judgment" /\ Enter("decided")

Close == phase = "decided" /\ Enter("closed")

Withdraw == phase \in {"composition", "judgment", "decided"} /\ Enter("withdrawn")

Next == (\E p \in Parties : Hear(p)) \/ Propose \/ Agree \/ Judge \/ Decide \/ Close \/ Withdraw

Spec == Init /\ [][Next]_<<phase, heard>>

=============================================================================
