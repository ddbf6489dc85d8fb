------------------------------- MODULE Hearing -------------------------------
(***************************************************************************)
(* What Evidence promises the parties: material is presented, brought to   *)
(* the other party's notice, answered and only then admitted, one step     *)
(* after another; and once the case is sealed, with something admitted and *)
(* nothing left on the way, the material never moves again.  No request,   *)
(* view, claim or death appears here.                                      *)
(***************************************************************************)
CONSTANTS Materials

VARIABLES
  phase,    \* how far each piece of material has come
  sealed    \* the manifest is locked

Phase == {"absent", "presented", "noticed", "answered", "admitted"}

After == [absent |-> "presented", presented |-> "noticed",
          noticed |-> "answered", answered |-> "admitted"]

(* A case under way.                                                       *)
Init == phase \in [Materials -> Phase] /\ sealed = FALSE

Advance(m) ==
  /\ ~sealed
  /\ phase[m] # "admitted"
  /\ phase' = [phase EXCEPT ![m] = After[@]]
  /\ UNCHANGED sealed

Seal ==
  /\ ~sealed
  /\ "admitted" \in {phase[m] : m \in Materials}
  /\ \A m \in Materials : phase[m] \in {"absent", "admitted"}
  /\ sealed' = TRUE
  /\ UNCHANGED phase

Next == Seal \/ \E m \in Materials : Advance(m)

Spec == Init /\ [][Next]_<<phase, sealed>>

=============================================================================
