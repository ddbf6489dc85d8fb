--------------------------- MODULE MCCaseProcedure ---------------------------
(***************************************************************************)
(* Small instances of CaseProcedure.                                       *)
(***************************************************************************)
EXTENDS CaseProcedure, TLC

CONSTANTS n1, n2, q1, q2, w1, w2, w3

(* A crash while a job runs, which the chain mark is there to survive.     *)
JobCrashes == {"queued", "work"}

(* A crash anywhere.                                                       *)
AnyCrash == Pc

(* Sessions of one kind are interchangeable; not used with liveness.       *)
Symmetry == Permutations(Replicas) \cup Permutations(Requests) \cup Permutations(Workers)

=============================================================================
