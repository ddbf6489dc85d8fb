--------------------------- MODULE MCPostDecision ---------------------------
(***************************************************************************)
(* Small instances of PostDecision.                                        *)
(***************************************************************************)
EXTENDS PostDecision

CONSTANTS q1, q2

(* Five requests in turn reach an appeal after an acceptance and an        *)
(* attestation; three at once reach every race of two.                     *)
RequestsByMode == [calm |-> 5, faulty |-> 4, overlap |-> 3]

=============================================================================
