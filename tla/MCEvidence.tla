----------------------------- MODULE MCEvidence -----------------------------
(***************************************************************************)
(* Small instances of Evidence.                                            *)
(***************************************************************************)
EXTENDS Evidence

CONSTANTS q1, q2

=============================================================================
