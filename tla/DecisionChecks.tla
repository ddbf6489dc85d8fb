---------------------------- MODULE DecisionChecks ----------------------------
(***************************************************************************)
(* What stands between the text a model writes and an executable           *)
(* attestation: the deterministic verifier (domain/decision_verifier.py),  *)
(* the second run (domain/stability.py), the audit with one reconstruction *)
(* (domain/procedure.py) and the conditions of merit (core/attestation.py).*)
(* CaseProcedure has the claims and the jobs these steps run in.           *)
(***************************************************************************)
EXTENDS Integers, Sequences, FiniteSets

CONSTANTS
    LockedDocuments, Admitted,      \* of the manifest
    LockedChunks, RuntimeChunks,    \* of the manifest, and in the database now
    DocumentOf,                     \* of each chunk
    Rules,                          \* rules of the framework: the outcomes each allows
    Decisions,                      \* what a model may answer
    Agreements                      \* how a second run may compare: sets of dimensions

(* The models of domain/models.py: what a text must be to be a decision at *)
(* all.  A hash is whether it is the right one; money is of either sign.   *)
NoBps == -1
NoCalc == [formula |-> "none"]
EvidenceReference ==
    [document : STRING, documentHash : BOOLEAN, chunk : STRING, chunkHash : BOOLEAN,
     quote : STRING, quoteHash : BOOLEAN, offsets : {"none", "wrong"}]
MaterialFinding ==
    [id : STRING, status : {"established", "not_established", "disputed", "insufficient"},
     evidence : SUBSET EvidenceReference, counter : SUBSET EvidenceReference]
RuleApplication == [rule : STRING, uses : SUBSET STRING]
CalculationInput == [value : Int, currency : STRING, refs : SUBSET EvidenceReference]
RemedyCalculation ==
    [formula : STRING, inputs : Seq(CalculationInput), result : Int, currency : STRING]
DecisionOutput ==
    [outcome : {"claimant", "respondent", "partial", "inconclusive"}, bps : NoBps..10000,
     findings : Seq(MaterialFinding), applications : SUBSET RuleApplication,
     calc : RemedyCalculation \cup {NoCalc}, framework : BOOLEAN,
     abstains : {"no", "out_of_scope", "integrity", "provider_unavailable", "unstable", "other"}]

ASSUME ChecksAssumption ==
    /\ Admitted \subseteq LockedDocuments
    /\ LockedChunks \cup RuntimeChunks \subseteq DOMAIN DocumentOf
    /\ Decisions \subseteq DecisionOutput
    /\ Agreements \subseteq SUBSET {"outcome", "findings", "remedy", "rules"}

VARIABLES
    answer,         \* the decision under way
    altered,        \* the texts in the database are no longer those locked
    valid,          \* DecisionVerificationResult.valid
    stability,      \* its setting, and the result for this decision
    review,         \* the outcome of the audit
    conclusion,     \* procedure_conclusion
    rebuilt,        \* the reconstruction was used
    stage           \* the last step done
checkVars == <<answer, altered, valid, stability, review, conclusion, rebuilt, stage>>

ExecutableOutcomes == {"claimant", "respondent", "partial"}
NoAnswer == [outcome |-> "none"]
Dimensions == {"outcome", "findings", "remedy", "rules"}

ChecksTypeOK ==
    /\ answer \in Decisions \cup {NoAnswer} \/ answer.outcome = "inconclusive"
    /\ altered \in BOOLEAN /\ valid \in BOOLEAN /\ rebuilt \in BOOLEAN
    /\ stability \in [enabled : BOOLEAN, threshold : 0..4,
                      result : {"none", "stable", "unstable"}, agreed : SUBSET Dimensions]
    /\ review \in {"none", "approved", "rejected", "inconclusive"}
    /\ conclusion \in {"none", "decided", "inconclusive", "inadmissible", "invalidated",
                       "system_failure"}
    /\ stage \in {"open", "judged", "tested", "invalidated", "reviewed", "attested"}

-----------------------------------------------------------------------------
(***************************************************************************)
(* verify_evidence_reference.                                              *)
(***************************************************************************)
Text == IF altered THEN "altered" ELSE "locked"
Code(bad, code) == IF bad THEN {code} ELSE {}

RefErrors(r) ==
    IF r.document \notin LockedDocuments THEN {"unknown_document"}
    ELSE Code(~r.documentHash, "document_hash_mismatch")
         \cup Code(r.document \notin Admitted, "document_not_admitted")
         \cup
         (IF r.chunk \notin LockedChunks \cup RuntimeChunks THEN {"unknown_chunk"}
          ELSE IF r.chunk \in LockedChunks \cap RuntimeChunks /\ altered
          THEN {"chunk_hash_mismatch"}
          ELSE Code(~r.chunkHash, "chunk_hash_mismatch")
               \cup Code(DocumentOf[r.chunk] # r.document, "chunk_document_mismatch")
               \cup Code(r.quote # Text \/ r.chunk \notin RuntimeChunks, "quoted_text_missing")
               \cup Code(r.offsets = "wrong", "quoted_text_offset_mismatch"))

(* Material that entered after the lock. *)
PostLock(r) == /\ r.document \in LockedDocuments
               /\ r.chunk \in RuntimeChunks \ LockedChunks

-----------------------------------------------------------------------------
(***************************************************************************)
(* verify_decision.                                                        *)
(***************************************************************************)
FindingRefs(d) ==
    UNION {d.findings[i].evidence \cup d.findings[i].counter : i \in DOMAIN d.findings}
CalcRefs(d) == IF d.calc = NoCalc THEN {}
               ELSE UNION {d.calc.inputs[i].refs : i \in DOMAIN d.calc.inputs}
Refs(d) == FindingRefs(d) \cup CalcRefs(d)
Ids(d) == {d.findings[i].id : i \in DOMAIN d.findings}
Merit(d) == d.outcome \in ExecutableOutcomes

(* The schema: hashes of quotes are recomputed, a partial outcome has bps. *)
SchemaOK(d) == /\ \A r \in Refs(d) : r.quoteHash
               /\ d.outcome = "partial" => d.bps # NoBps

FindingErrors(d) ==
    Code(Cardinality(Ids(d)) # Len(d.findings), "duplicate_finding_id")
    \cup Code(Merit(d) /\ d.findings = <<>>, "missing_material_findings")
    \cup UNION {LET f == d.findings[i] IN
                IF f.status = "established" /\ f.evidence = {}
                THEN {"established_without_evidence"}
                ELSE UNION {RefErrors(r) : r \in f.evidence \cup f.counter} :
                i \in DOMAIN d.findings}

UsedFindings(d) == UNION {a.uses : a \in {b \in d.applications : b.rule \in DOMAIN Rules}}
RuleErrors(d) ==
    Code(Merit(d) /\ d.applications = {}, "missing_rule_applications")
    \cup (UNION {IF a.rule \notin DOMAIN Rules THEN {"unknown_rule"}
                 ELSE Code(Merit(d) /\ d.outcome \notin Rules[a.rule],
                           "outcome_not_allowed_by_rule")
                      \cup Code(~(a.uses \subseteq Ids(d)), "orphan_finding_reference") :
                 a \in d.applications})
    \cup Code(/\ Merit(d) /\ d.applications # {} /\ d.findings # <<>>
              /\ UsedFindings(d) = {}, "conclusion_without_finding")

(* _safe_eval_formula: one input, or one by another; round() of Python goes *)
(* to the even neighbour.                                                  *)
HalfEven(n, m) ==
    LET above == IF m < 0 THEN -n ELSE n
        below == IF m < 0 THEN -m ELSE m
        q == above \div below
        rest == 2 * (above % below)
    IN IF rest > below \/ (rest = below /\ q % 2 = 1) THEN q + 1 ELSE q
Evaluates(c, result) ==
    CASE c.formula = "first" -> Len(c.inputs) > 0 /\ result = c.inputs[1].value
      [] c.formula = "ratio" -> /\ Len(c.inputs) > 1 /\ c.inputs[2].value # 0
                                /\ result = HalfEven(c.inputs[1].value, c.inputs[2].value)
      [] OTHER -> FALSE

CalcErrors(d) ==
    LET c == d.calc IN
    IF c = NoCalc THEN {}
    ELSE Code(c.inputs = <<>>, "calculation_without_inputs")
         \cup Code(\E i \in DOMAIN c.inputs : c.inputs[i].currency # c.currency,
                    "currency_mismatch")
         \cup (UNION {IF c.inputs[i].refs = {} THEN {"monetary_value_without_evidence"}
                      ELSE UNION {RefErrors(r) : r \in c.inputs[i].refs} : i \in DOMAIN c.inputs})
         \cup Code(~Evaluates(c, c.result), "calculation_result_mismatch")
         \cup Code(d.outcome = "inconclusive", "remedy_on_inconclusive")
         \cup Code(d.outcome = "partial" /\ d.bps \in {0, 10000}, "partial_inconsistent_bps")

VerificationErrors(d) ==
    IF ~SchemaOK(d) THEN {"invalid_schema"}
    ELSE FindingErrors(d) \cup RuleErrors(d) \cup CalcErrors(d)
         \cup Code(~d.framework, "framework_mismatch")
         \cup Code(Merit(d) /\ d.abstains # "no", "merit_with_abstention")
         \cup Code(\E r \in Refs(d) : PostLock(r), "post_lock_material")

-----------------------------------------------------------------------------
(***************************************************************************)
(* Conclusions.                                                            *)
(***************************************************************************)
(* _conclusion_from_verification_and_decision, infer_procedure_conclusion *)
ConclusionOf(d, ok) ==
    IF ~ok THEN "invalidated"
    ELSE CASE d.abstains = "out_of_scope" -> "inadmissible"
           [] d.abstains = "integrity" -> "invalidated"
           [] d.abstains = "provider_unavailable" -> "system_failure"
           [] OTHER -> IF Merit(d) THEN "decided" ELSE "inconclusive"

(* Mutant: enough agreement on anything is stability. *)
StableByCount(agreed) == Cardinality(agreed) >= stability.threshold

(* compare_decisions: threshold in quarters. *)
Stable(agreed) == Cardinality(agreed) >= stability.threshold /\ "outcome" \in agreed

(* finalize_review_outcome *)
Finalized(d, ok, outcome, used) ==
    IF d.abstains = "unstable" THEN "inconclusive"
    ELSE IF outcome = "approved" /\ ok /\ Merit(d) THEN "decided"
    ELSE IF outcome = "approved" /\ conclusion \in {"inconclusive", "inadmissible",
                                                    "system_failure", "invalidated"}
    THEN conclusion
    ELSE IF outcome = "rejected" /\ ~used THEN "pending_reconstruction"
    ELSE IF ~ok THEN "invalidated" ELSE "inconclusive"

(* assert_executable, and the conditions of the attestation route. *)
Executable ==
    /\ answer # NoAnswer /\ review = "approved"
    /\ answer.abstains # "provider_unavailable"
    /\ Merit(answer) /\ conclusion = "decided" /\ valid
    /\ stability.result # "unstable"

-----------------------------------------------------------------------------
ChecksInit ==
    /\ answer = NoAnswer /\ altered \in BOOLEAN /\ valid = FALSE
    /\ stability \in {[enabled |-> FALSE, threshold |-> 0, result |-> "none", agreed |-> {}]} \cup
                     {[enabled |-> TRUE, threshold |-> t, result |-> "none", agreed |-> {}] :
                         t \in {3, 4}}
    /\ review = "none" /\ conclusion = "none" /\ rebuilt = FALSE /\ stage = "open"

(* generate_and_verify_decision *)
Judge(d) ==
    /\ stage = "open"
    /\ answer' = d
    /\ valid' = (VerificationErrors(d) = {})
    /\ conclusion' = ConclusionOf(d, valid')
    /\ stage' = "judged"
    /\ UNCHANGED <<altered, stability, review, rebuilt>>

(* maybe_run_stability, and what decide_case and reconstruct_once make of it. *)
TestStability(agreed) ==
    /\ stage = "judged"
    /\ IF ~stability.enabled
       THEN UNCHANGED <<answer, stability, conclusion>>
       ELSE /\ stability' = [stability EXCEPT !.agreed = agreed,
                                 !.result = IF Stable(agreed) THEN "stable" ELSE "unstable"]
            /\ IF Stable(agreed) THEN UNCHANGED <<answer, conclusion>>
               ELSE /\ answer' = [answer EXCEPT !.outcome = "inconclusive", !.abstains = "unstable"]
                    /\ conclusion' = "inconclusive"
    /\ stage' = IF conclusion' = "invalidated" /\ ~rebuilt THEN "invalidated" ELSE "tested"
    /\ UNCHANGED <<altered, valid, review, rebuilt>>

(* review_case: one reconstruction, from the same material, if another     *)
(* judge is available.                                                     *)
Review(outcome, alternate) ==
    /\ stage = "tested"
    /\ LET first == Finalized(answer, valid, outcome, rebuilt) IN
       IF first = "pending_reconstruction" /\ alternate
       THEN /\ stage' = "open" /\ rebuilt' = TRUE
            /\ answer' = NoAnswer /\ valid' = FALSE /\ conclusion' = "none"
            /\ stability' = [stability EXCEPT !.result = "none", !.agreed = {}]
            /\ UNCHANGED <<altered, review>>
       ELSE /\ stage' = "reviewed" /\ review' = outcome
            /\ conclusion' = Finalized(answer, valid, outcome, rebuilt \/ ~alternate)
            /\ UNCHANGED <<answer, altered, valid, stability, rebuilt>>

Attest ==
    /\ stage = "reviewed" /\ Executable
    /\ stage' = "attested"
    /\ UNCHANGED <<answer, altered, valid, stability, review, conclusion, rebuilt>>

ChecksNext ==
    \/ \E d \in Decisions : Judge(d)
    \/ \E agreed \in Agreements : TestStability(agreed)
    \/ \E outcome \in {"approved", "rejected", "inconclusive"}, alternate \in BOOLEAN :
           Review(outcome, alternate)
    \/ Attest

ChecksSpec == ChecksInit /\ [][ChecksNext]_checkVars

-----------------------------------------------------------------------------
(***************************************************************************)
(* What an attested decision must be, said without the verifier.           *)
(***************************************************************************)
Supported(r) ==
    /\ r.document \in Admitted
    /\ r.chunk \in LockedChunks /\ DocumentOf[r.chunk] = r.document
    /\ r.quote = "locked"

HalfACent(c) ==
    c.formula = "ratio" =>
        LET gap == 2 * (c.result * c.inputs[2].value - c.inputs[1].value)
            unit == IF c.inputs[2].value < 0 THEN -c.inputs[2].value ELSE c.inputs[2].value
        IN gap <= unit /\ -gap <= unit

Founded(d) ==
    /\ Merit(d)
    /\ \A r \in Refs(d) : Supported(r)
    /\ \A i \in DOMAIN d.findings :
          d.findings[i].status = "established" => d.findings[i].evidence # {}
    /\ \E a \in d.applications :
          a.rule \in DOMAIN Rules /\ d.outcome \in Rules[a.rule] /\ a.uses \cap Ids(d) # {}
    /\ d.calc # NoCalc => /\ HalfACent(d.calc)
                          /\ \A i \in DOMAIN d.calc.inputs : d.calc.inputs[i].refs # {}
    /\ d.outcome = "partial" => d.bps # NoBps

(* An attested decision cites only words of admitted documents as they     *)
(* were locked (with the texts altered it can cite none), it rests on a    *)
(* rule of the framework applied to a finding and on a calculation right   *)
(* to half a cent; a second run, where there is one, reached the same      *)
(* outcome, and the audit approved this decision and not the one it        *)
(* replaced.                                                               *)
VerdictSound ==
    /\ ChecksTypeOK
    /\ stage = "attested" =>
         /\ Founded(answer) /\ (altered => Refs(answer) = {})
         /\ stability.enabled => "outcome" \in stability.agreed
         /\ review = "approved" /\ answer.abstains = "no"
=============================================================================
