---------------------------- MODULE JudgmentProofs ----------------------------
(***************************************************************************)
(* Theorems about what a judgment rests on: the verifier of decisions, the *)
(* memory of calculation and the choice of models, for any manifest, rules *)
(* and answers, any contracts and readings, any catalog and settings.      *)
(***************************************************************************)
EXTENDS DecisionChecks, Calculation, ModelSelection, ExcerptProofs, SequenceTheorems

-----------------------------------------------------------------------------
(***************************************************************************)
(* The verifier.                                                           *)
(***************************************************************************)
(* No issue is reported just when its condition is false.                  *)
LEMMA NoIssue == \A bad, code : Code(bad, code) = {} => ~bad
BY DEF Code

(* A citation without issues, of material that was there at the lock, is   *)
(* of an admitted document, in the words that were locked, and the texts   *)
(* have not changed since.                                                 *)
LEMMA CleanReference ==
    ASSUME NEW r, RefErrors(r) = {}, ~PostLock(r)
    PROVE  Supported(r) /\ ~altered
<1>1. r.document \in LockedDocuments
    BY DEF RefErrors
<1>2. r.chunk \in LockedChunks \cup RuntimeChunks
    BY <1>1 DEF RefErrors
<1>3. ~(r.chunk \in LockedChunks \cap RuntimeChunks /\ altered)
    BY <1>1, <1>2 DEF RefErrors
<1>4. RefErrors(r) =
          Code(~r.documentHash, "document_hash_mismatch")
          \cup Code(r.document \notin Admitted, "document_not_admitted")
          \cup (Code(~r.chunkHash, "chunk_hash_mismatch")
                \cup Code(DocumentOf[r.chunk] # r.document, "chunk_document_mismatch")
                \cup Code(r.quote # Text \/ r.chunk \notin RuntimeChunks, "quoted_text_missing")
                \cup Code(r.offsets = "wrong", "quoted_text_offset_mismatch"))
    BY <1>1, <1>2, <1>3 DEF RefErrors
<1> DEFINE admitted == Code(r.document \notin Admitted, "document_not_admitted")
           document == Code(DocumentOf[r.chunk] # r.document, "chunk_document_mismatch")
           text == Code(r.quote # Text \/ r.chunk \notin RuntimeChunks, "quoted_text_missing")
<1>5. admitted = {} /\ document = {} /\ text = {}
    <2> HIDE DEF admitted, document, text
    <2> QED
        BY <1>4 DEF admitted, document, text
<1>6. /\ r.document \in Admitted /\ DocumentOf[r.chunk] = r.document
      /\ r.quote = Text /\ r.chunk \in RuntimeChunks
    BY <1>5, NoIssue
<1>7. r.chunk \in LockedChunks
    BY <1>1, <1>6 DEF PostLock
<1>8. ~altered
    BY <1>3, <1>6, <1>7
<1> QED
    BY <1>6, <1>7, <1>8 DEF Supported, Text

(* Rounding to the even neighbour is off by half a unit of the divisor at  *)
(* most, whatever the signs.                                               *)
LEMMA HalfEvenIsNear ==
    ASSUME NEW n \in Int, NEW m \in Int, m # 0
    PROVE  LET gap == 2 * (HalfEven(n, m) * m - n)
               unit == IF m < 0 THEN -m ELSE m
           IN gap <= unit /\ -gap <= unit
<1> DEFINE above == IF m < 0 THEN -n ELSE n
           below == IF m < 0 THEN -m ELSE m
           q == above \div below
           left == above % below
           e == HalfEven(n, m)
<1>1. above \in Int /\ below \in Int /\ below > 0
    OBVIOUS
<1>2. q \in Int /\ left \in Int /\ above = q * below + left /\ 0 <= left /\ left < below
    <2> HIDE DEF above, below
    <2> QED
        BY <1>1
<1>3. \/ e = q /\ 2 * left <= below
      \/ e = q + 1 /\ 2 * left >= below
    <2>1. e = IF 2 * left > below \/ (2 * left = below /\ q % 2 = 1) THEN q + 1 ELSE q
        BY DEF HalfEven
    <2> HIDE DEF above, below, q, left, e
    <2> QED
        BY <1>1, <1>2, <2>1
<1>4. e \in Int
    <2> HIDE DEF e, q, left, below, above
    <2> QED
        BY <1>2, <1>3
<1> DEFINE d == e * below - above
<1>5. d \in Int /\ 2 * d <= below /\ -(2 * d) <= below
    <2>1. (q + 1) * below = q * below + below
        <3> HIDE DEF q, below
        <3> QED
            BY <1>1, <1>2
    <2>2. q * below \in Int
        <3> HIDE DEF q, below
        <3> QED
            BY <1>1, <1>2
    <2>3. e = q => d = -left
        <3> HIDE DEF e, q, below, above, left
        <3> QED
            BY <1>1, <1>2, <2>2
    <2>4. e = q + 1 => d = below - left
        <3>1. e = q + 1 => e * below = q * below + below
            BY <2>1
        <3> HIDE DEF e, q, below, above, left
        <3> QED
            BY <1>1, <1>2, <2>2, <3>1
    <2> HIDE DEF e, q, below, above, left, d
    <2> QED
        BY <1>1, <1>2, <1>3, <2>3, <2>4
<1>6. e * m - n = IF m < 0 THEN -d ELSE d
    <2>1. m < 0 => e * below = -(e * m)
        <3> HIDE DEF e
        <3> QED
            BY <1>4
    <2>2. e * m \in Int
        <3> HIDE DEF e
        <3> QED
            BY <1>4
    <2> HIDE DEF e
    <2> QED
        BY <2>1, <2>2
<1> HIDE DEF e, d
<1>7. e * m - n \in Int
    BY <1>5, <1>6
<1> DEFINE x == e * m - n
<1>8. x \in Int /\ x = IF m < 0 THEN -d ELSE d
    BY <1>6, <1>7
<1>9. 2 * x <= below /\ -(2 * x) <= below
    <2> HIDE DEF x
    <2> QED
        BY <1>5, <1>8
<1> QED
    BY <1>9 DEF e

(* A decision on the merits that the verifier found nothing against is     *)
(* founded, abstains from nothing, and cites nothing if the texts changed. *)
LEMMA VerifiedIsFounded ==
    ASSUME NEW d \in DecisionOutput, Merit(d), VerificationErrors(d) = {}
    PROVE  Founded(d) /\ d.abstains = "no" /\ (altered => Refs(d) = {})
<1>1. /\ SchemaOK(d) /\ FindingErrors(d) = {} /\ RuleErrors(d) = {} /\ CalcErrors(d) = {}
      /\ d.abstains = "no" /\ ~ \E r \in Refs(d) : PostLock(r)
    <2>1. SchemaOK(d)
        BY DEF VerificationErrors
    <2> DEFINE abstains == Code(Merit(d) /\ d.abstains # "no", "merit_with_abstention")
               locked == Code(\E r \in Refs(d) : PostLock(r), "post_lock_material")
    <2>2. VerificationErrors(d) = FindingErrors(d) \cup RuleErrors(d) \cup CalcErrors(d)
              \cup Code(~d.framework, "framework_mismatch") \cup abstains \cup locked
        BY <2>1 DEF VerificationErrors
    <2>3. /\ FindingErrors(d) = {} /\ RuleErrors(d) = {} /\ CalcErrors(d) = {}
          /\ abstains = {} /\ locked = {}
        <3> HIDE DEF abstains, locked
        <3> QED
            BY <2>2
    <2> QED
        BY <2>1, <2>3, NoIssue
<1>2. /\ d.findings \in Seq(MaterialFinding) /\ d.applications \subseteq RuleApplication
      /\ d.calc \in RemedyCalculation \cup {NoCalc}
    BY DEF DecisionOutput
<1>3. ASSUME NEW i \in DOMAIN d.findings
      PROVE  /\ d.findings[i].status = "established" => d.findings[i].evidence # {}
             /\ \A r \in d.findings[i].evidence \cup d.findings[i].counter : RefErrors(r) = {}
    <2> DEFINE found(f) == IF f.status = "established" /\ f.evidence = {}
                           THEN {"established_without_evidence"}
                           ELSE UNION {RefErrors(r) : r \in f.evidence \cup f.counter}
    <2>1. UNION {found(d.findings[j]) : j \in DOMAIN d.findings} = {}
        BY <1>1 DEF FindingErrors
    <2>2. found(d.findings[i]) = {}
        <3> HIDE DEF found
        <3> QED
            BY <2>1
    <2> QED
        BY <2>2
<1>4. d.findings # <<>> /\ d.applications # {} /\ UsedFindings(d) # {}
    <2>1. d.findings = <<>> => "missing_material_findings" \in FindingErrors(d)
        BY DEF FindingErrors, Code
    <2>2. d.applications = {} => "missing_rule_applications" \in RuleErrors(d)
        BY DEF RuleErrors, Code
    <2>3. d.applications # {} /\ d.findings # <<>> /\ UsedFindings(d) = {} =>
              "conclusion_without_finding" \in RuleErrors(d)
        BY DEF RuleErrors, Code
    <2> QED
        BY <1>1, <2>1, <2>2, <2>3
<1>5. ASSUME NEW a \in d.applications
      PROVE  /\ a.rule \in DOMAIN Rules /\ d.outcome \in Rules[a.rule]
             /\ a.uses \subseteq Ids(d)
    <2> DEFINE ruled(b) == IF b.rule \notin DOMAIN Rules THEN {"unknown_rule"}
                           ELSE Code(Merit(d) /\ d.outcome \notin Rules[b.rule],
                                     "outcome_not_allowed_by_rule")
                                \cup Code(~(b.uses \subseteq Ids(d)), "orphan_finding_reference")
    <2>1. UNION {ruled(b) : b \in d.applications} \subseteq RuleErrors(d)
        BY DEF RuleErrors
    <2>2. ruled(a) = {}
        <3> HIDE DEF ruled
        <3> QED
            BY <1>1, <2>1
    <2>3. a.rule \in DOMAIN Rules
        BY <2>2
    <2> DEFINE outcome == Code(Merit(d) /\ d.outcome \notin Rules[a.rule],
                               "outcome_not_allowed_by_rule")
               orphan == Code(~(a.uses \subseteq Ids(d)), "orphan_finding_reference")
    <2>4. outcome = {} /\ orphan = {}
        BY <2>2, <2>3
    <2> QED
        BY <2>3, <2>4, NoIssue
<1>6. \E a \in d.applications :
          a.rule \in DOMAIN Rules /\ d.outcome \in Rules[a.rule] /\ a.uses \cap Ids(d) # {}
    <2>1. PICK a \in d.applications : a.uses # {}
        BY <1>4 DEF UsedFindings
    <2> QED
        BY <1>5, <2>1
<1>7. d.calc # NoCalc =>
          /\ HalfACent(d.calc)
          /\ \A i \in DOMAIN d.calc.inputs :
                 /\ d.calc.inputs[i].refs # {}
                 /\ \A r \in d.calc.inputs[i].refs : RefErrors(r) = {}
    <2>1. SUFFICES ASSUME d.calc # NoCalc
                   PROVE  /\ HalfACent(d.calc)
                          /\ \A i \in DOMAIN d.calc.inputs :
                                 /\ d.calc.inputs[i].refs # {}
                                 /\ \A r \in d.calc.inputs[i].refs : RefErrors(r) = {}
        OBVIOUS
    <2> DEFINE c == d.calc
               cited(f) == IF f.refs = {} THEN {"monetary_value_without_evidence"}
                           ELSE UNION {RefErrors(r) : r \in f.refs}
    <2>2. c \in RemedyCalculation /\ c.inputs \in Seq(CalculationInput) /\ c.result \in Int
        BY <1>2, <2>1 DEF RemedyCalculation
    <2>3. ~Evaluates(c, c.result) => "calculation_result_mismatch" \in CalcErrors(d)
        BY <2>1 DEF CalcErrors, Code
    <2>4. UNION {cited(c.inputs[i]) : i \in DOMAIN c.inputs} \subseteq CalcErrors(d)
        BY <2>1 DEF CalcErrors
    <2>6. Evaluates(c, c.result)
        BY <1>1, <2>3
    <2>7. ASSUME c.formula = "ratio" PROVE HalfACent(c)
        <3>1. /\ Len(c.inputs) > 1 /\ c.inputs[2].value # 0
              /\ c.result = HalfEven(c.inputs[1].value, c.inputs[2].value)
            BY <2>6, <2>7 DEF Evaluates
        <3>2. 1 \in DOMAIN c.inputs /\ 2 \in DOMAIN c.inputs
            BY <2>2, <3>1
        <3>3. c.inputs[1] \in CalculationInput /\ c.inputs[2] \in CalculationInput
            BY <2>2, <3>2, ElementsOf
        <3>4. c.inputs[1].value \in Int /\ c.inputs[2].value \in Int
            BY <3>3 DEF CalculationInput
        <3> QED
            BY <3>1, <3>4, HalfEvenIsNear DEF HalfACent
    <2>8. HalfACent(c)
        BY <2>7 DEF HalfACent
    <2>9. ASSUME NEW i \in DOMAIN c.inputs
          PROVE  c.inputs[i].refs # {} /\ \A r \in c.inputs[i].refs : RefErrors(r) = {}
        <3>1. cited(c.inputs[i]) = {}
            <4> HIDE DEF cited
            <4> QED
                BY <1>1, <2>4
        <3> QED
            BY <3>1
    <2> QED
        BY <2>8, <2>9
<1>8. ASSUME NEW r \in Refs(d) PROVE Supported(r) /\ ~altered
    <2>1. RefErrors(r) = {}
        <3>1. CASE r \in FindingRefs(d)
            BY <1>3, <3>1 DEF FindingRefs
        <3>2. CASE r \in CalcRefs(d)
            BY <1>7, <3>2 DEF CalcRefs
        <3> QED
            BY <3>1, <3>2 DEF Refs
    <2> QED
        BY <1>1, <2>1, CleanReference
<1> QED
    BY <1>1, <1>3, <1>6, <1>7, <1>8 DEF Founded, SchemaOK

(* The inductive invariant: an answer is a decision of the schema, a valid *)
(* one on the merits has no error of the verifier against the texts as     *)
(* they are, a second run that was asked for has left its result, and what *)
(* was attested could be.  That an attested decision is founded follows    *)
(* from these and from no single step.                                     *)
Examined ==
    /\ answer \in DecisionOutput \cup {NoAnswer} /\ (stage # "open" => answer # NoAnswer)
    /\ valid /\ Merit(answer) => VerificationErrors(answer) = {}
    /\ stage \in {"tested", "reviewed", "attested"} /\ stability.enabled =>
          \/ stability.result = "stable" /\ "outcome" \in stability.agreed
          \/ stability.result = "unstable"
    /\ stage = "attested" => Executable

ChecksIInv == ChecksTypeOK /\ Examined

(* Texts that stay as they are leave the verifier's answer as it was.      *)
LEMMA SameVerdict ==
    ASSUME altered' = altered
    PROVE  \A d : VerificationErrors(d)' = VerificationErrors(d)
BY DEF VerificationErrors, SchemaOK, FindingErrors, RuleErrors, CalcErrors, RefErrors, Text,
   Refs, FindingRefs, CalcRefs, UsedFindings, Ids, Merit, Evaluates, PostLock, Code

(* A new answer, with the verifier's answer on it, keeps the invariant.    *)
LEMMA JudgeKeeps ==
    ASSUME ChecksIInv, NEW d \in Decisions, Judge(d)
    PROVE  ChecksIInv'
<1>1. /\ stage = "open" /\ answer' = d /\ valid' = (VerificationErrors(d) = {})
      /\ conclusion' = ConclusionOf(d, valid') /\ stage' = "judged"
      /\ UNCHANGED <<altered, stability, review, rebuilt>>
    BY DEF Judge
<1>2. d \in DecisionOutput /\ d # NoAnswer
    <2>1. d \in DecisionOutput
        BY ChecksAssumption
    <2>2. d.outcome # "none"
        BY <2>1 DEF DecisionOutput
    <2> QED
        BY <2>1, <2>2 DEF NoAnswer
<1>3. VerificationErrors(d)' = VerificationErrors(d)
    BY <1>1, SameVerdict
<1>4. conclusion' \in {"none", "decided", "inconclusive", "inadmissible", "invalidated",
                       "system_failure"}
    BY <1>1 DEF ConclusionOf
<1>5. valid' \in BOOLEAN
    BY <1>1
<1>6. ChecksTypeOK'
    BY <1>1, <1>4, <1>5 DEF ChecksIInv, ChecksTypeOK
<1>7. Examined'
    BY <1>1, <1>2, <1>3 DEF Examined
<1> QED
    BY <1>6, <1>7 DEF ChecksIInv

(* A decision that turns out unstable stays a decision, on no merits.      *)
LEMMA UnstableIsOutput ==
    ASSUME NEW d \in DecisionOutput
    PROVE  LET u == [d EXCEPT !.outcome = "inconclusive", !.abstains = "unstable"]
           IN u \in DecisionOutput /\ u.outcome = "inconclusive"
<1> DEFINE u == [d EXCEPT !.outcome = "inconclusive", !.abstains = "unstable"]
           findings == Seq(MaterialFinding)
           applications == SUBSET RuleApplication
           calcs == RemedyCalculation \cup {NoCalc}
           shares == NoBps..10000
<1>1. DecisionOutput =
          [outcome : {"claimant", "respondent", "partial", "inconclusive"}, bps : shares,
           findings : findings, applications : applications, calc : calcs,
           framework : BOOLEAN,
           abstains : {"no", "out_of_scope", "integrity", "provider_unavailable", "unstable",
                       "other"}]
    BY DEF DecisionOutput
<1> HIDE DEF findings, applications, calcs, shares
<1> QED
    BY <1>1

(* The second run keeps the invariant: an answer it does not confirm is    *)
(* not on the merits any more.                                             *)
LEMMA TestKeeps ==
    ASSUME ChecksIInv, NEW agreed \in Agreements, TestStability(agreed)
    PROVE  ChecksIInv'
<1>1. /\ stage = "judged" /\ UNCHANGED <<altered, valid, review, rebuilt>>
      /\ stage' \in {"invalidated", "tested"}
    BY DEF TestStability
<1>2. /\ ChecksTypeOK /\ Examined /\ answer \in DecisionOutput /\ answer # NoAnswer
      /\ agreed \subseteq Dimensions
      /\ stability \in [enabled : BOOLEAN, threshold : 0..4,
                        result : {"none", "stable", "unstable"}, agreed : SUBSET Dimensions]
    BY <1>1, ChecksAssumption DEF ChecksIInv, Examined, ChecksTypeOK, Dimensions
<1>3. \A d : VerificationErrors(d)' = VerificationErrors(d)
    BY <1>1, SameVerdict
<1>4. CASE ~stability.enabled
    <2>1. UNCHANGED <<answer, stability, conclusion>>
        BY <1>4 DEF TestStability
    <2> QED
        BY <1>1, <1>2, <1>3, <1>4, <2>1 DEF ChecksIInv, Examined, ChecksTypeOK, Merit
<1>5. CASE stability.enabled
    <2>1. /\ stability'.enabled /\ stability'.agreed = agreed
          /\ stability'.result = IF Stable(agreed) THEN "stable" ELSE "unstable"
          /\ stability' \in [enabled : BOOLEAN, threshold : 0..4,
                             result : {"none", "stable", "unstable"},
                             agreed : SUBSET Dimensions]
        BY <1>2, <1>5 DEF TestStability
    <2>2. CASE Stable(agreed)
        <3>1. UNCHANGED <<answer, conclusion>> /\ "outcome" \in agreed
            BY <1>5, <2>2 DEF TestStability, Stable
        <3>2. ChecksTypeOK'
            BY <1>1, <1>2, <2>1, <3>1 DEF ChecksTypeOK
        <3>3. Examined'
            BY <1>1, <1>2, <1>3, <2>1, <2>2, <3>1 DEF Examined, Merit
        <3> QED
            BY <3>2, <3>3 DEF ChecksIInv
    <2>3. CASE ~Stable(agreed)
        <3>1. /\ answer' = [answer EXCEPT !.outcome = "inconclusive", !.abstains = "unstable"]
              /\ conclusion' = "inconclusive"
            BY <1>5, <2>3 DEF TestStability
        <3>2. answer' \in DecisionOutput /\ answer'.outcome = "inconclusive"
            BY <1>2, <3>1, UnstableIsOutput
        <3>3. ~Merit(answer)' /\ answer' # NoAnswer
            BY <3>2 DEF Merit, ExecutableOutcomes, NoAnswer
        <3>4. ChecksTypeOK'
            BY <1>1, <1>2, <2>1, <3>1, <3>2 DEF ChecksTypeOK
        <3>5. Examined'
            BY <1>1, <1>2, <2>1, <2>3, <3>2, <3>3 DEF Examined
        <3> QED
            BY <3>4, <3>5 DEF ChecksIInv
    <2> QED
        BY <2>2, <2>3
<1> QED
    BY <1>2, <1>4, <1>5 DEF ChecksTypeOK

(* The audit keeps the invariant, whether it ends the judgment or has the  *)
(* decision rebuilt from the beginning.                                    *)
LEMMA ReviewKeeps ==
    ASSUME ChecksIInv, NEW outcome \in {"approved", "rejected", "inconclusive"},
           NEW alternate \in BOOLEAN, Review(outcome, alternate)
    PROVE  ChecksIInv'
<1>1. /\ ChecksTypeOK /\ Examined /\ stage = "tested" /\ altered' = altered
      /\ stability \in [enabled : BOOLEAN, threshold : 0..4,
                        result : {"none", "stable", "unstable"}, agreed : SUBSET Dimensions]
    BY DEF ChecksIInv, Review, ChecksTypeOK
<1>2. \A d : VerificationErrors(d)' = VerificationErrors(d)
    BY <1>1, SameVerdict
<1> DEFINE first == Finalized(answer, valid, outcome, rebuilt)
<1>3. CASE first = "pending_reconstruction" /\ alternate
    <2>1. /\ stage' = "open" /\ rebuilt' = TRUE /\ answer' = NoAnswer /\ valid' = FALSE
          /\ conclusion' = "none" /\ UNCHANGED <<altered, review>>
          /\ stability' = [stability EXCEPT !.result = "none", !.agreed = {}]
        BY <1>3 DEF Review
    <2>2. stability' \in [enabled : BOOLEAN, threshold : 0..4,
                          result : {"none", "stable", "unstable"}, agreed : SUBSET Dimensions]
        BY <1>1, <2>1
    <2>3. ChecksTypeOK'
        BY <1>1, <2>1, <2>2 DEF ChecksTypeOK
    <2>4. Examined'
        BY <2>1 DEF Examined
    <2> QED
        BY <2>3, <2>4 DEF ChecksIInv
<1>4. CASE ~(first = "pending_reconstruction" /\ alternate)
    <2>1. /\ stage' = "reviewed" /\ review' = outcome
          /\ conclusion' = Finalized(answer, valid, outcome, rebuilt \/ ~alternate)
          /\ UNCHANGED <<answer, altered, valid, stability, rebuilt>>
        BY <1>4 DEF Review
    <2>2. conclusion' \in {"none", "decided", "inconclusive", "inadmissible", "invalidated",
                           "system_failure"}
        BY <1>1, <1>4, <2>1 DEF Finalized, ChecksTypeOK
    <2>3. ChecksTypeOK'
        BY <1>1, <2>1, <2>2 DEF ChecksTypeOK
    <2>4. Examined'
        BY <1>1, <1>2, <2>1 DEF Examined, Merit
    <2> QED
        BY <2>3, <2>4 DEF ChecksIInv
<1> QED
    BY <1>3, <1>4

(* An attested decision is VerdictSound: it cites only words of admitted   *)
(* documents as they were locked, rests on a rule applied to a finding and *)
(* on a calculation right to half a cent, was confirmed by a second run    *)
(* where one was asked for, and is the one the audit approved.             *)
THEOREM VerdictsAreSound == ChecksSpec => []VerdictSound
<1>1. ChecksInit => ChecksIInv
    <2> SUFFICES ASSUME ChecksInit PROVE ChecksIInv
        OBVIOUS
    <2>1. stability \in [enabled : BOOLEAN, threshold : 0..4,
                         result : {"none", "stable", "unstable"}, agreed : SUBSET Dimensions]
        <3>1. PICK asked \in BOOLEAN, t \in {0, 3, 4} : stability =
                  [enabled |-> asked, threshold |-> t, result |-> "none", agreed |-> {}]
            BY DEF ChecksInit
        <3>2. t \in 0..4
            OBVIOUS
        <3> QED
            BY <3>1, <3>2
    <2>2. ChecksTypeOK
        BY <2>1 DEF ChecksInit, ChecksTypeOK
    <2>3. Examined
        BY DEF ChecksInit, Examined
    <2> QED
        BY <2>2, <2>3 DEF ChecksIInv
<1>2. ChecksIInv /\ [ChecksNext]_checkVars => ChecksIInv'
    <2> SUFFICES ASSUME ChecksIInv, [ChecksNext]_checkVars PROVE ChecksIInv'
        OBVIOUS
    <2>1. CASE Attest
        <3>1. /\ stage = "reviewed" /\ Executable /\ stage' = "attested"
              /\ UNCHANGED <<answer, altered, valid, stability, review, conclusion, rebuilt>>
            BY <2>1 DEF Attest
        <3>2. \A d : VerificationErrors(d)' = VerificationErrors(d)
            BY <3>1, SameVerdict
        <3>3. ChecksTypeOK'
            BY <3>1 DEF ChecksIInv, ChecksTypeOK
        <3>4. Examined'
            BY <3>1, <3>2 DEF ChecksIInv, Examined, Merit, Executable
        <3> QED
            BY <3>3, <3>4 DEF ChecksIInv
    <2>2. CASE UNCHANGED checkVars
        <3>1. \A d : VerificationErrors(d)' = VerificationErrors(d)
            BY <2>2, SameVerdict DEF checkVars
        <3> QED
            BY <2>2, <3>1 DEF checkVars, ChecksIInv, ChecksTypeOK, Examined, Merit, Executable
    <2> QED
        BY <2>1, <2>2, JudgeKeeps, TestKeeps, ReviewKeeps DEF ChecksNext
<1>3. ChecksIInv => VerdictSound
    <2>1. SUFFICES ASSUME ChecksIInv, stage = "attested"
                   PROVE  /\ Founded(answer) /\ (altered => Refs(answer) = {})
                          /\ stability.enabled => "outcome" \in stability.agreed
                          /\ review = "approved" /\ answer.abstains = "no"
        BY DEF VerdictSound, ChecksIInv
    <2>2. /\ answer \in DecisionOutput /\ Merit(answer) /\ VerificationErrors(answer) = {}
          /\ review = "approved"
          /\ stability.enabled => "outcome" \in stability.agreed
        BY <2>1 DEF ChecksIInv, Examined, Executable
    <2> QED
        BY <2>2, VerifiedIsFounded
<1> QED
    BY <1>1, <1>2, <1>3, PTL DEF ChecksSpec

-----------------------------------------------------------------------------
(***************************************************************************)
(* The choice of models.                                                   *)
(***************************************************************************)
(* What is left of a list outside some families: models of the list, none  *)
(* of those families, and none at all only if the list had no other.       *)
LEMMA OutsideFacts ==
    ASSUME NEW list \in Seq(Models), NEW families
    PROVE  LET o == Outside(list, families) IN
           /\ o \in Seq(Models) /\ Listed(o) \subseteq Listed(list)
           /\ \A m \in Listed(o) : VendorOf[m] \notin families
           /\ o = <<>> => \A m \in Listed(list) : VendorOf[m] \in families
           /\ o # <<>> => o[1] \in Listed(o)
<1> DEFINE D == {i \in DOMAIN list : VendorOf[list[i]] \notin families}
           o == Outside(list, families)
<1>1. o = Excerpt(list, D) /\ D \subseteq DOMAIN list
    BY DEF Outside
<1>2. /\ o \in Seq(Models)
      /\ \A n \in DOMAIN o : Nth(D, n) \in D /\ o[n] = list[Nth(D, n)]
      /\ \A d \in D : \E n \in DOMAIN o : Nth(D, n) = d
    <2> HIDE DEF D, o
    <2> QED
        BY <1>1, ExcerptFacts
<1>3. \A m \in Listed(o) : m \in Listed(list) /\ VendorOf[m] \notin families
    <2>1. ASSUME NEW m \in Listed(o) PROVE m \in Listed(list) /\ VendorOf[m] \notin families
        <3>1. PICK n \in DOMAIN o : m = o[n]
            BY DEF Listed
        <3> QED
            BY <1>2, <3>1 DEF Listed
    <2> QED
        BY <2>1
<1>4. ASSUME o = <<>>, NEW m \in Listed(list) PROVE VendorOf[m] \in families
    <2>1. PICK i \in DOMAIN list : m = list[i]
        BY DEF Listed
    <2>2. DOMAIN o = {}
        BY <1>4
    <2> QED
        BY <1>2, <2>1, <2>2
<1>5. o # <<>> => 1 \in DOMAIN o
    <2> HIDE DEF o
    <2> QED
        BY <1>2
<1> QED
    BY <1>2, <1>3, <1>4, <1>5 DEF Listed

(* The shortlist is of the list.                                           *)
LEMMA ShortlistFacts ==
    ASSUME NEW list \in Seq(Models)
    PROVE  Shortlist(list) \in Seq(Models) /\ Listed(Shortlist(list)) \subseteq Listed(list)
<1> DEFINE n == IF Len(list) < SHORTLIST_SIZE THEN Len(list) ELSE SHORTLIST_SIZE
           s == SubSeq(list, 1, n)
<1>1. n \in Nat /\ n <= Len(list) /\ Len(list) \in Nat
    BY SelectionAssumption
<1>2. s \in Seq(Models) /\ Len(s) = n /\ \A i \in 1..n : s[i] = list[i] /\ i \in DOMAIN list
    <2> HIDE DEF n
    <2> QED
        BY <1>1
<1> HIDE DEF s, n
<1>3. DOMAIN s = 1..n
    BY <1>1, <1>2
<1>4. Listed(s) \subseteq Listed(list)
    BY <1>2, <1>3 DEF Listed
<1> QED
    BY <1>2, <1>4 DEF Shortlist, s, n

(* Two families do not exhaust three.                                      *)
LEMMA ThirdFamily ==
    ASSUME NEW F, Cardinality(F) >= 3, IsFiniteSet(F), NEW x, NEW y
    PROVE  F \ {x, y} # {}
<1>1. SUFFICES ASSUME F \subseteq {x, y} PROVE FALSE
    OBVIOUS
<1>2. IsFiniteSet({x, y}) /\ Cardinality({x, y}) <= 2 /\ Cardinality({x, y}) \in Nat
    <2>1. IsFiniteSet({x}) /\ Cardinality({x}) = 1
        BY FS_Singleton
    <2>2. {x, y} = {x} \cup {y}
        OBVIOUS
    <2>3. /\ IsFiniteSet({x} \cup {y})
          /\ Cardinality({x} \cup {y}) = 1 \/ Cardinality({x} \cup {y}) = 2
        BY <2>1, FS_AddElement
    <2> QED
        BY <2>2, <2>3
<1>3. Cardinality(F) <= Cardinality({x, y}) /\ Cardinality(F) \in Nat
    BY <1>1, <1>2, FS_Subset, FS_CardinalityType
<1> QED
    BY <1>2, <1>3

(* The families listed are finitely many.                                  *)
LEMMA FamiliesFinite ==
    ASSUME NEW list \in Seq(Models)
    PROVE  IsFiniteSet({Family(m) : m \in Listed(list)})
<1> DEFINE f == [i \in DOMAIN list |-> Family(list[i])]
           F == {Family(m) : m \in Listed(list)}
<1>1. IsFiniteSet(DOMAIN list)
    <2>1. DOMAIN list = 1..Len(list) /\ Len(list) \in Int
        OBVIOUS
    <2> QED
        BY <2>1, FS_Interval
<1>2. F = {f[i] : i \in DOMAIN list}
    BY DEF Listed
<1>3. f \in [DOMAIN list -> F] /\ f \in Surjection(DOMAIN list, F)
    <2>1. f \in [DOMAIN list -> F]
        BY <1>2
    <2> QED
        BY <1>2, <2>1 DEF Surjection
<1> HIDE DEF f, F
<1>4. IsFiniteSet(F)
    BY <1>1, <1>3, FS_Surjection
<1> QED
    BY <1>4 DEF F

(* A stage repeats a family only when its shortlist has no other, or when  *)
(* it is pinned: the second and third claims of FamiliesApart.             *)
Unavoidable(model, short, pins) ==
    /\ "reviewer" \notin pins /\ Family(model["reviewer"]) = Family(model["judge"])
         /\ Family(model["judge"]) # "unknown" =>
           \A m \in Listed(short["reviewer"]) : Family(m) = Family(model["judge"])
    /\ "appeal" \notin pins /\ Family(model["appeal"]) # "unknown"
         /\ Family(model["appeal"]) \in {Family(model["judge"]), Family(model["reviewer"])} =>
           \A m \in Listed(short["appeal"]) :
               Family(m) \in {Family(model["judge"]), Family(model["reviewer"])}

(* The ranking seats three families where nothing is pinned and there are  *)
(* three, and repeats one only when it cannot be avoided.                  *)
LEMMA RankingApart ==
    ASSUME SelectionTypeOK, ranking \in Rankings
    PROVE  LET p == PickFromRank IN
           /\ p.model \in [Panel -> Models] /\ p.short \in [Panel -> Seq(Models)]
           /\ p.provider \in [Panel -> Providers]
           /\ settings.pins = {}
                /\ (\A a \in Panel : Cardinality({Family(m) : m \in Listed(ranking[a])}) >= 3) =>
                  \A a, b \in Panel : a # b => Family(p.model[a]) # Family(p.model[b])
           /\ Unavoidable(p.model, p.short, settings.pins)
<1> DEFINE judges == RankStage("judge", {})
           judge == First(judges, "judge")
           taken == Taken("judge", judges, judge)
           reviewers == RankStage("reviewer", taken)
           reviewer == First(reviewers, "reviewer")
           both == taken \cup Taken("reviewer", reviewers, reviewer)
           appeals == RankStage("appeal", both)
           appeal == First(appeals, "appeal")
           lists == [judge |-> judges, reviewer |-> reviewers, appeal |-> appeals]
           seats == [judge |-> judge, reviewer |-> reviewer, appeal |-> appeal]
           through == [a \in Panel |-> Through(lists[a], a)]
           shorts == [a \in Panel |-> Shortlist(lists[a])]
           p == PickFromRank
<1>1. p = [model |-> seats, provider |-> through, short |-> shorts]
    BY DEF PickFromRank
<1>2. /\ ranking \in [Panel -> Seq(Models)] /\ settings \in Configurations
      /\ Listed(ranking["judge"]) = Listed(ranking["reviewer"])
      /\ ranking["reviewer"] = ranking["appeal"]
    BY SelectionAssumption DEF SelectionTypeOK
<1>3. /\ ranking["judge"] \in Seq(Models) /\ ranking["reviewer"] \in Seq(Models)
      /\ ranking["appeal"] \in Seq(Models) /\ settings.model \in [Panel -> Models]
      /\ settings.model["judge"] \in Models /\ settings.model["reviewer"] \in Models
      /\ settings.model["appeal"] \in Models
    BY <1>2 DEF Configurations, Panel
<1> DEFINE L == Listed(ranking["judge"])
<1>4. L = Listed(ranking["reviewer"]) /\ L = Listed(ranking["appeal"])
    BY <1>2
<1>5. /\ judges \in Seq(Models) /\ (judges = <<>> => L = {})
      /\ (judges # <<>> => judges[1] \in Listed(judges)) /\ Listed(judges) \subseteq Models
    <2>1. /\ judges \in Seq(Models)
          /\ judges = <<>> => \A m \in L : VendorOf[m] \in {}
          /\ judges # <<>> => judges[1] \in Listed(judges)
        BY <1>3, OutsideFacts DEF RankStage
    <2>2. Listed(judges) \subseteq Models
        BY <2>1, ElementsOf DEF Listed
    <2> QED
        BY <2>1, <2>2
<1>6. /\ reviewers \in Seq(Models) /\ (reviewers = <<>> => \A m \in L : VendorOf[m] \in taken)
      /\ (reviewers # <<>> => reviewers[1] \in Listed(reviewers))
      /\ Listed(reviewers) \subseteq L /\ Listed(reviewers) \subseteq Models
      /\ \A m \in Listed(reviewers) : VendorOf[m] \notin taken
    <2> HIDE DEF taken
    <2>1. /\ reviewers \in Seq(Models) /\ Listed(reviewers) \subseteq L
          /\ \A m \in Listed(reviewers) : VendorOf[m] \notin taken
          /\ reviewers = <<>> => \A m \in L : VendorOf[m] \in taken
          /\ reviewers # <<>> => reviewers[1] \in Listed(reviewers)
        BY <1>3, <1>4, OutsideFacts DEF RankStage
    <2>2. Listed(reviewers) \subseteq Models
        BY <2>1, ElementsOf DEF Listed
    <2> QED
        BY <2>1, <2>2
<1>7. /\ appeals \in Seq(Models) /\ (appeals = <<>> => \A m \in L : VendorOf[m] \in both)
      /\ (appeals # <<>> => appeals[1] \in Listed(appeals))
      /\ Listed(appeals) \subseteq L /\ Listed(appeals) \subseteq Models
      /\ \A m \in Listed(appeals) : VendorOf[m] \notin both
    <2> HIDE DEF both
    <2>1. /\ appeals \in Seq(Models) /\ Listed(appeals) \subseteq L
          /\ \A m \in Listed(appeals) : VendorOf[m] \notin both
          /\ appeals = <<>> => \A m \in L : VendorOf[m] \in both
          /\ appeals # <<>> => appeals[1] \in Listed(appeals)
        BY <1>3, <1>4, OutsideFacts DEF RankStage
    <2>2. Listed(appeals) \subseteq Models
        BY <2>1, ElementsOf DEF Listed
    <2> QED
        BY <2>1, <2>2
<1>8. judge \in Models /\ reviewer \in Models /\ appeal \in Models
    <2> HIDE DEF judges, reviewers, appeals
    <2> QED
        BY <1>3, <1>5, <1>6, <1>7 DEF First
<1>9. taken = IF "judge" \notin settings.pins /\ judges = <<>> THEN {} ELSE {VendorOf[judge]}
    BY DEF Taken
<1>10. both = taken \cup (IF "reviewer" \notin settings.pins /\ reviewers = <<>> THEN {}
                          ELSE {VendorOf[reviewer]})
    BY DEF Taken
<1>11. /\ "judge" \notin settings.pins /\ judges # <<>> => judge = judges[1]
       /\ "reviewer" \notin settings.pins /\ reviewers # <<>> => reviewer = reviewers[1]
       /\ "appeal" \notin settings.pins /\ appeals # <<>> => appeal = appeals[1]
    BY DEF First
<1>12. Shortlist(judges) \in Seq(Models) /\ Shortlist(reviewers) \in Seq(Models)
       /\ Shortlist(appeals) \in Seq(Models)
       /\ Listed(Shortlist(reviewers)) \subseteq Listed(reviewers)
       /\ Listed(Shortlist(appeals)) \subseteq Listed(appeals)
    <2> HIDE DEF judges, reviewers, appeals
    <2> QED
        BY <1>5, <1>6, <1>7, ShortlistFacts
<1>13. p.model \in [Panel -> Models] /\ p.short \in [Panel -> Seq(Models)]
       /\ p.model["judge"] = judge /\ p.model["reviewer"] = reviewer /\ p.model["appeal"] = appeal
       /\ p.short["reviewer"] = Shortlist(reviewers) /\ p.short["appeal"] = Shortlist(appeals)
       /\ p.provider \in [Panel -> Providers]
    <2>1. through \in [Panel -> Providers]
        <3>1. settings.default \in Providers /\ settings.provider \in [Panel -> Providers]
            BY <1>2 DEF Configurations
        <3>2. \A a \in Panel : Through(lists[a], a) \in Providers
            BY <3>1 DEF Through
        <3> QED
            BY <3>2
    <2> HIDE DEF judges, reviewers, appeals, judge, reviewer, appeal, p, through
    <2> QED
        BY <1>1, <1>8, <1>12, <2>1 DEF Panel
<1> HIDE DEF judges, reviewers, appeals, judge, reviewer, appeal, taken, both, p
<1>14. ASSUME settings.pins = {},
              \A a \in Panel : Cardinality({Family(m) : m \in Listed(ranking[a])}) >= 3
       PROVE  \A a, b \in Panel : a # b => Family(p.model[a]) # Family(p.model[b])
    <2> DEFINE F == {Family(m) : m \in L}
    <2>1. Cardinality(F) >= 3 /\ IsFiniteSet(F)
        BY <1>3, <1>14, FamiliesFinite DEF Panel
    <2>2. \A x, y : \E m \in L : Family(m) \notin {x, y}
        <3> TAKE x, y
        <3>1. F \ {x, y} # {}
            <4> HIDE DEF F
            <4> QED
                BY <2>1, ThirdFamily
        <3> QED
            BY <3>1
    <2>3. judges # <<>> /\ taken = {Family(judge)}
        BY <1>5, <1>9, <2>2 DEF Family
    <2>4. reviewers # <<>>
        BY <1>6, <2>2, <2>3 DEF Family
    <2>5. Family(reviewer) # Family(judge) /\ both = {Family(judge), Family(reviewer)}
        BY <1>6, <1>10, <1>11, <1>14, <2>3, <2>4 DEF Family
    <2>6. appeals # <<>>
        BY <1>7, <2>2, <2>5 DEF Family
    <2>7. Family(appeal) \notin {Family(judge), Family(reviewer)}
        BY <1>7, <1>11, <1>14, <2>5, <2>6 DEF Family
    <2> QED
        BY <1>13, <2>5, <2>7 DEF Panel
<1>15. ASSUME "reviewer" \notin settings.pins, Family(reviewer) = Family(judge)
       PROVE  Listed(Shortlist(reviewers)) = {}
    <2>1. CASE "judge" \notin settings.pins /\ judges = <<>>
        BY <1>5, <1>6, <1>12, <2>1
    <2>2. CASE ~("judge" \notin settings.pins /\ judges = <<>>)
        <3>1. taken = {Family(judge)}
            BY <1>9, <2>2 DEF Family
        <3>2. reviewers = <<>>
            BY <1>6, <1>11, <1>15, <3>1 DEF Family
        <3>3. Listed(reviewers) = {}
            BY <3>2 DEF Listed
        <3> QED
            BY <1>12, <3>3
    <2> QED
        BY <2>1, <2>2
<1>16. ASSUME "appeal" \notin settings.pins,
              Family(appeal) \in {Family(judge), Family(reviewer)}
       PROVE  Listed(Shortlist(appeals)) = {}
    <2>1. CASE "judge" \notin settings.pins /\ judges = <<>>
        BY <1>5, <1>7, <1>12, <2>1
    <2>2. CASE ~("judge" \notin settings.pins /\ judges = <<>>)
        <3>1. taken = {Family(judge)}
            BY <1>9, <2>2 DEF Family
        <3>2. CASE "reviewer" \notin settings.pins /\ reviewers = <<>>
            <4>1. \A m \in L : Family(m) \in both
                BY <1>6, <1>10, <3>2 DEF Family
            <4> QED
                BY <1>7, <1>12, <4>1 DEF Family
        <3>3. CASE ~("reviewer" \notin settings.pins /\ reviewers = <<>>)
            <4>1. both = {Family(judge), Family(reviewer)}
                BY <1>10, <3>1, <3>3 DEF Family
            <4>2. appeals = <<>>
                BY <1>7, <1>11, <1>16, <4>1 DEF Family
            <4>3. Listed(appeals) = {}
                BY <4>2 DEF Listed
            <4> QED
                BY <1>12, <4>3
        <3> QED
            BY <3>2, <3>3
    <2> QED
        BY <2>1, <2>2
<1>17. Unavoidable(p.model, p.short, settings.pins)
    BY <1>13, <1>15, <1>16 DEF Unavoidable
<1> QED
    BY <1>13, <1>14, <1>17 DEF p

(* What a selector proposes is repaired until a family that is repeated    *)
(* could not be avoided.                                                   *)
LEMMA RepairApart ==
    ASSUME SelectionTypeOK, NEW p, p.model \in [Panel -> Models],
           p.short \in [Panel -> Seq(Models)], NEW proposal
    PROVE  LET model == ValidateSelection(p, proposal) IN
           model \in [Panel -> Models] /\ Unavoidable(model, p.short, settings.pins)
<1> DEFINE asked == Proposed(p, proposal)
           judge == Family(asked["judge"])
           blocked == {judge} \ {"unknown"}
           others == Outside(p.short["reviewer"], blocked)
           reviewed == ReplaceIfSameFamily(asked, p.short, "reviewer", {judge})
           reviewer == Family(reviewed["reviewer"])
           barred == {judge, reviewer} \ {"unknown"}
           rest == Outside(p.short["appeal"], barred)
           model == ReplaceIfSameFamily(reviewed, p.short, "appeal", {judge, reviewer})
<1>1. asked \in [Panel -> Models]
    <2>1. ASSUME NEW a \in Panel, proposal[a] \in Listed(p.short[a]) PROVE proposal[a] \in Models
        <3>1. p.short[a] \in Seq(Models)
            OBVIOUS
        <3> QED
            BY <2>1, <3>1, ElementsOf DEF Listed
    <2> QED
        BY <2>1 DEF Proposed
<1>2. /\ others \in Seq(Models)
      /\ \A m \in Listed(others) : Family(m) \notin blocked
      /\ others = <<>> => \A m \in Listed(p.short["reviewer"]) : Family(m) \in blocked
      /\ others # <<>> => others[1] \in Listed(others) /\ others[1] \in Models
    <2>1. p.short["reviewer"] \in Seq(Models)
        BY DEF Panel
    <2> HIDE DEF blocked
    <2>2. /\ others \in Seq(Models) /\ \A m \in Listed(others) : VendorOf[m] \notin blocked
          /\ others = <<>> => \A m \in Listed(p.short["reviewer"]) : VendorOf[m] \in blocked
          /\ others # <<>> => others[1] \in Listed(others)
        BY <2>1, OutsideFacts
    <2>3. others # <<>> => others[1] \in Models
        BY <2>2, ElementsOf DEF Listed
    <2> QED
        BY <2>2, <2>3 DEF Family
<1>3. reviewed = IF "reviewer" \in settings.pins \/ Family(asked["reviewer"]) \notin blocked
                    \/ others = <<>>
                 THEN asked ELSE [asked EXCEPT !["reviewer"] = others[1]]
    BY DEF ReplaceIfSameFamily, Family
<1> HIDE DEF asked, others, reviewed
<1>4. /\ reviewed \in [Panel -> Models] /\ reviewed["judge"] = asked["judge"]
      /\ reviewed["appeal"] = asked["appeal"]
    BY <1>1, <1>2, <1>3 DEF Panel
<1>5. ASSUME "reviewer" \notin settings.pins, reviewer = judge, judge # "unknown"
      PROVE  \A m \in Listed(p.short["reviewer"]) : Family(m) = judge
    <2>1. blocked = {judge}
        BY <1>5
    <2>2. CASE others = <<>>
        BY <1>2, <2>1, <2>2
    <2>3. CASE others # <<>>
        <3>1. Family(asked["reviewer"]) = judge => reviewed["reviewer"] = others[1]
            BY <1>1, <1>3, <1>5, <2>1, <2>3 DEF Panel
        <3>2. Family(asked["reviewer"]) # judge => reviewed["reviewer"] = asked["reviewer"]
            BY <1>3, <2>1
        <3> QED
            BY <1>2, <1>5, <2>1, <2>3, <3>1, <3>2
    <2> QED
        BY <2>2, <2>3
<1>6. /\ rest \in Seq(Models)
      /\ \A m \in Listed(rest) : Family(m) \notin barred
      /\ rest = <<>> => \A m \in Listed(p.short["appeal"]) : Family(m) \in barred
      /\ rest # <<>> => rest[1] \in Listed(rest) /\ rest[1] \in Models
    <2>1. p.short["appeal"] \in Seq(Models)
        BY DEF Panel
    <2> HIDE DEF barred
    <2>2. /\ rest \in Seq(Models) /\ \A m \in Listed(rest) : VendorOf[m] \notin barred
          /\ rest = <<>> => \A m \in Listed(p.short["appeal"]) : VendorOf[m] \in barred
          /\ rest # <<>> => rest[1] \in Listed(rest)
        BY <2>1, OutsideFacts
    <2>3. rest # <<>> => rest[1] \in Models
        BY <2>2, ElementsOf DEF Listed
    <2> QED
        BY <2>2, <2>3 DEF Family
<1>7. model = IF "appeal" \in settings.pins \/ Family(reviewed["appeal"]) \notin barred
                 \/ rest = <<>>
              THEN reviewed ELSE [reviewed EXCEPT !["appeal"] = rest[1]]
    BY DEF ReplaceIfSameFamily, Family
<1> HIDE DEF rest, model
<1>8. /\ model \in [Panel -> Models] /\ Family(model["judge"]) = judge
      /\ Family(model["reviewer"]) = reviewer
    BY <1>4, <1>6, <1>7 DEF Panel
<1>9. ASSUME "appeal" \notin settings.pins, Family(model["appeal"]) # "unknown",
             Family(model["appeal"]) \in {judge, reviewer}
      PROVE  \A m \in Listed(p.short["appeal"]) : Family(m) \in {judge, reviewer}
    <2>1. Family(model["appeal"]) \in barred
        BY <1>9
    <2>2. CASE rest = <<>>
        BY <1>6, <2>2
    <2>3. CASE rest # <<>>
        <3>1. Family(reviewed["appeal"]) \in barred => model["appeal"] = rest[1]
            BY <1>4, <1>7, <1>9, <2>3 DEF Panel
        <3>2. Family(reviewed["appeal"]) \notin barred => model = reviewed
            BY <1>7
        <3> QED
            BY <1>6, <2>1, <2>3, <3>1, <3>2
    <2> QED
        BY <2>2, <2>3
<1>10. Unavoidable(model, p.short, settings.pins)
    <2> HIDE DEF judge, reviewer
    <2> QED
        BY <1>5, <1>8, <1>9 DEF Unavoidable
<1>11. model = ValidateSelection(p, proposal)
    BY <1>4 DEF ValidateSelection, model, reviewed, asked, Family
<1> QED
    BY <1>8, <1>10, <1>11

-----------------------------------------------------------------------------
(***************************************************************************)
(* ModelSelection.  FamiliesApart is not inductive as it stands: that the  *)
(* judge and the reviewer that answered are of different families is       *)
(* recovered from the manifest, which must say which pair answered, and    *)
(* the last claim from AlternateJudge having been asked of the manifest.   *)
(***************************************************************************)
(* What the ranking alone promises, and where a family repeats.            *)
Lined(q) ==
    /\ ~q.answered /\ q.pins = {}
         /\ (\A a \in Panel : Cardinality({Family(m) : m \in Listed(ranking[a])}) >= 3) =>
           \A a, b \in Panel : a # b => Family(q.model[a]) # Family(q.model[b])
    /\ Unavoidable(q.model, q.short, q.pins)

Obeyed ==
    /\ policy.sealed =>
         /\ policy.independent =
              FamiliesAreIndependent(policy.model["judge"], policy.model["reviewer"])
         /\ Lined(policy)
    /\ \A a \in Panel : Judged(a) => policy.sealed /\ ran[a].seat = SeatOf(policy, a)
    /\ Judged("appeal") => AlternateJudge(policy)

SelectionIInv == SelectionTypeOK /\ ranking \in Rankings /\ Obeyed

(* Independence is mutual.                                                 *)
LEMMA MutualIndependence ==
    ASSUME NEW m, NEW n
    PROVE  FamiliesAreIndependent(m, n) = FamiliesAreIndependent(n, m)
<1>1. {VendorOf[m], VendorOf[n]} = {VendorOf[n], VendorOf[m]}
    OBVIOUS
<1>2. CASE "unknown" \in {VendorOf[m], VendorOf[n]}
    BY <1>1, <1>2 DEF FamiliesAreIndependent
<1>3. CASE "unknown" \notin {VendorOf[m], VendorOf[n]}
    BY <1>1, <1>3 DEF FamiliesAreIndependent
<1> QED
    BY <1>2, <1>3

(* ... and so is being another judge.                                      *)
LEMMA MutuallyAnother ==
    ASSUME NEW seat, NEW other, Another(seat, other)
    PROVE  Another(other, seat)
<1>1. FamiliesAreIndependent(seat.model, other.model)
        = FamiliesAreIndependent(other.model, seat.model)
    BY MutualIndependence
<1> QED
    BY <1>1 DEF Another

(* The lock seals a policy that keeps the families apart.                  *)
LEMMA LockKeeps ==
    ASSUME SelectionIInv, NEW answered \in BOOLEAN,
           NEW proposal \in [Panel -> Models \cup {NoModel}], LockPolicy(answered, proposal)
    PROVE  SelectionIInv'
<1> DEFINE pick == PickFromRank
           model == SelectModels(pick, answered, proposal)
<1>1. /\ pick.model \in [Panel -> Models] /\ pick.short \in [Panel -> Seq(Models)]
      /\ pick.provider \in [Panel -> Providers]
      /\ settings.pins = {}
           /\ (\A a \in Panel : Cardinality({Family(m) : m \in Listed(ranking[a])}) >= 3) =>
             \A a, b \in Panel : a # b => Family(pick.model[a]) # Family(pick.model[b])
      /\ Unavoidable(pick.model, pick.short, settings.pins)
    BY RankingApart DEF SelectionIInv
<1>2. policy' = [sealed |-> TRUE, model |-> model, provider |-> pick.provider,
                 short |-> pick.short, pins |-> settings.pins, answered |-> answered,
                 independent |-> FamiliesAreIndependent(model["judge"], model["reviewer"])]
    BY DEF LockPolicy
<1>3. UNCHANGED <<ranking, settings, ran>> /\ ~policy.sealed
    BY DEF LockPolicy
<1> HIDE DEF pick
<1>4. model \in [Panel -> Models] /\ Unavoidable(model, pick.short, settings.pins)
    <2>1. CASE answered
        <3>1. model = ValidateSelection(pick, proposal)
            BY <2>1 DEF SelectModels
        <3> QED
            BY <1>1, <3>1, RepairApart DEF SelectionIInv
    <2>2. CASE ~answered
        BY <1>1, <2>2 DEF SelectModels
    <2> QED
        BY <2>1, <2>2
<1>5. ~answered => model = pick.model
    BY DEF SelectModels
<1>6. FamiliesAreIndependent(model["judge"], model["reviewer"]) \in BOOLEAN
    BY DEF FamiliesAreIndependent
<1> HIDE DEF model
<1>7. SelectionTypeOK'
    BY <1>1, <1>2, <1>3, <1>4, <1>6 DEF SelectionIInv, SelectionTypeOK
<1>8. \A a \in Panel : ~Judged(a)
    BY <1>3 DEF SelectionIInv, Obeyed
<1>9. \A a \in Panel : ~Judged(a)'
    BY <1>3, <1>8 DEF Judged
<1>10. Lined(policy)'
    <2>1. /\ policy'.model = model /\ policy'.short = pick.short /\ policy'.pins = settings.pins
          /\ policy'.answered = answered /\ ranking' = ranking
        BY <1>2, <1>3
    <2>2. Unavoidable(policy.model, policy.short, policy.pins)'
        BY <1>4, <2>1 DEF Unavoidable, Family
    <2>3. ASSUME ~policy'.answered, policy'.pins = {},
                 \A a \in Panel : Cardinality({Family(m) : m \in Listed(ranking[a])}) >= 3
          PROVE  \A a, b \in Panel : a # b => Family(policy'.model[a]) # Family(policy'.model[b])
        BY <1>1, <1>5, <2>1, <2>3
    <2> QED
        BY <2>1, <2>2, <2>3 DEF Lined, Family
<1>11. "appeal" \in Panel
    BY DEF Panel
<1> QED
    BY <1>2, <1>3, <1>7, <1>9, <1>10, <1>11 DEF SelectionIInv, Obeyed

(* A stage answers with the pair of the manifest, or as a fallback.        *)
LEMMA AnswerKeeps ==
    ASSUME SelectionIInv, NEW a \in Panel, NEW fails \in BOOLEAN, Answers(a, fails),
           a = "appeal" => AlternateJudge(policy)
    PROVE  SelectionIInv'
<1> DEFINE new == IF fails THEN [seat |-> settings.fallback, fellBack |-> TRUE]
                  ELSE [seat |-> SeatOf(policy, a), fellBack |-> FALSE]
<1>1. policy.sealed /\ ran' = [ran EXCEPT ![a] = new] /\ UNCHANGED <<ranking, settings, policy>>
    BY DEF Answers
<1>2. SelectionTypeOK /\ Obeyed /\ ranking \in Rankings
    BY DEF SelectionIInv
<1>3. new \in [seat : Seat \cup {NoSeat}, fellBack : BOOLEAN]
    <2>1. settings.fallback \in Seat \cup {NoSeat}
        BY <1>2 DEF SelectionTypeOK, Configurations
    <2>2. SeatOf(policy, a) \in Seat
        BY <1>1, <1>2 DEF SelectionTypeOK, SeatOf, Seat
    <2> QED
        BY <2>1, <2>2
<1>4. SelectionTypeOK'
    <2> HIDE DEF new
    <2> QED
        BY <1>1, <1>2, <1>3 DEF SelectionTypeOK
<1>5. ran'[a] = new /\ \A b \in Panel \ {a} : ran'[b] = ran[b]
    <2> HIDE DEF new
    <2> QED
        BY <1>1, <1>2 DEF SelectionTypeOK
<1>6. ASSUME NEW b \in Panel, Judged(b)' PROVE policy.sealed /\ ran'[b].seat = SeatOf(policy, b)
    <2>1. CASE b = a
        BY <1>1, <1>5, <1>6, <2>1 DEF Judged
    <2>2. CASE b # a
        <3>1. Judged(b)
            BY <1>5, <1>6, <2>2 DEF Judged
        <3> QED
            BY <1>2, <1>5, <2>2, <3>1 DEF Obeyed
    <2> QED
        BY <2>1, <2>2
<1>7. Judged("appeal")' => AlternateJudge(policy)
    <2>1. CASE a = "appeal"
        BY <2>1
    <2>2. CASE a # "appeal"
        BY <1>2, <1>5, <2>2 DEF Judged, Obeyed, Panel
    <2> QED
        BY <2>1, <2>2
<1>8. policy' = policy /\ ranking' = ranking
    BY <1>1
<1>9. /\ AlternateJudge(policy)' = AlternateJudge(policy) /\ Lined(policy)' = Lined(policy)
      /\ \A b : SeatOf(policy, b)' = SeatOf(policy, b)
    BY <1>8 DEF AlternateJudge, Lined, SeatOf
<1>10. Obeyed'
    BY <1>1, <1>2, <1>6, <1>7, <1>8, <1>9 DEF Obeyed
<1> QED
    BY <1>2, <1>4, <1>8, <1>10 DEF SelectionIInv

(* Whatever the catalog, the settings and providers before and after the   *)
(* lock, and what a selector proposes: the families of judge, reviewer and *)
(* reconstruction are apart as far as FamiliesApart says, which of models  *)
(* asked of another provider than OpenRouter is only that the pair of the  *)
(* reconstruction is not the judge's.                                      *)
THEOREM FamiliesStayApart == SelectionSpec => []FamiliesApart
<1>1. SelectionInit => SelectionIInv
    <2> SUFFICES ASSUME SelectionInit PROVE SelectionIInv
        OBVIOUS
    <2>1. policy = NoPolicy /\ ~policy.sealed
        BY DEF SelectionInit, NoPolicy
    <2>2. SelectionTypeOK /\ ranking \in Rankings
        <3>1. NotRun \in [seat : Seat \cup {NoSeat}, fellBack : BOOLEAN]
            BY DEF NotRun
        <3>2. ran \in [Panel -> [seat : Seat \cup {NoSeat}, fellBack : BOOLEAN]]
            BY <3>1 DEF SelectionInit
        <3>3. settings \in Configurations /\ ranking \in Rankings
            BY SelectionAssumption DEF SelectionInit
        <3> QED
            BY <2>1, <3>2, <3>3 DEF SelectionTypeOK
    <2>3. \A a \in Panel : ~Judged(a)
        BY DEF SelectionInit, Judged
    <2>4. Obeyed
        BY <2>1, <2>3 DEF Obeyed, Panel
    <2> QED
        BY <2>2, <2>4 DEF SelectionIInv
<1>2. SelectionIInv /\ [SelectionNext]_selectionVars => SelectionIInv'
    <2> SUFFICES ASSUME SelectionIInv, [SelectionNext]_selectionVars PROVE SelectionIInv'
        OBVIOUS
    <2>1. ASSUME NEW answered \in BOOLEAN, NEW proposal \in [Panel -> Models \cup {NoModel}],
                 LockPolicy(answered, proposal)
          PROVE  SelectionIInv'
        BY <2>1, LockKeeps
    <2>2. ASSUME NEW s \in SettingsTried, Reconfigure(s) PROVE SelectionIInv'
        <3>1. s \in Configurations /\ settings' = s /\ UNCHANGED <<ranking, policy, ran>>
            BY <2>2, SelectionAssumption DEF Reconfigure
        <3>2. SelectionTypeOK'
            BY <3>1 DEF SelectionIInv, SelectionTypeOK
        <3>3. Obeyed'
            BY <3>1 DEF SelectionIInv, Obeyed, Judged, Lined, AlternateJudge, SeatOf
        <3> QED
            BY <3>1, <3>2, <3>3 DEF SelectionIInv
    <2>3. ASSUME NEW fails \in BOOLEAN, RunJudge(fails) PROVE SelectionIInv'
        BY <2>3, AnswerKeeps DEF RunJudge, Panel
    <2>4. ASSUME NEW fails \in BOOLEAN, RunReviewer(fails) PROVE SelectionIInv'
        BY <2>4, AnswerKeeps DEF RunReviewer, Panel
    <2>5. ASSUME NEW fails \in BOOLEAN, Rebuild(fails) PROVE SelectionIInv'
        BY <2>5, AnswerKeeps DEF Rebuild, Panel
    <2>6. CASE UNCHANGED selectionVars
        <3>1. UNCHANGED <<ranking, settings, policy, ran>>
            BY <2>6 DEF selectionVars
        <3> QED
            BY <3>1 DEF SelectionIInv, SelectionTypeOK, Obeyed, Judged, Lined, AlternateJudge, SeatOf
    <2> QED
        BY <2>1, <2>2, <2>3, <2>4, <2>5, <2>6 DEF SelectionNext
<1>3. SelectionIInv => FamiliesApart
    <2> SUFFICES ASSUME SelectionIInv PROVE FamiliesApart
        OBVIOUS
    <2>1. SelectionTypeOK /\ Obeyed
        BY DEF SelectionIInv
    <2>2. ASSUME policy.sealed
          PROVE  /\ ~policy.answered /\ policy.pins = {}
                      /\ (\A a \in Panel :
                             Cardinality({Family(m) : m \in Listed(ranking[a])}) >= 3) =>
                        \A a, b \in Panel : a # b => Seated(a) # Seated(b)
                 /\ Unavoidable(policy.model, policy.short, policy.pins)
        BY <2>1, <2>2 DEF Obeyed, Lined, Seated
    <2>3. Judged("judge") /\ Judged("reviewer") /\ policy.independent =>
            FamiliesAreIndependent(ran["judge"].seat.model, ran["reviewer"].seat.model)
        <3>1. ASSUME Judged("judge"), Judged("reviewer"), policy.independent
              PROVE  FamiliesAreIndependent(ran["judge"].seat.model, ran["reviewer"].seat.model)
            <4>1. /\ ran["judge"].seat.model = policy.model["judge"]
                  /\ ran["reviewer"].seat.model = policy.model["reviewer"]
                BY <2>1, <3>1 DEF Obeyed, Panel, SeatOf
            <4>2. FamiliesAreIndependent(policy.model["judge"], policy.model["reviewer"])
                BY <2>1, <3>1 DEF Obeyed, Panel
            <4> QED
                BY <4>1, <4>2
        <3> QED
            BY <3>1
    <2>4. Judged("judge") /\ Judged("appeal") =>
            Another(ran["judge"].seat, ran["appeal"].seat)
        <3>1. ASSUME Judged("judge"), Judged("appeal")
              PROVE  Another(ran["judge"].seat, ran["appeal"].seat)
            <4>1. /\ ran["judge"].seat = SeatOf(policy, "judge")
                  /\ ran["appeal"].seat = SeatOf(policy, "appeal")
                BY <2>1, <3>1 DEF Obeyed, Panel
            <4>2. Another(SeatOf(policy, "appeal"), SeatOf(policy, "judge"))
                BY <2>1, <3>1 DEF Obeyed, AlternateJudge
            <4> QED
                BY <4>1, <4>2, MutuallyAnother
        <3> QED
            BY <3>1
    <2> QED
        BY <2>1, <2>2, <2>3, <2>4 DEF FamiliesApart, Unavoidable, Seated
<1> QED
    BY <1>1, <1>2, <1>3, PTL DEF SelectionSpec

-----------------------------------------------------------------------------
(***************************************************************************)
(* Calculation: the arithmetic.  X is RateBase + r for a rate of r, B is   *)
(* RateBase, and the denominator of the price is B times X^n - B^n, which  *)
(* grows by r X^n + B (X^n - B^n) from n to n + 1.  What has to hold for   *)
(* every n is proved of the least n for which it fails.                    *)
(***************************************************************************)
(* A power is what it should be.                                           *)
LEMMA PowerIs ==
    ASSUME NEW base \in Nat
    PROVE  /\ Power(base, 0) = 1
           /\ \A n \in Nat : /\ Power(base, n) \in Nat
                             /\ Power(base, n + 1) = base * Power(base, n)
<1> DEFINE g == [t \in Nat \X Nat |-> base * t[2]]
           p == CHOOSE p : p = [i \in Nat |-> IF i = 0 THEN 1 ELSE base * p[i - 1]]
<1>1. g \in [Nat \X Nat -> Nat]
    OBVIOUS
<1>2. PICK f \in [Nat -> Nat] : f = [n \in Nat |-> IF n = 0 THEN 1 ELSE g[<<n, f[n - 1]>>]]
    <2> DEFINE c == 1
    <2>1. c \in Nat
        OBVIOUS
    <2> HIDE DEF g, c
    <2>2. \E f : Recursion(f, Nat, c, g)
        BY <1>1, <2>1, RecursiveFunction
    <2> QED
        BY <2>2 DEF Recursion, c
<1>3. f = [n \in Nat |-> IF n = 0 THEN 1 ELSE base * f[n - 1]]
    <2>1. \A n \in Nat : n # 0 => g[<<n, f[n - 1]>>] = base * f[n - 1]
        <3>1. ASSUME NEW n \in Nat, n # 0 PROVE g[<<n, f[n - 1]>>] = base * f[n - 1]
            <4>1. f[n - 1] \in Nat
                BY <1>2, <3>1
            <4> QED
                BY <4>1
        <3> QED
            BY <3>1
    <2> HIDE DEF g
    <2> QED
        BY <1>2, <2>1
<1>4. p = [i \in Nat |-> IF i = 0 THEN 1 ELSE base * p[i - 1]]
    BY <1>3
<1>5. \A n \in Nat : Power(base, n) = p[n]
    BY DEF Power
<1> HIDE DEF p
<1>6. p[0] = 1 /\ \A n \in Nat : p[n + 1] = base * p[n]
    BY <1>4
<1>7. \A n \in Nat : p[n] \in Nat
    <2> DEFINE T == {n \in Nat : p[n] \notin Nat}
    <2>1. SUFFICES ASSUME T # {} PROVE FALSE
        OBVIOUS
    <2>2. PICK n \in T : \A m \in T : n <= m
        BY <2>1, LeastNat
    <2>3. CASE n = 0
        BY <1>6, <2>2, <2>3
    <2>4. CASE n # 0
        <3>1. n - 1 \in Nat /\ n - 1 \notin T /\ (n - 1) + 1 = n
            BY <2>2, <2>4
        <3>2. p[n - 1] \in Nat /\ p[n] = base * p[n - 1]
            BY <1>6, <3>1
        <3> QED
            BY <2>2, <3>2
    <2> QED
        BY <2>3, <2>4
<1> QED
    BY <1>5, <1>6, <1>7

(* Products keep an order.                                                 *)
LEMMA Products ==
    /\ \A a, b, k \in Nat : a <= b => a * k <= b * k
    /\ \A a, b \in Nat : a * b \in Nat
    /\ \A a, b \in Int, k \in Nat \ {0} : a * k <= b * k => a <= b
    /\ \A a, b \in Nat \ {0} : a * b > 0
OBVIOUS

(* How the denominator grows with the number of installments.              *)
LEMMA Growth ==
    ASSUME NEW B \in Nat \ {0}, NEW r \in Nat \ {0}
    PROVE  LET gap(n) == Power(B + r, n) - Power(B, n) IN
           /\ gap(0) = 0
           /\ \A n \in Nat : /\ gap(n) \in Int
                             /\ gap(n + 1) = r * Power(B + r, n) + B * gap(n)
<1> DEFINE gap(n) == Power(B + r, n) - Power(B, n)
<1>1. B + r \in Nat /\ B \in Nat
    OBVIOUS
<1>2. gap(0) = 0
    BY <1>1, PowerIs
<1>3. ASSUME NEW n \in Nat
      PROVE  gap(n) \in Int /\ gap(n + 1) = r * Power(B + r, n) + B * gap(n)
    <2> DEFINE x == Power(B + r, n)
               b == Power(B, n)
    <2>1. x \in Nat /\ b \in Nat /\ Power(B + r, n + 1) = (B + r) * x /\ Power(B, n + 1) = B * b
        BY <1>1, PowerIs
    <2>2. gap(n) = x - b /\ gap(n + 1) = (B + r) * x - B * b
        BY <2>1
    <2> HIDE DEF x, b, gap
    <2>3. (B + r) * x - B * b = r * x + B * (x - b)
        BY <2>1
    <2> QED
        BY <2>1, <2>2, <2>3 DEF x
<1> QED
    BY <1>2, <1>3

(* The denominator is positive, and the installments of a rate pay the     *)
(* principal back: n r X^n >= B (X^n - B^n).                               *)
LEMMA PaysBack ==
    ASSUME NEW B \in Nat \ {0}, NEW r \in Nat \ {0}, NEW n \in Nat
    PROVE  LET gap == Power(B + r, n) - Power(B, n) IN
           /\ gap \in Nat /\ (n > 0 => gap > 0)
           /\ B * gap <= n * (r * Power(B + r, n))
<1> DEFINE x(k) == Power(B + r, k)
           gap(k) == Power(B + r, k) - Power(B, k)
           Held(k) == gap(k) >= 0 /\ (k > 0 => gap(k) > 0) /\ B * gap(k) <= k * (r * x(k))
           T == {k \in Nat : ~Held(k)}
<1>1. /\ B + r \in Nat /\ x(0) = 1 /\ gap(0) = 0
      /\ \A k \in Nat : /\ x(k) \in Nat /\ x(k + 1) = (B + r) * x(k)
                        /\ gap(k) \in Int /\ gap(k + 1) = r * x(k) + B * gap(k)
    <2>1. B + r \in Nat
        OBVIOUS
    <2> QED
        BY <2>1, PowerIs, Growth, ZenonT(40)
<1>2. \A k \in Nat : x(k) > 0
    <2> DEFINE U == {k \in Nat : ~ (x(k) > 0)}
    <2> HIDE DEF x, gap
    <2>1. SUFFICES ASSUME U # {} PROVE FALSE
        OBVIOUS
    <2>2. PICK k \in U : \A m \in U : k <= m
        BY <2>1, LeastNat
    <2>3. k # 0
        BY <1>1, <2>2
    <2>4. k - 1 \in Nat /\ k - 1 \notin U /\ (k - 1) + 1 = k
        BY <2>2, <2>3
    <2>5. x(k - 1) > 0 /\ x(k - 1) \in Nat /\ x(k) = (B + r) * x(k - 1)
        BY <1>1, <2>4
    <2>6. x(k) > 0
        BY <2>5, Products
    <2> QED
        BY <2>2, <2>6
<1> HIDE DEF x, gap
<1>3. T = {}
    <2>1. SUFFICES ASSUME T # {} PROVE FALSE
        OBVIOUS
    <2>2. PICK k \in T : \A m \in T : k <= m
        BY <2>1, LeastNat
    <2>3. k # 0
        <3>1. ASSUME k = 0 PROVE gap(k) = 0 /\ B * gap(k) = 0 /\ k * (r * x(k)) = 0
            BY <1>1, <3>1
        <3> QED
            BY <2>2, <3>1
    <2> DEFINE j == k - 1
    <2>4. j \in Nat /\ j \notin T /\ j + 1 = k
        BY <2>2, <2>3
    <2> DEFINE y == x(j)
               d == gap(j)
    <2>5. /\ y \in Nat /\ y > 0 /\ d \in Nat /\ B * d <= j * (r * y)
          /\ x(k) = (B + r) * y /\ gap(k) = r * y + B * d
        BY <1>1, <1>2, <2>4
    <2> HIDE DEF y, d, j
    <2>6. r * y \in Nat /\ r * y > 0 /\ B * d \in Nat
        BY <2>5, Products
    <2>7. gap(k) > 0
        BY <2>5, <2>6
    <2> DEFINE z == r * y
    <2>8. B * gap(k) = B * z + B * (B * d)
        BY <2>5, <2>6
    <2>9. B * (B * d) <= B * (j * z)
        BY <2>4, <2>5, <2>6, Products
    <2>10. k * (r * x(k)) = (j + 1) * ((B + r) * z)
        <3>1. r * ((B + r) * y) = (B + r) * (r * y)
            BY <2>5
        <3> QED
            BY <2>4, <2>5, <3>1
    <2> HIDE DEF z
    <2>11. z \in Nat
        BY <2>6 DEF z
    <2>12. (j + 1) * ((B + r) * z) = B * z + B * (j * z) + (j * (r * z) + r * z)
        BY <2>4, <2>11
    <2>13. j * (r * z) \in Nat /\ r * z \in Nat
        BY <2>4, <2>11, Products
    <2>14. B * gap(k) <= k * (r * x(k))
        <3>1. B * z \in Nat /\ B * (B * d) \in Nat /\ B * (j * z) \in Nat
            BY <2>4, <2>5, <2>11, Products
        <3> QED
            BY <2>8, <2>9, <2>10, <2>12, <2>13, <3>1
    <2>15. Held(k)
        <3>1. gap(k) >= 0
            <4>1. gap(k) \in Int
                BY <1>1, <2>2
            <4> QED
                BY <2>7, <4>1
        <3> QED
            BY <2>7, <2>14, <3>1
    <2> QED
        BY <2>2, <2>15
<1>4. Held(n) /\ gap(n) \in Int
    BY <1>1, <1>3
<1>5. gap(n) \in Nat
    BY <1>4
<1> QED
    BY <1>4, <1>5 DEF x, gap

(* A higher rate has a greater share: with X = B + r and Y = B + s, r >= s *)
(* gives s Y^n (X^n - B^n) <= r X^n (Y^n - B^n).                           *)
LEMMA HigherRate ==
    ASSUME NEW B \in Nat \ {0}, NEW r \in Nat \ {0}, NEW s \in Nat \ {0}, s <= r, NEW n \in Nat
    PROVE  s * Power(B + s, n) * (Power(B + r, n) - Power(B, n))
             <= r * Power(B + r, n) * (Power(B + s, n) - Power(B, n))
<1> DEFINE x(k) == Power(B + r, k)
           y(k) == Power(B + s, k)
           gx(k) == Power(B + r, k) - Power(B, k)
           gy(k) == Power(B + s, k) - Power(B, k)
           Held(k) == s * y(k) * gx(k) <= r * x(k) * gy(k)
           T == {k \in Nat : ~Held(k)}
<1>1. /\ gx(0) = 0 /\ gy(0) = 0
      /\ \A k \in Nat : /\ x(k) \in Nat /\ x(k + 1) = (B + r) * x(k)
                        /\ y(k) \in Nat /\ y(k + 1) = (B + s) * y(k)
                        /\ gx(k) \in Nat /\ gx(k + 1) = r * x(k) + B * gx(k)
                        /\ gy(k) \in Nat /\ gy(k + 1) = s * y(k) + B * gy(k)
    <2>1. B + r \in Nat /\ B + s \in Nat
        OBVIOUS
    <2>2. \A k \in Nat : gx(k) \in Nat /\ gy(k) \in Nat
        BY PaysBack
    <2> QED
        BY <2>1, <2>2, PowerIs, Growth
<1> HIDE DEF x, y, gx, gy
<1>2. T = {}
    <2>1. SUFFICES ASSUME T # {} PROVE FALSE
        OBVIOUS
    <2>2. PICK k \in T : \A m \in T : k <= m
        BY <2>1, LeastNat
    <2>3. k # 0
        <3>1. ASSUME k = 0 PROVE s * y(k) * gx(k) = 0 /\ r * x(k) * gy(k) = 0
            BY <1>1, <3>1
        <3> QED
            BY <2>2, <3>1
    <2> DEFINE j == k - 1
    <2>4. j \in Nat /\ j \notin T /\ j + 1 = k
        BY <2>2, <2>3
    <2> DEFINE a == x(j)
               b == y(j)
               d == gx(j)
               e == gy(j)
               low == s * b * d
               high == r * a * e
    <2>5. /\ a \in Nat /\ b \in Nat /\ d \in Nat /\ e \in Nat
          /\ x(k) = (B + r) * a /\ y(k) = (B + s) * b
          /\ gx(k) = r * a + B * d /\ gy(k) = s * b + B * e
          /\ low <= high
        BY <1>1, <2>4
    <2> HIDE DEF a, b, d, e, j
    <2> DEFINE both == (r * s) * (a * b)
    <2>6. low \in Nat /\ high \in Nat /\ both \in Nat
        BY <2>5, Products
    <2>7. s * y(k) * gx(k) = (B + s) * both + (B * (B + s)) * low
        <3>1. s * ((B + s) * b) * (r * a + B * d) = (B + s) * ((r * s) * (a * b))
                                                    + (B * (B + s)) * (s * b * d)
            BY <2>5
        <3> QED
            BY <2>5, <3>1
    <2>8. r * x(k) * gy(k) = (B + r) * both + (B * (B + r)) * high
        <3>1. r * ((B + r) * a) * (s * b + B * e) = (B + r) * ((r * s) * (a * b))
                                                    + (B * (B + r)) * (r * a * e)
            BY <2>5
        <3> QED
            BY <2>5, <3>1
    <2> HIDE DEF low, high, both
    <2>9. (B + s) * both <= (B + r) * both
        BY <2>6, Products
    <2>10. (B * (B + s)) * low <= (B * (B + r)) * high
        <3>1. B * (B + s) \in Nat /\ B * (B + r) \in Nat
            BY Products
        <3>2. (B + s) * B <= (B + r) * B
            BY Products
        <3>3. B * (B + s) <= B * (B + r)
            BY <3>2
        <3>4. (B * (B + s)) * low <= (B * (B + r)) * low
            BY <2>6, <3>1, <3>3, Products
        <3>5. low * (B * (B + r)) <= high * (B * (B + r))
            BY <2>5, <2>6, <3>1, Products
        <3> DEFINE w == B * (B + r)
                   v == B * (B + s)
        <3> HIDE DEF w, v
        <3>6. v \in Nat /\ w \in Nat /\ v * low <= w * low /\ low * w <= high * w
            BY <3>1, <3>4, <3>5 DEF v, w
        <3>7. v * low <= w * high
            <4>1. w * low = low * w /\ w * high = high * w
                BY <2>6, <3>6
            <4>2. v * low \in Int /\ low * w \in Int /\ high * w \in Int
                BY <2>6, <3>6
            <4> QED
                BY <3>6, <4>1, <4>2
        <3> QED
            BY <3>7 DEF v, w
    <2>11. /\ (B + s) * both \in Int /\ (B + r) * both \in Int
           /\ (B * (B + s)) * low \in Int /\ (B * (B + r)) * high \in Int
        BY <2>6
    <2>12. Held(k)
        BY <2>7, <2>8, <2>9, <2>10, <2>11
    <2> QED
        BY <2>2, <2>12
<1> QED
    BY <1>2 DEF x, y, gx, gy

(* Rounding half up is within half a unit below and never passes what it   *)
(* rounds by more than half of one.                                        *)
LEMMA Rounded ==
    ASSUME NEW c \in Nat, NEW d \in Nat \ {0}
    PROVE  LET q == RoundHalfUp(c, d) IN
           /\ q \in Nat
           /\ 2 * (q * d) <= 2 * c + d /\ 2 * c + d < 2 * (q * d) + 2 * d
<1> DEFINE n == 2 * c + d
           m == 2 * d
           q == n \div m
<1>1. n \in Nat /\ m \in Nat /\ m > 0
    OBVIOUS
<1> HIDE DEF n, m
<1>2. q \in Nat /\ m * q <= n /\ n < m * q + m
    BY <1>1
<1> HIDE DEF q
<1>3. RoundHalfUp(c, d) = q
    BY DEF RoundHalfUp, q, n, m
<1>4. m * q = 2 * (q * d)
    BY <1>2 DEF m
<1> QED
    BY <1>2, <1>3, <1>4 DEF m, n

(* A greater share rounds to no less.                                      *)
LEMMA RoundedApart ==
    ASSUME NEW c \in Nat, NEW d \in Nat \ {0}, NEW e \in Nat, NEW f \in Nat \ {0},
           c * f <= e * d
    PROVE  RoundHalfUp(c, d) <= RoundHalfUp(e, f)
<1> DEFINE q == RoundHalfUp(c, d)
           p == RoundHalfUp(e, f)
<1>1. /\ q \in Nat /\ 2 * (q * d) <= 2 * c + d
      /\ p \in Nat /\ 2 * e + f < 2 * (p * f) + 2 * f
    BY Rounded
<1> HIDE DEF q, p
<1>2. SUFFICES ASSUME q >= p + 1 PROVE FALSE
    BY <1>1 DEF q, p
<1> DEFINE u == d * f
<1>3. u \in Nat /\ u > 0
    BY Products
<1>4. (2 * (q * d)) * f <= (2 * c + d) * f
    BY <1>1, Products
<1>5. (2 * e + f) * d < (2 * (p * f) + 2 * f) * d
    <2>1. ASSUME NEW g \in Nat, NEW h \in Nat, g < h PROVE g * d < h * d
        BY <2>1
    <2>2. 2 * e + f \in Nat /\ 2 * (p * f) + 2 * f \in Nat
        BY <1>1, Products
    <2> QED
        BY <1>1, <2>1, <2>2
<1>6. 2 * (q * u) <= 2 * (c * f) + u
    <2>1. (2 * (q * d)) * f = 2 * (q * (d * f)) /\ (2 * c + d) * f = 2 * (c * f) + d * f
        BY <1>1
    <2> QED
        BY <1>4, <2>1
<1>7. 2 * (e * d) + u < 2 * (p * u) + 2 * u
    <2>1. /\ (2 * e + f) * d = 2 * (e * d) + d * f
          /\ (2 * (p * f) + 2 * f) * d = 2 * (p * (d * f)) + 2 * (d * f)
        BY <1>1
    <2> QED
        BY <1>5, <2>1
<1>8. (p + 1) * u <= q * u
    BY <1>1, <1>2, <1>3, Products
<1>9. (p + 1) * u = p * u + u
    BY <1>1, <1>3
<1>10. /\ q * u \in Int /\ p * u \in Int /\ c * f \in Int /\ e * d \in Int
    BY <1>1, <1>3
<1> HIDE DEF u
<1> QED
    BY <1>3, <1>6, <1>7, <1>8, <1>9, <1>10

(* The installments of a price pay the principal back, to half a cent each.*)
LEMMA PricePays ==
    ASSUME NEW P \in Nat \ {0}, NEW r \in Nat \ {0}, NEW n \in Nat \ {0}
    PROVE  /\ Price(P, r, n) \in Nat
           /\ 2 * Price(P, r, n) * n >= 2 * P - n
<1> DEFINE B == RateBase
           x == Power(B + r, n)
           gap == Power(B + r, n) - Power(B, n)
           c == P * r * x
           d == B * gap
           q == RoundHalfUp(c, d)
<1>1. B \in Nat \ {0} /\ B + r \in Nat
    BY CalculationAssumption
<1>2. x \in Nat /\ gap \in Nat /\ gap > 0 /\ B * gap <= n * (r * x)
    BY <1>1, PowerIs, PaysBack
<1>3. Price(P, r, n) = q
    BY DEF Price
<1> HIDE DEF x, gap, B
<1>4. d \in Nat \ {0} /\ c \in Nat
    <2>1. B * gap \in Nat /\ B * gap > 0
        BY <1>1, <1>2, Products
    <2>2. P * r \in Nat
        BY Products
    <2>3. P * r * x \in Nat
        BY <1>2, <2>2, Products
    <2> QED
        BY <2>1, <2>3
<1>5. P * d <= c * n
    <2>1. d \in Nat /\ n * (r * x) \in Nat
        BY <1>2, <1>4, Products
    <2>2. d * P <= (n * (r * x)) * P
        BY <1>2, <2>1, Products
    <2>3. (n * (r * x)) * P = (P * r * x) * n
        BY <1>2
    <2>4. d * P = P * d
        BY <2>1
    <2> QED
        BY <2>2, <2>3, <2>4
<1> HIDE DEF c, d
<1>6. q \in Nat /\ 2 * c + d < 2 * (q * d) + 2 * d
    BY <1>4, Rounded
<1> HIDE DEF q
<1>7. (2 * c + d) * n < (2 * (q * d) + 2 * d) * n
    <2>1. ASSUME NEW g \in Nat, NEW h \in Nat, g < h PROVE g * n < h * n
        BY <2>1
    <2>2. 2 * c + d \in Nat /\ 2 * (q * d) + 2 * d \in Nat
        BY <1>4, <1>6, Products
    <2> QED
        BY <1>6, <2>1, <2>2
<1>8. (2 * P - n) * d <= (2 * q * n) * d
    <2>1. /\ (2 * c + d) * n = 2 * (c * n) + d * n
          /\ (2 * (q * d) + 2 * d) * n = (2 * q * n) * d + 2 * (d * n)
          /\ (2 * P - n) * d = 2 * (P * d) - d * n
        BY <1>4, <1>6
    <2>2. d * n \in Int /\ c * n \in Int /\ P * d \in Int /\ (2 * q * n) * d \in Int
        BY <1>4, <1>6
    <2> QED
        BY <1>5, <1>7, <2>1, <2>2
<1>9. 2 * P - n \in Int /\ 2 * q * n \in Int
    BY <1>6
<1>10. 2 * P - n <= 2 * q * n
    <2> DEFINE u == 2 * P - n
               v == 2 * q * n
    <2>1. u \in Int /\ v \in Int /\ u * d <= v * d
        BY <1>8, <1>9
    <2> HIDE DEF u, v
    <2>2. u <= v
        BY <1>4, <2>1, Products
    <2> QED
        BY <2>2 DEF u, v
<1> QED
    BY <1>3, <1>6, <1>9, <1>10

(* A higher rate never lowers the installment.                             *)
LEMMA PriceGrows ==
    ASSUME NEW P \in Nat \ {0}, NEW n \in Nat \ {0},
           NEW r \in Nat \ {0}, NEW s \in Nat \ {0}, s <= r
    PROVE  Price(P, s, n) <= Price(P, r, n)
<1> DEFINE B == RateBase
           x == Power(B + r, n)
           y == Power(B + s, n)
           gx == Power(B + r, n) - Power(B, n)
           gy == Power(B + s, n) - Power(B, n)
           c == P * s * y
           d == B * gy
           e == P * r * x
           f == B * gx
<1>1. B \in Nat \ {0} /\ B + r \in Nat /\ B + s \in Nat
    BY CalculationAssumption
<1>2. /\ x \in Nat /\ gx \in Nat /\ gx > 0 /\ y \in Nat /\ gy \in Nat /\ gy > 0
      /\ s * y * gx <= r * x * gy
    BY <1>1, PowerIs, PaysBack, HigherRate
<1>3. Price(P, s, n) = RoundHalfUp(c, d) /\ Price(P, r, n) = RoundHalfUp(e, f)
    BY DEF Price
<1> HIDE DEF x, y, gx, gy, B
<1>4. c \in Nat /\ e \in Nat /\ d \in Nat \ {0} /\ f \in Nat \ {0}
    <2>1. B * gx \in Nat /\ B * gx > 0 /\ B * gy \in Nat /\ B * gy > 0
        BY <1>1, <1>2, Products
    <2>2. P * r \in Nat /\ P * s \in Nat
        BY Products
    <2>3. P * r * x \in Nat /\ P * s * y \in Nat
        BY <1>2, <2>2, Products
    <2> QED
        BY <2>1, <2>3
<1>5. c * f <= e * d
    <2> DEFINE low == s * y * gx
               high == r * x * gy
               k == P * B
    <2>1. low \in Nat /\ high \in Nat /\ k \in Nat
        <3>1. s * y \in Nat /\ r * x \in Nat
            BY <1>2, Products
        <3> QED
            BY <1>1, <1>2, <3>1, Products
    <2>2. low * k <= high * k
        <3> HIDE DEF low, high, k
        <3>1. low <= high
            BY <1>2 DEF low, high
        <3> QED
            BY <2>1, <3>1, Products
    <2>3. c * f = low * k /\ e * d = high * k
        BY <1>1, <1>2
    <2> QED
        BY <2>2, <2>3
<1> HIDE DEF c, d, e, f
<1> QED
    BY <1>3, <1>4, <1>5, RoundedApart

(* What the questioned fees come to is not negative when no fee is.        *)
LEMMA FeesAddUp ==
    ASSUME NEW fees \in Seq(FeeLine), \A i \in DOMAIN fees : fees[i].amount >= 0
    PROVE  Sum(fees) \in Nat
<1> DEFINE of(i) == IF i \in DOMAIN fees /\ fees[i].questionable THEN fees[i].amount ELSE 0
           g == [t \in Nat \X Nat |-> t[2] + of(t[1])]
           L == Len(fees)
           s == CHOOSE s : s = [i \in 0..L |->
                    IF i = 0 THEN 0
                    ELSE s[i - 1] + (IF fees[i].questionable THEN fees[i].amount ELSE 0)]
<1>1. L \in Nat /\ DOMAIN fees = 1..L
    OBVIOUS
<1>2. \A i \in Nat : of(i) \in Nat
    <2>1. \A i \in DOMAIN fees : fees[i] \in FeeLine
        BY ElementsOf
    <2>2. \A i \in DOMAIN fees : fees[i].amount \in Nat
        BY <2>1 DEF FeeLine
    <2> QED
        BY <2>2
<1>3. g \in [Nat \X Nat -> Nat]
    <2>1. ASSUME NEW t \in Nat \X Nat PROVE t[2] + of(t[1]) \in Nat
        <3>1. t[1] \in Nat /\ t[2] \in Nat /\ of(t[1]) \in Nat
            BY <1>2
        <3> HIDE DEF of
        <3> QED
            BY <3>1
    <2> HIDE DEF of
    <2> QED
        BY <2>1
<1>4. PICK f \in [Nat -> Nat] : f = [n \in Nat |-> IF n = 0 THEN 0 ELSE g[<<n, f[n - 1]>>]]
    <2> DEFINE c == 0
    <2>1. c \in Nat
        OBVIOUS
    <2> HIDE DEF g, c
    <2>2. \E f : Recursion(f, Nat, c, g)
        BY <1>3, <2>1, RecursiveFunction
    <2> QED
        BY <2>2 DEF Recursion, c
<1>5. \A n \in Nat \ {0} : f[n] = f[n - 1] + of(n)
    <2>1. ASSUME NEW n \in Nat \ {0} PROVE g[<<n, f[n - 1]>>] = f[n - 1] + of(n)
        <3>1. n - 1 \in Nat
            OBVIOUS
        <3>2. f[n - 1] \in Nat
            <4> HIDE DEF g
            <4> QED
                BY <1>4, <3>1
        <3> HIDE DEF of
        <3> QED
            BY <3>2
    <2> HIDE DEF g, of
    <2> QED
        BY <1>4, <2>1
<1>6. f[0] = 0
    <2> HIDE DEF g
    <2> QED
        BY <1>4
<1> DEFINE h == [i \in 0..L |-> f[i]]
<1>7. h = [i \in 0..L |->
               IF i = 0 THEN 0
               ELSE h[i - 1] + (IF fees[i].questionable THEN fees[i].amount ELSE 0)]
    <2>1. ASSUME NEW i \in 0..L, i # 0
          PROVE  f[i] = h[i - 1] + (IF fees[i].questionable THEN fees[i].amount ELSE 0)
        <3>1. i \in Nat \ {0} /\ i - 1 \in 0..L /\ i \in DOMAIN fees
            BY <1>1, <2>1
        <3>2. of(i) = IF fees[i].questionable THEN fees[i].amount ELSE 0
            BY <3>1
        <3> HIDE DEF of
        <3> QED
            BY <1>5, <3>1, <3>2
    <2> QED
        BY <1>6, <2>1
<1>8. s = [i \in 0..L |->
               IF i = 0 THEN 0
               ELSE s[i - 1] + (IF fees[i].questionable THEN fees[i].amount ELSE 0)]
    <2> HIDE DEF h
    <2> QED
        BY <1>7
<1>9. Sum(fees) = s[L]
    BY DEF Sum
<1> HIDE DEF s
<1>10. \A i \in 0..L : s[i] \in Nat
    <2> DEFINE T == {i \in 0..L : s[i] \notin Nat}
    <2>1. SUFFICES ASSUME T # {} PROVE FALSE
        OBVIOUS
    <2>2. T \subseteq Nat
        OBVIOUS
    <2>3. PICK k \in T : \A m \in T : k <= m
        BY <2>1, <2>2, LeastNat
    <2>4. k # 0
        BY <1>1, <1>8, <2>3
    <2>5. k \in 0..L /\ k \in Nat \ {0} /\ k \in DOMAIN fees /\ k - 1 \in 0..L
        <3>1. k \in 0..L
            BY <2>3
        <3> HIDE DEF T, L
        <3> QED
            BY <1>1, <2>4, <3>1
    <2>6. s[k - 1] \in Nat
        <3>1. k - 1 < k /\ ~ (k <= k - 1)
            BY <2>5
        <3>2. k - 1 \notin T
            <4> HIDE DEF T
            <4> QED
                BY <2>3, <3>1
        <3> QED
            BY <2>5, <3>2
    <2>7. s[k] = s[k - 1] + of(k)
        BY <1>8, <2>5
    <2>8. of(k) \in Nat
        BY <1>2, <2>5
    <2>9. s[k] \in Nat
        <3> DEFINE a == s[k - 1]
                   b == of(k)
        <3>1. a \in Nat /\ b \in Nat /\ s[k] = a + b
            BY <2>6, <2>7, <2>8
        <3> HIDE DEF a, b, of, T, L
        <3>2. a + b \in Nat
            BY <3>1
        <3> QED
            BY <3>1, <3>2, Zenon
    <2> QED
        BY <2>3, <2>9
<1> QED
    BY <1>1, <1>9, <1>10

-----------------------------------------------------------------------------
(***************************************************************************)
(* Calculation: the invariant.  MemoryHolds and OffersHold need of the     *)
(* state only that every calculation, the one in flight included, is what  *)
(* derive_state makes of its inputs (Sound); the rest is the arithmetic    *)
(* above.  CorrectionsStand needs Heard: whatever a party has said was     *)
(* said during a reading as long as one is in flight, or may begin.        *)
(***************************************************************************)
Values == [Fields -> Int]
Origins == [Subjects \cup {"fees"} -> {"ia", "parte"}]
FeeLists == Seq(FeeLine)
Inputs == [value : Values, applies : BOOLEAN, fees : FeeLists, origin : Origins]

Sound(c) ==
    /\ c.status \in {"unavailable", "abstained", "needs_inputs", "ready"}
    /\ c.inputs \in Inputs /\ c.inScope \in BOOLEAN
    /\ c.status = "ready" => Calculable(c.inputs) /\ c.memory = BuildCalculation(c.inputs)
    /\ c.status # "ready" => c.memory = NoMemory

Heard ==
    /\ ~calculation.edited \/ reading.running =>
          \A f \in Subjects : said[f] # Missing => f \in raced
    /\ closed => ~composing.running
    /\ remedy # NoRemedy => closed

CalculationIInv ==
    /\ CalculationTypeOK /\ offers \in Seq({offers[i] : i \in DOMAIN offers})
    /\ Sound(calculation) /\ Sound(composing.read)
    /\ OffersHold /\ CorrectionsStand /\ Heard

(* The calculation a case starts with.                                     *)
LEMMA NothingIsSound == NoInputs \in Inputs /\ Sound(NoCalculation)
<1>1. NoInputs.value \in Values /\ NoInputs.origin \in Origins
    BY DEF NoInputs, Values, Origins, Missing, Subjects
<1>2. NoInputs.fees \in FeeLists
    BY DEF NoInputs, FeeLists
<1>3. NoInputs \in Inputs
    <2> DEFINE v == NoInputs.value
               o == NoInputs.origin
               e == NoInputs.fees
    <2>1. NoInputs = [value |-> v, applies |-> TRUE, fees |-> e, origin |-> o]
        BY DEF NoInputs
    <2>2. v \in Values /\ o \in Origins /\ e \in FeeLists
        BY <1>1, <1>2
    <2> HIDE DEF v, o, e
    <2> QED
        BY <2>1, <2>2 DEF Inputs
<1> QED
    BY <1>3 DEF Sound, NoCalculation

(* What the model reads is typed as the inputs are, and the only thing of  *)
(* it under the name of a party is the average rate, which is missing.     *)
LEMMA ReadingsAreInputs ==
    ASSUME NEW r \in Readings \cup {NothingRead}
    PROVE  /\ Extracted(r) \in Inputs /\ r.inScope \in BOOLEAN
           /\ \A f \in Subjects : Extracted(r).origin[f] = "parte" =>
                 f = "average" /\ Counted(Extracted(r), f) = Missing
<1>1. r.value \in Values /\ r.fees \in FeeLists /\ r.inScope \in BOOLEAN
    <2>1. CASE r \in Readings
        BY <2>1, CalculationAssumption DEF Values, FeeLists
    <2>2. CASE r = NothingRead
        BY <2>2 DEF NothingRead, Values, FeeLists, Missing
    <2> QED
        BY <2>1, <2>2
<1> DEFINE value == [r.value EXCEPT !["average"] = Missing]
<1>2. value \in Values
    <2>1. r.value \in [Fields -> Int]
        BY <1>1 DEF Values
    <2>2. ASSUME NEW F, NEW v \in [F -> Int], NEW f, NEW k \in Int
          PROVE  [v EXCEPT ![f] = k] \in [F -> Int]
        OBVIOUS
    <2>3. Missing \in Int
        BY DEF Missing
    <2>4. value \in [Fields -> Int]
        BY <2>1, <2>2, <2>3
    <2> QED
        BY <2>4 DEF Values
<1> DEFINE o == NoInputs.origin
           e == r.fees
           v == NoInputs.value
           n == NoInputs.fees
<1>3. NoInputs = [value |-> v, applies |-> TRUE, fees |-> n, origin |-> o]
    BY DEF NoInputs
<1>4. o \in Origins /\ \A f \in Subjects : o[f] = "parte" => f = "average"
    BY NothingIsSound DEF Inputs, NoInputs
<1>5. value["average"] = Missing
    BY <1>1 DEF value, Values, Fields, Subjects
<1>6. Extracted(r) = [NoInputs EXCEPT !.value = value, !.fees = e]
    BY DEF Extracted, value
<1> HIDE DEF o, v, n, value
<1>7. Extracted(r) = [value |-> value, applies |-> TRUE, fees |-> e, origin |-> o]
    BY <1>3, <1>6
<1>8. e \in FeeLists /\ r.inScope \in BOOLEAN
    BY <1>1
<1> HIDE DEF e
<1>9. Extracted(r) \in Inputs
    BY <1>2, <1>4, <1>7, <1>8 DEF Inputs
<1>10. Extracted(r).origin = o /\ Extracted(r).value = value
    BY <1>7
<1>11. ASSUME NEW f \in Subjects, Extracted(r).origin[f] = "parte"
       PROVE  f = "average" /\ Counted(Extracted(r), f) = Missing
    <2>1. f = "average"
        BY <1>4, <1>10, <1>11
    <2> QED
        BY <1>5, <1>10, <2>1 DEF Counted
<1> QED
    BY <1>8, <1>9, <1>11

(* What a party's message c says of the subject f it edits.                *)
Told(c, f) ==
    IF f = "rate" /\ "annual" \in DOMAIN c.fields THEN MonthlyOf[c.fields["annual"]]
    ELSE c.fields[f]

(* A correction keeps the inputs typed, counts what was sent, under the    *)
(* name of the party, and leaves the other subjects alone.                 *)
LEMMA CorrectionsAreInputs ==
    ASSUME NEW in \in Inputs, NEW c \in Corrections
    PROVE  LET new == ApplyPartyEdits(in, c) IN
           /\ new \in Inputs
           /\ \A f \in Subjects :
                 IF f \in Edited(c)
                 THEN Told(c, f) \in Nat /\ Counted(new, f) = Told(c, f)
                      /\ new.origin[f] = "parte"
                 ELSE Counted(new, f) = Counted(in, f) /\ new.origin[f] = in.origin[f]
<1> DEFINE sent == DOMAIN c.fields
           value == [f \in Fields |-> IF f \in Replaced(c) THEN Missing
                                      ELSE IF f \in sent THEN c.fields[f] ELSE in.value[f]]
           origin == [f \in Subjects \cup {"fees"} |->
                         IF f \in Edited(c) \/ (f = "fees" /\ c.fees # {}) THEN "parte"
                         ELSE in.origin[f]]
           applies == IF c.applies = {} THEN in.applies ELSE CHOOSE yes \in c.applies : TRUE
           fees == IF c.fees = {} THEN in.fees ELSE CHOOSE list \in c.fees : TRUE
           new == ApplyPartyEdits(in, c)
<1>1. /\ sent \subseteq Fields /\ \A f \in sent : c.fields[f] \in Nat
      /\ "annual" \in sent => MonthlyOf[c.fields["annual"]] \in Nat
      /\ c.fees \subseteq FeeLists /\ c.applies \subseteq BOOLEAN
    BY CalculationAssumption DEF FeeLists
<1>2. /\ in = [value |-> in.value, applies |-> in.applies, fees |-> in.fees,
               origin |-> in.origin]
      /\ in.value \in Values /\ in.applies \in BOOLEAN /\ in.fees \in FeeLists
      /\ in.origin \in Origins
    BY DEF Inputs
<1>3. new = [value |-> value, applies |-> applies, fees |-> fees, origin |-> origin]
    <2>1. new = [in EXCEPT !.value = value, !.origin = origin, !.applies = applies,
                           !.fees = fees]
        BY DEF ApplyPartyEdits
    <2> HIDE DEF new, value, origin, applies, fees
    <2> QED
        BY <1>2, <2>1
<1>4. value \in Values /\ origin \in Origins
    BY <1>1, <1>2 DEF Values, Origins, Missing
<1>5. applies \in BOOLEAN /\ fees \in FeeLists
    BY <1>1, <1>2
<1>6. /\ \A f \in Fields : value[f] = IF f \in Replaced(c) THEN Missing
                                       ELSE IF f \in sent THEN c.fields[f] ELSE in.value[f]
      /\ \A f \in Subjects : origin[f] = IF f \in Edited(c) THEN "parte" ELSE in.origin[f]
    BY DEF Subjects
<1> HIDE DEF value, origin, applies, fees, new
<1>7. new \in Inputs
    BY <1>2, <1>3, <1>4, <1>5 DEF Inputs
<1>8. new.value = value /\ new.origin = origin
    BY <1>3
<1>9. ASSUME NEW f \in Subjects
      PROVE  IF f \in Edited(c)
             THEN Told(c, f) \in Nat /\ Counted(new, f) = Told(c, f) /\ new.origin[f] = "parte"
             ELSE Counted(new, f) = Counted(in, f) /\ new.origin[f] = in.origin[f]
    <2>1. new.origin[f] = IF f \in Edited(c) THEN "parte" ELSE in.origin[f]
        BY <1>6, <1>8
    <2>2. CASE f = "rate"
        <3>1. f \in Edited(c) <=> "annual" \in sent \/ "rate" \in sent
            BY <2>2 DEF Edited, Subject
        <3>2. /\ "rate" \in Fields /\ "annual" \in Fields
              /\ "annual" \in sent => "rate" \in Replaced(c) /\ "annual" \notin Replaced(c)
              /\ "annual" \notin sent /\ "rate" \in sent =>
                    "annual" \in Replaced(c) /\ "rate" \notin Replaced(c)
              /\ "annual" \notin sent /\ "rate" \notin sent => Replaced(c) = {}
            BY DEF Fields, Subjects, Replaced
        <3>3. Counted(new, f) = IF value["rate"] # Missing THEN value["rate"]
                                ELSE IF value["annual"] # Missing THEN MonthlyOf[value["annual"]]
                                ELSE Missing
            BY <1>8, <2>2 DEF Counted, Rate
        <3>4. CASE "annual" \in sent
            <4>1. value["rate"] = Missing /\ value["annual"] = c.fields["annual"]
                BY <1>6, <3>2, <3>4
            <4>2. c.fields["annual"] \in Nat /\ c.fields["annual"] # Missing
                BY <1>1, <3>4 DEF Missing
            <4>3. Told(c, f) = MonthlyOf[c.fields["annual"]]
                BY <2>2, <3>4 DEF Told
            <4> QED
                BY <1>1, <2>1, <3>1, <3>3, <3>4, <4>1, <4>2, <4>3
        <3>5. CASE "annual" \notin sent /\ "rate" \in sent
            <4>1. value["rate"] = c.fields["rate"]
                BY <1>6, <3>2, <3>5
            <4>2. c.fields["rate"] \in Nat /\ c.fields["rate"] # Missing
                BY <1>1, <3>5 DEF Missing
            <4>3. Told(c, f) = c.fields["rate"]
                BY <2>2, <3>5 DEF Told
            <4> QED
                BY <2>1, <3>1, <3>3, <3>5, <4>1, <4>2, <4>3
        <3>6. CASE "annual" \notin sent /\ "rate" \notin sent
            <4>1. value["rate"] = in.value["rate"] /\ value["annual"] = in.value["annual"]
                BY <1>6, <3>2, <3>6
            <4> QED
                BY <2>1, <2>2, <3>1, <3>3, <3>6, <4>1 DEF Counted, Rate
        <3> QED
            BY <3>4, <3>5, <3>6
    <2>3. CASE f # "rate"
        <3>1. f \in Fields /\ f # "annual" /\ f \notin Replaced(c)
            BY <2>3 DEF Fields, Subjects, Replaced
        <3>2. f \in Edited(c) <=> f \in sent
            BY <2>3, <3>1 DEF Edited, Subject
        <3>3. value[f] = IF f \in sent THEN c.fields[f] ELSE in.value[f]
            BY <1>6, <3>1
        <3>4. Counted(new, f) = value[f] /\ Counted(in, f) = in.value[f]
            BY <1>8, <2>3 DEF Counted
        <3>5. Told(c, f) = c.fields[f]
            BY <2>3 DEF Told
        <3> QED
            BY <1>1, <2>1, <3>2, <3>3, <3>4, <3>5
    <2> QED
        BY <2>2, <2>3
<1> QED
    BY <1>7, <1>9 DEF new

(* derive_state makes a sound calculation of typed inputs.                 *)
LEMMA DerivedIsSound ==
    ASSUME NEW in \in Inputs, NEW inScope \in BOOLEAN, NEW edited \in BOOLEAN
    PROVE  LET c == Derived(in, inScope, edited) IN
           Sound(c) /\ c.inputs = in /\ c.edited = edited
<1> DEFINE status == IF ~inScope THEN "abstained"
                     ELSE IF Calculable(in) THEN "ready" ELSE "needs_inputs"
           memory == IF status = "ready" THEN BuildCalculation(in) ELSE NoMemory
<1>1. Derived(in, inScope, edited) = [status |-> status, inputs |-> in, inScope |-> inScope,
                                      edited |-> edited, memory |-> memory]
    BY DEF Derived
<1>2. /\ status \in {"abstained", "needs_inputs", "ready"}
      /\ status = "ready" => Calculable(in) /\ memory = BuildCalculation(in)
      /\ status # "ready" => memory = NoMemory
    OBVIOUS
<1> HIDE DEF status, memory
<1> QED
    BY <1>1, <1>2 DEF Sound

(* The memory of inputs that can be calculated: what MemoryHolds says of   *)
(* it, and a total that is not negative.                                   *)
LEMMA MemoryFacts ==
    ASSUME NEW in \in Inputs, Calculable(in)
    PROVE  LET m == BuildCalculation(in) v == in.value r == Rate(in) IN
           /\ m.total \in Nat
           /\ m.gap > 0 => r > v["average"] /\ in.applies
           /\ r > v["average"] => m.contract >= m.average
           /\ 2 * m.contract * v["installments"] >= 2 * v["principal"] - v["installments"]
           /\ m.total <= m.contract * v["paid"] + m.refund
<1> DEFINE P == in.value["principal"]
           n == in.value["installments"]
           r == Rate(in)
           a == in.value["average"]
           k == in.value["paid"]
           contract == Price(P, r, n)
           average == Price(P, a, n)
           gap == IF in.applies /\ contract > average THEN contract - average ELSE 0
           refund == Sum(in.fees)
           m == BuildCalculation(in)
<1>1. in.value \in Values /\ in.fees \in Seq(FeeLine) /\ in.applies \in BOOLEAN
    BY DEF Inputs, FeeLists
<1>2. P \in Nat \ {0} /\ n \in Nat \ {0} /\ r \in Nat \ {0} /\ a \in Nat \ {0} /\ k \in Nat
    BY <1>1, CalculationAssumption DEF Calculable, Values, Fields, Subjects
<1>3. refund \in Nat
    BY <1>1, FeesAddUp DEF Calculable
<1>4. /\ m.contract = contract /\ m.average = average /\ m.gap = gap /\ m.refund = refund
      /\ m.total = gap * k + refund
    BY DEF BuildCalculation
<1> HIDE DEF m, P, n, r, a, k
<1>5. /\ contract \in Nat /\ average \in Nat
      /\ 2 * contract * n >= 2 * P - n
    BY <1>2, PricePays
<1>6. r <= a => contract <= average
    BY <1>2, PriceGrows
<1>7. a <= r => average <= contract
    BY <1>2, PriceGrows
<1> HIDE DEF contract, average, refund
<1>8. gap \in Nat /\ gap <= contract
    BY <1>5
<1>9. gap > 0 => r > a /\ in.applies
    BY <1>2, <1>5, <1>6
<1> HIDE DEF gap
<1>10. gap * k \in Nat /\ gap * k <= contract * k
    BY <1>2, <1>5, <1>8, Products
<1>11. gap * k + refund \in Nat /\ gap * k + refund <= contract * k + refund
    <2> DEFINE x == gap * k
               y == contract * k
    <2>1. x \in Nat /\ x <= y /\ y \in Nat
        BY <1>2, <1>5, <1>10, Products
    <2> HIDE DEF x, y
    <2>2. x + refund \in Nat /\ x + refund <= y + refund
        BY <1>3, <2>1
    <2> QED
        BY <2>2 DEF x, y
<1>12. r > a => contract >= average
    BY <1>2, <1>5, <1>7
<1> QED
    BY <1>4, <1>5, <1>9, <1>11, <1>12 DEF m, P, n, r, a, k

(* What OffersHold says of one round, the i-th.                            *)
OfferHolds(o, i) ==
    /\ o.status = "ready" => o.memory = BuildCalculation(o.inputs)
    /\ o.offer.amount <= o.memory.total /\ 2 * o.offer.amount >= o.memory.total
    /\ i = 1 => o.offer.amount = o.memory.total
    /\ \A t \in o.terms :
          /\ FiguresOf(t) # {} => o.status = "ready" /\ FiguresOf(t) \subseteq Quotable(o)
          /\ \A w \in t : w.form = "platform" =>
                o.status = "ready" /\ <<w.kind, w.value>> \in Quotable(o)

(* What is written as the platform writes it is read as it was meant.      *)
LEMMA PlainlyRead ==
    ASSUME NEW t, NEW w \in t, w.form = "platform"
    PROVE  <<w.kind, w.value>> \in FiguresOf(t)
<1>1. ReadFrom(w) = {<<w.kind, w.value>>}
    BY DEF ReadFrom
<1> QED
    BY <1>1 DEF FiguresOf

(* An offer is between half of the total and the total, and its terms      *)
(* quote the memory it is made of.                                         *)
LEMMA OfferFacts ==
    ASSUME NEW c, Sound(c), NEW percent \in Percents, NEW terms, NEW number \in Nat \ {0}
    PROVE  OfferHolds(AttachToRound(c, percent, terms, number), number)
<1> DEFINE o == AttachToRound(c, percent, terms, number)
           asked == IF number > 1 THEN percent ELSE Missing
           p == Clamp(asked)
           total == c.memory.total
<1>1. CASE c.status = "ready"
    <2>1. /\ c.inputs \in Inputs /\ Calculable(c.inputs)
          /\ c.memory = BuildCalculation(c.inputs)
        BY <1>1 DEF Sound
    <2>2. total \in Nat
        BY <2>1, MemoryFacts
    <2>3. p \in 50..100 /\ (number = 1 => p = 100)
        BY CalculationAssumption DEF Clamp, Missing, MIN_SETTLEMENT_PERCENT
    <2> DEFINE amount == (total * p + 50) \div 100
    <2>4. /\ amount <= total /\ 2 * amount >= total
          /\ p = 100 => amount = total
        <3> HIDE DEF p, total
        <3>1. total * p \in Nat /\ 50 * total <= total * p /\ total * p <= 100 * total
            <4>1. 50 * total <= p * total /\ p * total <= 100 * total /\ p * total \in Nat
                BY <2>2, <2>3, Products
            <4> QED
                BY <2>2, <2>3, <4>1
        <3> DEFINE x == total * p
        <3>2. x \in Nat /\ 50 * total <= x /\ x <= 100 * total
            BY <3>1
        <3>3. p = 100 => x = 100 * total
            BY <2>2
        <3> HIDE DEF x
        <3>4. amount = (x + 50) \div 100
            BY DEF x
        <3> QED
            BY <2>2, <3>2, <3>3, <3>4
    <2> HIDE DEF p, total, amount
    <2>5. /\ o.status = "ready" /\ o.memory = c.memory /\ o.inputs = c.inputs
          /\ o.offer = [percent |-> p, amount |-> amount]
          /\ o.terms = GuardTerms(terms, c, {p})
        BY <1>1 DEF AttachToRound, Scenario, p, total, amount
    <2>6. o.memory.total = total
        BY <2>5 DEF total
    <2> HIDE DEF o
    <2>7. o.offer.amount = amount /\ o.offer.percent = p
        BY <2>5
    <2>8. AllowedFigures(c, {p}) \subseteq Quotable(o)
        BY <1>1, <2>5, <2>7 DEF AllowedFigures, Quotable
    <2>9. ASSUME NEW t \in o.terms
           PROVE  /\ FiguresOf(t) \subseteq Quotable(o)
                  /\ \A w \in t : w.form = "platform" => <<w.kind, w.value>> \in Quotable(o)
        <3>1. FiguresOf(t) \subseteq Quotable(o)
            BY <2>5, <2>8, <2>9 DEF GuardTerms
        <3> QED
            BY <3>1, PlainlyRead
    <2>10. OfferHolds(o, number)
        BY <2>3, <2>4, <2>5, <2>6, <2>7, <2>1, <2>9 DEF OfferHolds
    <2> QED
        BY <2>10 DEF o
<1>2. CASE c.status # "ready"
    <2>1. c.memory = NoMemory
        BY <1>2 DEF Sound
    <2>2. /\ o.memory.total = 0 /\ o.offer.amount = 0
          /\ o.terms = GuardTerms(terms, c, {})
        BY <1>2, <2>1 DEF AttachToRound, NoOffer, NoMemory
    <2>3. AllowedFigures(c, {}) = {}
        BY <1>2 DEF AllowedFigures
    <2>4. \A t \in o.terms : FiguresOf(t) = {}
        BY <2>2, <2>3 DEF GuardTerms
    <2>5. o.status # "ready"
        BY <1>2 DEF AttachToRound
    <2> HIDE DEF o
    <2>6. \A t \in o.terms : \A w \in t : w.form # "platform"
        BY <2>4, PlainlyRead
    <2>7. OfferHolds(o, number)
        BY <2>2, <2>4, <2>5, <2>6 DEF OfferHolds
    <2> QED
        BY <2>7 DEF o
<1> QED
    BY <1>1, <1>2

(* The offers hold when each does.                                         *)
LEMMA EachOffer == OffersHold = \A i \in DOMAIN offers : OfferHolds(offers[i], i)
BY DEF OffersHold, OfferHolds

(* A round more: the offers hold still.                                    *)
LEMMA OfferKeeps ==
    ASSUME CalculationIInv, NEW percent \in Percents, NEW terms, SaveOffer(percent, terms)
    PROVE  /\ offers' \in Seq({offers'[i] : i \in DOMAIN offers'})
           /\ Len(offers') = Len(offers) + 1 /\ Len(offers) \in Nat
           /\ \A i \in DOMAIN offers' : OfferHolds(offers'[i], i)
<1> DEFINE R == {offers[i] : i \in DOMAIN offers}
           n == Len(offers) + 1
           o == AttachToRound(composing.read, percent, terms, n)
           S == R \cup {o}
           new == Append(offers, o)
<1>1. offers \in Seq(R) /\ offers' = new /\ Sound(composing.read) /\ OffersHold
    BY DEF CalculationIInv, SaveOffer
<1>2. \A i \in DOMAIN offers : OfferHolds(offers[i], i)
    BY <1>1, EachOffer
<1>3. Len(offers) \in Nat /\ n \in Nat \ {0} /\ DOMAIN offers = 1..Len(offers)
    <2> HIDE DEF R
    <2> QED
        BY <1>1
<1>4. OfferHolds(o, n)
    BY <1>1, <1>3, OfferFacts
<1> HIDE DEF o, R
<1>5. offers \in Seq(S) /\ o \in S
    BY <1>1, <1>3
<1> HIDE DEF S
<1>6. /\ new \in Seq(S) /\ Len(new) = n
      /\ \A i \in 1..Len(offers) : new[i] = offers[i]
      /\ new[n] = o
    BY <1>3, <1>5
<1> HIDE DEF new
<1>7. DOMAIN new = 1..n
    BY <1>6
<1>8. new \in Seq({new[i] : i \in DOMAIN new})
    <2> DEFINE Q == {new[i] : i \in DOMAIN new}
    <2>1. \A i \in 1..Len(new) : new[i] \in Q
        BY <1>6, <1>7
    <2> HIDE DEF Q
    <2>2. new \in Seq(Q)
        BY <1>6, <2>1
    <2> QED
        BY <2>2 DEF Q
<1>9. ASSUME NEW i \in DOMAIN new PROVE OfferHolds(new[i], i)
    <2>1. CASE i = n
        BY <1>4, <1>6, <2>1
    <2>2. CASE i # n
        <3>1. i \in DOMAIN offers /\ new[i] = offers[i]
            BY <1>3, <1>6, <1>7, <2>2
        <3> QED
            BY <1>2, <3>1
    <2> QED
        BY <2>1, <2>2
<1> QED
    BY <1>1, <1>3, <1>6, <1>8, <1>9

(* What a step must show to keep the invariant when it makes no offer.     *)
LEMMA OffersUntouched ==
    ASSUME CalculationIInv, offers' = offers
    PROVE  /\ offers' \in Seq({offers'[i] : i \in DOMAIN offers'})
           /\ Len(offers') <= MaxRounds /\ OffersHold'
    BY DEF CalculationIInv, CalculationTypeOK, OffersHold

(* A reading that is not marked as truncated is sent all there is to send: *)
(* otherwise the loop breaks, and the first document that spent the budget *)
(* was reached.                                                            *)
LEMMA WholeDocuments ==
    ASSUME NEW sizes \in Volumes, ~Truncated(sizes)
    PROVE  Parts(sizes) = sizes
<1> DEFINE spent == {i \in DOMAIN sizes : Spent(sizes, i)}
<1>1. sizes \in Seq(Nat) /\ DOMAIN sizes \subseteq Nat
    BY CalculationAssumption
<1>2. ASSUME spent # {} PROVE FALSE
    <2>1. PICK k \in spent : \A i \in spent : k <= i
        BY <1>1, <1>2, LeastNat
    <2>2. k \in DOMAIN sizes /\ k \in Nat /\ Spent(sizes, k) /\ DOMAIN sizes = 1..Len(sizes)
        BY <1>1, <2>1
    <2>3. ASSUME NEW j \in 1..(k - 1) PROVE ~Spent(sizes, j)
        <3>1. j \in DOMAIN sizes /\ ~(k <= j)
            BY <1>1, <2>2
        <3> QED
            BY <2>1, <3>1
    <2>4. Reached(sizes, k)
        BY <2>3 DEF Reached
    <2> QED
        BY <2>2, <2>4 DEF Truncated
<1>3. ASSUME NEW i \in DOMAIN sizes PROVE Reached(sizes, i) /\ ~(sizes[i] > Limit(sizes, i))
    <2>1. \A j \in 1..(i - 1) : j \in DOMAIN sizes
        BY <1>1
    <2>2. Reached(sizes, i)
        BY <1>2, <2>1 DEF Reached
    <2> QED
        BY <2>2 DEF Truncated
<1>4. \A i \in DOMAIN sizes : Parts(sizes)[i] = sizes[i]
    BY <1>3 DEF Parts, Least
<1>5. Parts(sizes) = [i \in DOMAIN sizes |-> Parts(sizes)[i]]
    BY DEF Parts
<1>6. sizes = [i \in DOMAIN sizes |-> sizes[i]]
    BY <1>1
<1> QED
    BY <1>4, <1>5, <1>6

(* A reading begins.                                                       *)
LEMMA ExtractKeeps ==
    ASSUME CalculationIInv, NEW sizes \in Volumes, Extract(sizes)
    PROVE  CalculationIInv'
<1> DEFINE job == [running |-> TRUE, sizes |-> sizes, sent |-> Parts(sizes),
                   truncated |-> Truncated(sizes)]
<1>1. /\ ~calculation.edited /\ reading' = job
      /\ UNCHANGED <<calculation, composing, offers, closed, remedy, said, raced, late>>
    BY DEF Extract, MayExtract
<1>2. Truncated(sizes) \in BOOLEAN /\ (~Truncated(sizes) => Parts(sizes) = sizes)
    BY WholeDocuments DEF Truncated
<1>3. /\ job.running = TRUE /\ job.truncated \in BOOLEAN
      /\ ~job.truncated => job.sent = job.sizes
    BY <1>2
<1> HIDE DEF job
<1>4. CalculationTypeOK'
    BY <1>1, <1>3 DEF CalculationIInv, CalculationTypeOK
<1>5. CorrectionsStand'
    BY <1>1, <1>3 DEF CalculationIInv, CorrectionsStand
<1>6. Heard'
    BY <1>1, <1>3 DEF CalculationIInv, Heard
<1> QED
    BY <1>1, <1>4, <1>5, <1>6, OffersUntouched DEF CalculationIInv, Sound

(* It ends, and writes what it has read over the whole calculation: what   *)
(* the parties said was said meanwhile, and is no longer counted.          *)
LEMMA SaveExtractionKeeps ==
    ASSUME CalculationIInv, NEW r \in Readings \cup {NothingRead}, SaveExtraction(r)
    PROVE  CalculationIInv'
<1> DEFINE c == Derived(Extracted(r), r.inScope, FALSE)
<1>1. /\ reading.running /\ reading' = NoJob /\ calculation' = c
      /\ late' = (late \/ closed)
      /\ UNCHANGED <<composing, offers, closed, remedy, said, raced>>
    BY DEF SaveExtraction
<1>2. /\ Sound(c) /\ c.edited = FALSE
      /\ \A f \in Subjects : c.inputs.origin[f] = "parte" =>
            f = "average" /\ Counted(c.inputs, f) = Missing
    <2>1. /\ Extracted(r) \in Inputs /\ r.inScope \in BOOLEAN
          /\ \A f \in Subjects : Extracted(r).origin[f] = "parte" =>
                f = "average" /\ Counted(Extracted(r), f) = Missing
        BY ReadingsAreInputs
    <2>2. Sound(c) /\ c.inputs = Extracted(r) /\ c.edited = FALSE
        BY <2>1, DerivedIsSound
    <2> QED
        BY <2>1, <2>2
<1> HIDE DEF c
<1>3. c.inputs.origin \in Origins
    BY <1>2 DEF Sound, Inputs
<1>4. NoJob.running = FALSE /\ NoJob.truncated = FALSE /\ NoJob.sent = NoJob.sizes
    BY DEF NoJob
<1>5. CalculationTypeOK'
    BY <1>1, <1>2, <1>3, <1>4 DEF CalculationIInv, CalculationTypeOK, Sound, Origins
<1>6. \A f \in Subjects : said[f] # Missing => f \in raced
    BY <1>1 DEF CalculationIInv, Heard
<1>7. remedy # NoRemedy => late'
    BY <1>1 DEF CalculationIInv, Heard
<1>8. CorrectionsStand'
    BY <1>1, <1>2, <1>4, <1>6, <1>7 DEF CorrectionsStand
<1>9. Heard'
    BY <1>1, <1>6 DEF CalculationIInv, Heard
<1>10. Sound(calculation)' /\ Sound(composing.read)'
    BY <1>1, <1>2 DEF CalculationIInv, Sound
<1> QED
    BY <1>1, <1>5, <1>8, <1>9, <1>10, OffersUntouched DEF CalculationIInv

(* A party corrects what was read.                                         *)
LEMMA CorrectKeeps ==
    ASSUME CalculationIInv, NEW c \in Corrections, Correct(c)
    PROVE  CalculationIInv'
<1> DEFINE in == ApplyPartyEdits(calculation.inputs, c)
           new == Derived(in, calculation.inScope, TRUE)
           told == [f \in Subjects |-> IF f \notin Edited(c) THEN said[f] ELSE Told(c, f)]
           now == IF reading.running THEN raced \cup Edited(c) ELSE raced \ Edited(c)
<1>1. /\ ~closed /\ calculation' = new /\ raced' = now
      /\ UNCHANGED <<reading, composing, offers, closed, remedy, late>>
    BY DEF Correct
<1>2. said' = told
    BY DEF Correct, Told
<1>3. /\ calculation.inputs \in Inputs /\ calculation.inScope \in BOOLEAN
    BY DEF CalculationIInv, Sound
<1>4. /\ in \in Inputs
      /\ \A f \in Subjects :
            IF f \in Edited(c)
            THEN Told(c, f) \in Nat /\ Counted(in, f) = Told(c, f) /\ in.origin[f] = "parte"
            ELSE /\ Counted(in, f) = Counted(calculation.inputs, f)
                 /\ in.origin[f] = calculation.inputs.origin[f]
    BY <1>3, CorrectionsAreInputs
<1> HIDE DEF in
<1>5. Sound(new) /\ new.inputs = in /\ new.edited = TRUE
    BY <1>3, <1>4, DerivedIsSound
<1> HIDE DEF new
<1>6. in.origin \in Origins
    BY <1>4 DEF Inputs
<1>7. /\ told \in [Subjects -> Nat \cup {Missing}]
      /\ \A f \in Subjects : told[f] = IF f \notin Edited(c) THEN said[f] ELSE Told(c, f)
    BY <1>4 DEF CalculationIInv, CalculationTypeOK
<1> HIDE DEF told
<1>8. Edited(c) \subseteq Subjects
    BY CalculationAssumption DEF Edited, Subject, Fields, Subjects
<1>9. /\ now \subseteq Subjects
      /\ \A f \in Subjects \ Edited(c) : f \in now <=> f \in raced
      /\ reading.running => Edited(c) \subseteq now
    BY <1>8 DEF CalculationIInv, CalculationTypeOK
<1> HIDE DEF now
<1>10. CalculationTypeOK'
    BY <1>1, <1>2, <1>5, <1>6, <1>7, <1>9 DEF CalculationIInv, CalculationTypeOK, Sound, Origins
<1>11. remedy = NoRemedy
    BY <1>1 DEF CalculationIInv, Heard
<1>12. CorrectionsStand'
    <2>1. ASSUME NEW f \in Subjects
          PROVE  /\ told[f] # Missing /\ f \notin now =>
                        Counted(in, f) = told[f] /\ in.origin[f] = "parte"
                 /\ in.origin[f] = "parte" =>
                        Counted(in, f) = told[f] \/ (f = "average" /\ Counted(in, f) = Missing)
        <3>1. CASE f \in Edited(c)
            BY <1>4, <1>7, <3>1
        <3>2. CASE f \notin Edited(c)
            <4>1. told[f] = said[f] /\ (f \in now <=> f \in raced)
                BY <1>7, <1>9, <3>2
            <4> QED
                BY <1>4, <3>2, <4>1 DEF CalculationIInv, CorrectionsStand
        <3> QED
            BY <3>1, <3>2
    <2>2. ~reading.truncated => reading.sent = reading.sizes
        BY DEF CalculationIInv, CorrectionsStand
    <2> QED
        BY <1>1, <1>2, <1>5, <1>11, <2>1, <2>2 DEF CorrectionsStand
<1>13. Heard'
    <2>1. ASSUME reading.running, NEW f \in Subjects, told[f] # Missing PROVE f \in now
        <3>1. CASE f \in Edited(c)
            BY <1>9, <2>1, <3>1
        <3>2. CASE f \notin Edited(c)
            BY <1>7, <1>9, <2>1, <3>2 DEF CalculationIInv, Heard
        <3> QED
            BY <3>1, <3>2
    <2> QED
        BY <1>1, <1>2, <1>5, <1>11, <2>1 DEF CalculationIInv, Heard
<1>14. Sound(calculation)' /\ Sound(composing.read)'
    BY <1>1, <1>5 DEF CalculationIInv, Sound
<1> QED
    BY <1>1, <1>10, <1>12, <1>13, <1>14, OffersUntouched DEF CalculationIInv

(* A round of composition begins, and ends with an offer.                  *)
LEMMA ComposeKeeps == CalculationIInv /\ Compose => CalculationIInv'
<1> SUFFICES ASSUME CalculationIInv, Compose PROVE CalculationIInv'
    OBVIOUS
<1>1. /\ ~closed /\ composing' = [running |-> TRUE, read |-> calculation]
      /\ UNCHANGED <<calculation, reading, offers, closed, remedy, said, raced, late>>
    BY DEF Compose
<1>2. composing'.running = TRUE /\ composing'.read = calculation
    BY <1>1
<1>3. CalculationTypeOK'
    BY <1>1, <1>2 DEF CalculationIInv, CalculationTypeOK
<1>4. CorrectionsStand'
    BY <1>1, <1>2 DEF CalculationIInv, CorrectionsStand
<1>5. Heard'
    BY <1>1 DEF CalculationIInv, Heard
<1>6. Sound(calculation)' /\ Sound(composing.read)'
    BY <1>1, <1>2 DEF CalculationIInv, Sound
<1> QED
    BY <1>1, <1>3, <1>4, <1>5, <1>6, OffersUntouched DEF CalculationIInv

(* The bound on the rounds is that of Compose: what is in flight fits.     *)
Room == composing.running => Len(offers) < MaxRounds

(* ... which every step keeps.                                             *)
LEMMA RoomStays ==
    ASSUME CalculationIInv, Room, CalculationNext
    PROVE  Room'
<1>1. ASSUME NEW sizes \in Volumes, Extract(sizes) PROVE Room'
    BY <1>1 DEF Extract, Room
<1>2. ASSUME NEW r \in Readings \cup {NothingRead}, SaveExtraction(r) PROVE Room'
    BY <1>2 DEF SaveExtraction, Room
<1>3. ASSUME ExtractionFails PROVE Room'
    BY <1>3 DEF ExtractionFails, Room
<1>4. ASSUME Compose PROVE Room'
    BY <1>4 DEF Compose, Room
<1>5. ASSUME CloseConsensual PROVE Room'
    BY <1>5 DEF CloseConsensual, Room
<1>6. ASSUME NEW c \in Corrections, Correct(c) PROVE Room'
    BY <1>6 DEF Correct, Room
<1>7. ASSUME NEW p \in Percents, NEW terms \in Drafts, SaveOffer(p, terms) PROVE Room'
    BY <1>7 DEF SaveOffer, Room, NotComposing
<1>8. ASSUME NEW v, DecideRemedy(v) PROVE Room'
    BY <1>8 DEF DecideRemedy, Room
<1> QED
    BY <1>1, <1>2, <1>3, <1>4, <1>5, <1>6, <1>7, <1>8 DEF CalculationNext

(* The offer of the round in flight is saved.                              *)
LEMMA SaveOfferKeeps ==
    ASSUME CalculationIInv, Room, NEW p \in Percents, NEW terms, SaveOffer(p, terms)
    PROVE  CalculationIInv'
<1>1. /\ composing.running /\ composing' = NotComposing
      /\ UNCHANGED <<calculation, reading, closed, remedy, said, raced, late>>
    BY DEF SaveOffer
<1>2. /\ offers' \in Seq({offers'[i] : i \in DOMAIN offers'})
      /\ Len(offers') = Len(offers) + 1 /\ Len(offers) \in Nat
      /\ \A i \in DOMAIN offers' : OfferHolds(offers'[i], i)
    BY OfferKeeps
<1>3. Len(offers') <= MaxRounds
    BY <1>1, <1>2, CalculationAssumption DEF Room
<1>4. composing'.running = FALSE /\ composing'.read = NoCalculation
    BY <1>1 DEF NotComposing
<1>5. CalculationTypeOK'
    BY <1>1, <1>3, <1>4 DEF CalculationIInv, CalculationTypeOK
<1>6. CorrectionsStand'
    BY <1>1, <1>4 DEF CalculationIInv, CorrectionsStand
<1>7. Heard'
    BY <1>1, <1>4 DEF CalculationIInv, Heard
<1>8. Sound(calculation)' /\ Sound(composing.read)'
    BY <1>1, <1>4, NothingIsSound DEF CalculationIInv, Sound
<1>9. OffersHold'
    <2>1. (OffersHold = \A i \in DOMAIN offers : OfferHolds(offers[i], i))'
        BY EachOffer, PTL
    <2> QED
        BY <1>2, <2>1
<1> QED
    BY <1>2, <1>5, <1>6, <1>7, <1>8, <1>9 DEF CalculationIInv

(* The consensual phase ends, and the decision meets the memory.           *)
LEMMA ClosingKeeps ==
    ASSUME CalculationIInv, ExtractionFails \/ CloseConsensual \/ \E v \in Int : DecideRemedy(v)
    PROVE  CalculationIInv'
<1>1. CASE ExtractionFails
    <2>1. /\ reading' = NoJob
          /\ UNCHANGED <<calculation, composing, offers, closed, remedy, said, raced, late>>
        BY <1>1 DEF ExtractionFails
    <2>2. NoJob.running = FALSE /\ NoJob.truncated = FALSE /\ NoJob.sent = NoJob.sizes
        BY DEF NoJob
    <2>3. CalculationTypeOK'
        BY <2>1, <2>2 DEF CalculationIInv, CalculationTypeOK
    <2>4. CorrectionsStand' /\ Heard'
        BY <2>1, <2>2 DEF CalculationIInv, CorrectionsStand, Heard
    <2> QED
        BY <2>1, <2>3, <2>4, OffersUntouched DEF CalculationIInv, Sound
<1>2. CASE CloseConsensual
    <2>1. /\ ~composing.running /\ closed' = TRUE
          /\ UNCHANGED <<calculation, reading, composing, offers, remedy, said, raced, late>>
        BY <1>2 DEF CloseConsensual
    <2>2. CalculationTypeOK'
        BY <2>1 DEF CalculationIInv, CalculationTypeOK
    <2>3. CorrectionsStand' /\ Heard'
        BY <2>1 DEF CalculationIInv, CorrectionsStand, Heard
    <2> QED
        BY <2>1, <2>2, <2>3, OffersUntouched DEF CalculationIInv, Sound
<1>3. ASSUME NEW v \in Int, DecideRemedy(v) PROVE CalculationIInv'
    <2>1. /\ closed /\ remedy'.total = calculation.memory.total
          /\ UNCHANGED <<calculation, reading, composing, offers, closed, said, raced, late>>
        BY <1>3 DEF DecideRemedy
    <2>2. CalculationTypeOK'
        BY <2>1 DEF CalculationIInv, CalculationTypeOK
    <2>3. CorrectionsStand' /\ Heard'
        BY <2>1 DEF CalculationIInv, CorrectionsStand, Heard
    <2> QED
        BY <2>1, <2>2, <2>3, OffersUntouched DEF CalculationIInv, Sound
<1> QED
    BY <1>1, <1>2, <1>3

(* Whatever is read, corrected and offered, and in whatever order: the     *)
(* memory closes with the account done by hand; every figure the guard can *)
(* read in an offer, and every one written as the platform writes it, is   *)
(* of the memory the offer shows; and a correction stands unless a reading *)
(* was in flight when it was made.                                         *)
THEOREM AccountsClose == CalculationSpec => []CalculationInv
<1>1. CalculationInit => CalculationIInv /\ Room
    <2> SUFFICES ASSUME CalculationInit PROVE CalculationIInv /\ Room
        OBVIOUS
    <2>1. /\ calculation = NoCalculation /\ reading = NoJob /\ composing = NotComposing
          /\ offers = <<>> /\ closed = FALSE /\ remedy = NoRemedy
          /\ said = [f \in Subjects |-> Missing] /\ raced = {} /\ late = FALSE
        BY DEF CalculationInit
    <2>2. NotComposing.running = FALSE /\ NotComposing.read = NoCalculation
        BY DEF NotComposing
    <2>3. /\ NoCalculation.inputs = NoInputs /\ NoCalculation.edited = FALSE
          /\ NoCalculation.status = "unavailable"
        BY DEF NoCalculation
    <2>4. NoJob.running = FALSE /\ NoJob.truncated = FALSE /\ NoJob.sent = NoJob.sizes
        BY DEF NoJob
    <2>5. /\ NoInputs.origin \in Origins
          /\ \A f \in Subjects : NoInputs.origin[f] = "parte" =>
                f = "average" /\ Counted(NoInputs, f) = Missing
        <3>1. NoInputs.origin \in Origins
            BY NothingIsSound DEF Inputs
        <3>2. ASSUME NEW f \in Subjects, NoInputs.origin[f] = "parte"
              PROVE  f = "average" /\ Counted(NoInputs, f) = Missing
            BY <3>2 DEF NoInputs, Counted, Fields, Subjects
        <3> QED
            BY <3>1, <3>2
    <2>6. Len(offers) = 0 /\ DOMAIN offers = {} /\ offers \in Seq({offers[i] : i \in DOMAIN offers})
        BY <2>1
    <2>7. CalculationTypeOK
        <3>1. calculation.status \in {"unavailable", "abstained", "needs_inputs", "ready"}
              /\ calculation.inputs.origin \in [Subjects \cup {"fees"} -> {"ia", "parte"}]
            BY <2>1, <2>3, <2>5 DEF Origins
        <3>2. said \in [Subjects -> Nat \cup {Missing}]
            BY <2>1
        <3>3. Len(offers) <= MaxRounds
            BY <2>6, CalculationAssumption
        <3>4. reading.running \in BOOLEAN /\ reading.truncated \in BOOLEAN
            BY <2>1, <2>4
        <3> QED
            BY <2>1, <2>2, <3>1, <3>2, <3>3, <3>4 DEF CalculationTypeOK
    <2>8. CorrectionsStand /\ Heard /\ OffersHold
        BY <2>1, <2>2, <2>3, <2>4, <2>5, <2>6 DEF CorrectionsStand, Heard, OffersHold
    <2>9. Room
        BY <2>1, <2>2 DEF Room
    <2> QED
        BY <2>1, <2>2, <2>6, <2>7, <2>8, <2>9, NothingIsSound DEF CalculationIInv
<1>2. CalculationIInv /\ Room /\ [CalculationNext]_calculationVars => (CalculationIInv /\ Room)'
    <2> SUFFICES ASSUME CalculationIInv, Room, [CalculationNext]_calculationVars
                 PROVE  CalculationIInv' /\ Room'
        OBVIOUS
    <2>1. CASE CalculationNext
        <3>1. ASSUME NEW v \in {Missing, calculation.memory.total, calculation.memory.total + 1},
                     DecideRemedy(v)
              PROVE  v \in Int
            <4>1. calculation.status = "ready"
                BY <3>1 DEF DecideRemedy
            <4>2. /\ calculation.inputs \in Inputs /\ Calculable(calculation.inputs)
                  /\ calculation.memory = BuildCalculation(calculation.inputs)
                BY <4>1 DEF CalculationIInv, Sound
            <4>3. calculation.memory.total \in Nat
                BY <4>2, MemoryFacts
            <4> QED
                BY <3>1, <4>3 DEF Missing
        <3>2. CalculationIInv'
            BY <2>1, <3>1, ExtractKeeps, SaveExtractionKeeps, CorrectKeeps, ComposeKeeps,
               SaveOfferKeeps, ClosingKeeps DEF CalculationNext
        <3> QED
            BY <2>1, <3>2, RoomStays
    <2>2. CASE UNCHANGED calculationVars
        <3>1. UNCHANGED <<calculation, reading, composing, offers, closed, remedy, said,
                          raced, late>>
            BY <2>2 DEF calculationVars
        <3>2. CalculationTypeOK' /\ CorrectionsStand' /\ Heard' /\ Room'
            BY <3>1 DEF CalculationIInv, CalculationTypeOK, CorrectionsStand, Heard, Room
        <3> QED
            BY <3>1, <3>2, OffersUntouched DEF CalculationIInv, Sound
    <2> QED
        BY <2>1, <2>2
<1>3. CalculationIInv => CalculationInv
    <2> SUFFICES ASSUME CalculationIInv PROVE CalculationInv
        OBVIOUS
    <2>1. ASSUME calculation.status = "ready"
          PROVE  /\ calculation.inputs \in Inputs /\ Calculable(calculation.inputs)
                 /\ calculation.memory = BuildCalculation(calculation.inputs)
        BY <2>1 DEF CalculationIInv, Sound
    <2>2. MemoryHolds
        BY <2>1, MemoryFacts DEF MemoryHolds
    <2> QED
        BY <2>2 DEF CalculationIInv, CalculationInv
<1> QED
    BY <1>1, <1>2, <1>3, PTL DEF CalculationSpec

=============================================================================
