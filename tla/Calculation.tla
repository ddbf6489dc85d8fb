----------------------------- MODULE Calculation -----------------------------
(***************************************************************************)
(* The auditable calculation of a banking dispute (domain/calculation.py,  *)
(* domain/extraction.py, domain/proposal.py, routes/calculation.py): a     *)
(* model reads the documents, the parties correct what it read, the memory *)
(* of calculation is built from the inputs, and a guard takes out of the   *)
(* offers of composition every term in which it reads a figure the memory  *)
(* does not hold.  Money is in cents, a monthly rate of r stands for       *)
(* r / RateBase, a percentage in a text is in hundredths of a percent.     *)
(***************************************************************************)
EXTENDS Integers, Sequences, FiniteSets

CONSTANTS
    RateBase,           \* a rate of RateBase is 100% a month
    MAX_INSTALLMENTS,
    MaxDocSize,         \* MAX_DOC_CHARS
    MaxTotalSize,       \* MAX_TOTAL_CHARS
    Volumes,            \* sizes of the admitted documents to try, sequences
    Readings,           \* what the model may extract
    Corrections,        \* what a party may send: [fields, fees, applies]
    Percents,           \* the concession the model may ask for, or Missing
    Drafts,             \* the terms it may write: sets of sets of writings
    MonthlyOf,          \* monthly_from_annual, for the annual rates tried
    MaxRounds           \* bound: rounds of composition with an offer

MIN_SETTLEMENT_PERCENT == 50
Missing == -1
Subjects == {"principal", "installments", "rate", "average", "paid"}
Fields == Subjects \cup {"annual"}

FeeLine == [amount : Int, questionable : BOOLEAN]

ASSUME CalculationAssumption ==
    /\ RateBase \in Nat \ {0} /\ MAX_INSTALLMENTS \in Nat \ {0} /\ MaxRounds \in Nat
    /\ MaxDocSize \in Nat /\ MaxTotalSize \in Nat /\ Volumes \subseteq Seq(Nat)
    /\ Readings \subseteq [value : [Fields -> Int], fees : Seq(FeeLine), inScope : BOOLEAN]
    /\ \A c \in Corrections :
          /\ DOMAIN c.fields \subseteq Fields /\ \A f \in DOMAIN c.fields : c.fields[f] \in Nat
          /\ "annual" \in DOMAIN c.fields => MonthlyOf[c.fields["annual"]] \in Nat
          /\ c.fees \subseteq Seq(FeeLine) /\ c.applies \subseteq BOOLEAN
    /\ Percents \subseteq Int

VARIABLES
    calculation,    \* calculation_json
    reading,        \* the extraction in flight
    composing,      \* the composition in flight: the calculation it has read
    offers,         \* the offers of the rounds
    closed,         \* the consensual phase is over: agreement or organized
    remedy,         \* the value of the decision set against the memory
    said,           \* history: what the parties last gave for each subject
    raced,          \* history: the subjects last corrected during a reading
    late            \* history: a reading was saved after the phase was over
calculationVars == <<calculation, reading, composing, offers, closed, remedy, said, raced, late>>

-----------------------------------------------------------------------------
(***************************************************************************)
(* The arithmetic.                                                         *)
(***************************************************************************)
(* to_minor: half up. *)
RoundHalfUp(num, den) == (2 * num + den) \div (2 * den)

Power(base, n) ==
    LET p[i \in Nat] == IF i = 0 THEN 1 ELSE base * p[i - 1] IN p[n]

(* PMT = PV i / (1 - (1 + i)^-n) *)
Price(principal, r, n) ==
    IF r = 0 THEN RoundHalfUp(principal, n)
    ELSE RoundHalfUp(principal * r * Power(RateBase + r, n),
                     RateBase * (Power(RateBase + r, n) - Power(RateBase, n)))

Sum(fees) == LET s[i \in 0..Len(fees)] ==
                     IF i = 0 THEN 0
                     ELSE s[i - 1] + (IF fees[i].questionable THEN fees[i].amount ELSE 0)
             IN s[Len(fees)]

(* normalize_inputs: a monthly rate counts before an annual one... *)
Rate(in) ==
    IF in.value["rate"] # Missing THEN in.value["rate"]
    ELSE IF in.value["annual"] # Missing THEN MonthlyOf[in.value["annual"]] ELSE Missing

(* ... and CalculationError is raised otherwise. *)
Calculable(in) ==
    /\ in.value["principal"] > 0
    /\ in.value["installments"] \in 1..MAX_INSTALLMENTS
    /\ Rate(in) \in 1..RateBase /\ in.value["average"] \in 1..RateBase
    /\ in.value["paid"] \in 0..in.value["installments"]
    /\ \A i \in DOMAIN in.fees : in.fees[i].amount >= 0

NoMemory == [contract |-> 0, average |-> 0, gap |-> 0, interest |-> 0, refund |-> 0,
             total |-> 0, remaining |-> 0, installment |-> 0, lines |-> {}]

(* build_calculation *)
BuildCalculation(in) ==
    LET v == in.value
        contract == Price(v["principal"], Rate(in), v["installments"])
        average == Price(v["principal"], v["average"], v["installments"])
        gap == IF in.applies /\ contract > average THEN contract - average ELSE 0
        interest == gap * v["paid"]
        refund == Sum(in.fees)
        counted == {IF in.fees[i].questionable THEN in.fees[i].amount ELSE 0 :
                        i \in DOMAIN in.fees}
        installment == IF in.applies THEN average ELSE contract
    IN [contract |-> contract, average |-> average, gap |-> gap, interest |-> interest,
        refund |-> refund, total |-> interest + refund,
        remaining |-> v["installments"] - v["paid"], installment |-> installment,
        lines |-> counted \cup {contract, average, gap, interest, refund,
                                interest + refund, installment}]

(* derive_state *)
Derived(in, inScope, edited) ==
    LET status == IF ~inScope THEN "abstained"
                  ELSE IF Calculable(in) THEN "ready" ELSE "needs_inputs"
    IN [status |-> status, inputs |-> in, inScope |-> inScope, edited |-> edited,
        memory |-> IF status = "ready" THEN BuildCalculation(in) ELSE NoMemory]

-----------------------------------------------------------------------------
(***************************************************************************)
(* Inputs: read by the model, then corrected.                              *)
(***************************************************************************)
NoInputs == [value |-> [f \in Fields |-> Missing], applies |-> TRUE, fees |-> <<>>,
             origin |-> [f \in Subjects \cup {"fees"} |-> IF f = "average" THEN "parte" ELSE "ia"]]
NoCalculation == [status |-> "unavailable", inputs |-> NoInputs, inScope |-> TRUE,
                  edited |-> FALSE, memory |-> NoMemory]

(* inputs_from_extraction: the average rate is never read.  The citations  *)
(* beside the values, which no rule reads, are left out.                   *)
Extracted(r) ==
    [NoInputs EXCEPT !.value = [r.value EXCEPT !["average"] = Missing], !.fees = r.fees]

(* _safe_fallback: what is saved when the model does not answer. *)
NothingRead ==
    [value |-> [f \in Fields |-> Missing], fees |-> <<>>, inScope |-> TRUE]

(* apply_party_edits: c.fields is a function on the fields sent, c.fees the *)
(* list sent, if any, and c.applies whether the review of interest was     *)
(* admitted, if sent.  A rate of one kind replaces that of the other, the  *)
(* annual one when both are sent.                                          *)
Subject(f) == IF f = "annual" THEN "rate" ELSE f
Edited(c) == {Subject(f) : f \in DOMAIN c.fields}
Replaced(c) ==
    IF "annual" \in DOMAIN c.fields THEN {"rate"}
    ELSE IF "rate" \in DOMAIN c.fields THEN {"annual"} ELSE {}
ApplyPartyEdits(in, c) ==
    [in EXCEPT
        !.value = [f \in Fields |-> IF f \in Replaced(c) THEN Missing
                                    ELSE IF f \in DOMAIN c.fields THEN c.fields[f]
                                    ELSE in.value[f]],
        !.origin = [f \in Subjects \cup {"fees"} |->
                        IF f \in Edited(c) \/ (f = "fees" /\ c.fees # {}) THEN "parte"
                        ELSE in.origin[f]],
        !.applies = IF c.applies = {} THEN in.applies ELSE CHOOSE yes \in c.applies : TRUE,
        !.fees = IF c.fees = {} THEN in.fees ELSE CHOOSE list \in c.fees : TRUE]

(***************************************************************************)
(* build_extraction_context: what is left of the budget before document i, *)
(* which is sent as far as its limit goes; the loop breaks, and the rest   *)
(* is not sent, once nothing is left.                                      *)
(***************************************************************************)
Least(m, n) == IF m > n THEN n ELSE m
Budget(sizes) ==
    LET left[i \in 1..(Len(sizes) + 1)] ==
            IF i = 1 THEN MaxTotalSize
            ELSE left[i - 1] - Least(sizes[i - 1], Least(MaxDocSize, left[i - 1]))
    IN left
Limit(sizes, i) == Least(MaxDocSize, Budget(sizes)[i])
Spent(sizes, i) == Budget(sizes)[i + 1] <= 0
Reached(sizes, i) == \A j \in 1..(i - 1) : ~Spent(sizes, j)
Parts(sizes) ==
    [i \in DOMAIN sizes |-> IF Reached(sizes, i) THEN Least(sizes[i], Limit(sizes, i)) ELSE 0]
Truncated(sizes) ==
    \E i \in DOMAIN sizes :
        Reached(sizes, i) /\ (sizes[i] > Limit(sizes, i) \/ Spent(sizes, i))

-----------------------------------------------------------------------------
(***************************************************************************)
(* Offers.                                                                 *)
(***************************************************************************)
(* scenario: the concession stays between the floor and the whole. *)
Clamp(percent) ==
    IF percent = Missing \/ percent > 100 THEN 100
    ELSE IF percent < MIN_SETTLEMENT_PERCENT THEN MIN_SETTLEMENT_PERCENT ELSE percent
Scenario(memory, percent) ==
    [percent |-> Clamp(percent), amount |-> (memory.total * Clamp(percent) + 50) \div 100]

(* allowed_figures; format_rate, with the two decimals it is written with *)
Hundredths(r) == RoundHalfUp(10000 * r, RateBase)
Above(in) == 100 * RoundHalfUp(100 * (Rate(in) - in.value["average"]), in.value["average"])
AllowedFigures(c, percents) ==
    LET in == c.inputs
    IN {<<"percent", 100 * p>> : p \in percents} \cup
       IF c.status # "ready" THEN {}
       ELSE {<<"money", m>> : m \in c.memory.lines \cup {in.value["principal"]}}
            \cup {<<"percent", Hundredths(r)>> : r \in {Rate(in), in.value["average"]}}
            \cup (IF Rate(in) >= in.value["average"] THEN {<<"percent", Above(in)>>} ELSE {})

(***************************************************************************)
(* A term is a set of writings, each with its kind, its value and its      *)
(* form: "platform" as format_brl and format_rate write it, "loose" with   *)
(* no dot between thousands or without the zeros its decimals end in,      *)
(* "words" without the sign the guard looks for.  A writing is not always  *)
(* read as it was meant: _AMOUNT stops at three digits without a dot, and  *)
(* _PERCENT reads 9,8% as another text than 9,80%, and never a minus sign. *)
(***************************************************************************)
Leading(n) == LET lead[k \in Nat] == IF k < 1000 THEN k ELSE lead[k \div 10] IN lead[n]
ReadFrom(w) ==
    IF w.form = "words" THEN {}
    ELSE IF w.form = "loose" /\ w.kind = "money" /\ w.value >= 100000
         THEN {<<"money", 100 * Leading(w.value \div 100)>>}
    ELSE IF w.form = "loose" /\ w.kind = "percent" /\ w.value % 100 # 0 /\ w.value % 10 = 0
         THEN {<<"percent", Missing>>}
    ELSE {<<w.kind, w.value>>}
FiguresOf(term) == UNION {ReadFrom(w) : w \in term}

(* Mutant: a term is kept when any of its figures is known. *)
GuardTermsByAny(terms, c, percents) ==
    {t \in terms : FiguresOf(t) \cap AllowedFigures(c, percents) # {}}

(* guard_terms: a term with one figure out of the memory is left out. *)
GuardTerms(terms, c, percents) ==
    {t \in terms : FiguresOf(t) \subseteq AllowedFigures(c, percents)}

NoOffer == [percent |-> 0, amount |-> 0]

(* attach_calculation_to_round *)
AttachToRound(c, percent, terms, number) ==
    LET chosen == IF c.status # "ready" THEN NoOffer
                  ELSE Scenario(c.memory, IF number > 1 THEN percent ELSE Missing)
        allowed == IF c.status = "ready" THEN {chosen.percent} ELSE {}
    IN [status |-> c.status, offer |-> chosen, memory |-> c.memory, inputs |-> c.inputs,
        terms |-> GuardTerms(terms, c, allowed)]

-----------------------------------------------------------------------------
NoJob == [running |-> FALSE, sizes |-> <<>>, sent |-> <<>>, truncated |-> FALSE]
NotComposing == [running |-> FALSE, read |-> NoCalculation]
NoRemedy == [value |-> Missing, total |-> Missing, differs |-> FALSE]

CalculationTypeOK ==
    /\ calculation.status \in {"unavailable", "abstained", "needs_inputs", "ready"}
    /\ calculation.inputs.origin \in [Subjects \cup {"fees"} -> {"ia", "parte"}]
    /\ reading.running \in BOOLEAN /\ reading.truncated \in BOOLEAN
    /\ composing.running \in BOOLEAN /\ Len(offers) <= MaxRounds
    /\ closed \in BOOLEAN /\ late \in BOOLEAN /\ raced \subseteq Subjects
    /\ said \in [Subjects -> Nat \cup {Missing}]

CalculationInit ==
    /\ calculation = NoCalculation /\ reading = NoJob /\ composing = NotComposing
    /\ offers = <<>> /\ closed = FALSE /\ remedy = NoRemedy
    /\ said = [f \in Subjects |-> Missing] /\ raced = {} /\ late = FALSE

(* extract_calculation: refused once the parties have corrected something. *)
MayExtract == ~closed /\ ~calculation.edited /\ ~reading.running
Extract(sizes) ==
    /\ MayExtract
    /\ reading' = [running |-> TRUE, sizes |-> sizes, sent |-> Parts(sizes),
                   truncated |-> Truncated(sizes)]
    /\ UNCHANGED <<calculation, composing, offers, closed, remedy, said, raced, late>>

(* ... and its work writes the whole column, whatever happened meanwhile. *)
SaveExtraction(r) ==
    /\ reading.running
    /\ reading' = NoJob
    /\ calculation' = Derived(Extracted(r), r.inScope, FALSE)
    /\ late' = (late \/ closed)
    /\ UNCHANGED <<composing, offers, closed, remedy, said, raced>>

(* The job fails elsewhere: nothing is saved. *)
ExtractionFails ==
    /\ reading.running /\ reading' = NoJob
    /\ UNCHANGED <<calculation, composing, offers, closed, remedy, said, raced, late>>

(* correct_calculation_inputs *)
Correct(c) ==
    /\ ~closed
    /\ calculation' = Derived(ApplyPartyEdits(calculation.inputs, c), calculation.inScope, TRUE)
    /\ said' = [f \in Subjects |->
                    IF f \notin Edited(c) THEN said[f]
                    ELSE IF f = "rate" /\ "annual" \in DOMAIN c.fields
                         THEN MonthlyOf[c.fields["annual"]]
                    ELSE c.fields[f]]
    /\ raced' = IF reading.running THEN raced \cup Edited(c) ELSE raced \ Edited(c)
    /\ UNCHANGED <<reading, composing, offers, closed, remedy, late>>

(* assess_case_conciliation takes the calculation with the case... *)
Compose ==
    /\ ~closed /\ ~composing.running /\ Len(offers) < MaxRounds
    /\ composing' = [running |-> TRUE, read |-> calculation]
    /\ UNCHANGED <<calculation, reading, offers, closed, remedy, said, raced, late>>

(* ... and its work attaches it to the round. *)
SaveOffer(percent, terms) ==
    /\ composing.running
    /\ offers' = Append(offers, AttachToRound(composing.read, percent, terms, Len(offers) + 1))
    /\ composing' = NotComposing
    /\ UNCHANGED <<calculation, reading, closed, remedy, said, raced, late>>

(* organize_case, or the second acceptance of an agreement. *)
CloseConsensual ==
    /\ ~closed /\ ~composing.running
    /\ closed' = TRUE
    /\ UNCHANGED <<calculation, reading, composing, offers, remedy, said, raced, late>>

(* attach_calculation_to_decision: the memory prevails. *)
DecideRemedy(value) ==
    /\ closed /\ remedy = NoRemedy /\ calculation.status = "ready"
    /\ remedy' = [value |-> value, total |-> calculation.memory.total,
                  differs |-> value \notin {Missing, calculation.memory.total}]
    /\ UNCHANGED <<calculation, reading, composing, offers, closed, said, raced, late>>

CalculationNext ==
    \/ \E sizes \in Volumes : Extract(sizes)
    \/ \E r \in Readings \cup {NothingRead} : SaveExtraction(r)
    \/ ExtractionFails \/ Compose \/ CloseConsensual
    \/ \E c \in Corrections : Correct(c)
    \/ \E p \in Percents, terms \in Drafts : SaveOffer(p, terms)
    \/ \E v \in {Missing, calculation.memory.total, calculation.memory.total + 1} : DecideRemedy(v)

CalculationSpec == CalculationInit /\ [][CalculationNext]_calculationVars

-----------------------------------------------------------------------------
(* The memory closes, to the cent, with the account of who checks it by    *)
(* hand: it is that of the present inputs, a difference exists only if the *)
(* contract's rate is above the average, the installments pay the principal *)
(* back, and nobody is refunded more than the paid installments and the    *)
(* questioned fees.                                                        *)
MemoryHolds ==
    calculation.status = "ready" =>
        LET m == calculation.memory v == calculation.inputs.value r == Rate(calculation.inputs) IN
        /\ m = BuildCalculation(calculation.inputs)
        /\ m.gap > 0 => r > v["average"] /\ calculation.inputs.applies
        /\ r > v["average"] => m.contract >= m.average
        /\ 2 * m.contract * v["installments"] >= 2 * v["principal"] - v["installments"]
        /\ m.total <= m.contract * v["paid"] + m.refund

(* What a round may quote: the lines of its own memory, the principal, its *)
(* concession, the two rates and by how much one is above the other.       *)
Quotable(o) ==
    LET r == Rate(o.inputs) average == o.inputs.value["average"] IN
    {<<"money", m>> : m \in o.memory.lines \cup {o.inputs.value["principal"]}}
    \cup {<<"percent", p>> : p \in {100 * o.offer.percent, Hundredths(r), Hundredths(average)}}
    \cup (IF r >= average THEN {<<"percent", Above(o.inputs)>>} ELSE {})

(* A round shows one calculation, whole, whatever was corrected or read    *)
(* while it was composed; the first offers the total, none less than half  *)
(* of it; and no figure of its terms is born of the model, as far as the   *)
(* guard can read: all it reads is of the round's own memory, and so is    *)
(* every figure written as the platform writes it.  Without a memory a     *)
(* term holds no such figure at all.                                       *)
OffersHold ==
    \A i \in DOMAIN offers :
        LET o == offers[i] IN
        /\ o.status = "ready" => o.memory = BuildCalculation(o.inputs)
        /\ o.offer.amount <= o.memory.total /\ 2 * o.offer.amount >= o.memory.total
        /\ i = 1 => o.offer.amount = o.memory.total
        /\ \A t \in o.terms :
              /\ FiguresOf(t) # {} => o.status = "ready" /\ FiguresOf(t) \subseteq Quotable(o)
              /\ \A w \in t : w.form = "platform" =>
                    o.status = "ready" /\ <<w.kind, w.value>> \in Quotable(o)

(* What a party last said of a subject is what the memory counts and says  *)
(* is hers, except what was corrected while a reading was in flight; even  *)
(* then nothing read stands under a party's name.  A reading in flight is  *)
(* also the only thing that moves the memory after the phase is over.  And *)
(* a reading that is not marked as truncated was given every document, to  *)
(* its end.                                                                *)
Counted(in, f) == IF f = "rate" THEN Rate(in) ELSE in.value[f]
CorrectionsStand ==
    LET in == calculation.inputs IN
    /\ \A f \in Subjects :
          /\ said[f] # Missing /\ f \notin raced =>
                Counted(in, f) = said[f] /\ in.origin[f] = "parte"
          /\ in.origin[f] = "parte" =>
                Counted(in, f) = said[f] \/ (f = "average" /\ Counted(in, f) = Missing)
    /\ remedy # NoRemedy /\ ~late => remedy.total = calculation.memory.total
    /\ ~reading.truncated => reading.sent = reading.sizes

CalculationInv == CalculationTypeOK /\ MemoryHolds /\ OffersHold /\ CorrectionsStand
=============================================================================
