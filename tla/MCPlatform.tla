------------------------------ MODULE MCPlatform ------------------------------
(***************************************************************************)
(* One run of the machines that share no variable with each other: the     *)
(* behaviour chooses one (focus) and the others keep one initial state.    *)
(***************************************************************************)
EXTENDS Notifications, RateLimiter, StageJobs, Accounts, ArbitrationPact, Calculation,
        DecisionChecks, ModelSelection, AuditTrail

VARIABLE focus

Machines == {"notices", "limiter", "jobs", "accounts", "pact", "calculation", "checks",
             "selection", "audit"}

-----------------------------------------------------------------------------
(* Notices. *)
Event(type, party, holds) == [type |-> type, party |-> party, holds |-> holds]
MCFacts ==
    {[kind |-> "act", event |-> Event("response_submitted", "claimant", TRUE)],
     [kind |-> "reminder", event |-> Event("evidence_disclosed", "respondent", TRUE)]}

(* The scan tells a fact while it holds; a fact is one stretch of time, as *)
(* FactMoves has it, and only the material without an answer has no end.   *)
Stretch(holds(_), last) ==
    \A s, t \in 0..last : s < t /\ holds(s) /\ holds(t) => \A n \in s..t : holds(n)
ASSUME RemindersAreStretches ==
    /\ \A ends, issued \in 0..8, contested \in BOOLEAN, n \in 0..2 :
          LET c == [status |-> "attested", windowEnds |-> ends, issued |-> issued,
                    contested |-> contested, acceptances |-> n]
              Closing(now) == ContestClosing(c, now, 2)
              Over(now) == ReflectionOver(c, now, 3)
          IN Stretch(Closing, 10) /\ Stretch(Over, 10) /\ ~Closing(10) /\ ~Over(10)
    /\ \A due \in 0..8, kind \in {"due", "overdue"} :
          LET d == [completed |-> FALSE, due |-> due]
              Told(now) == /\ DeadlineOpen(d, "locked", now, 2, 3)
                           /\ DeadlineKind(d, now) = kind
          IN Stretch(Told, 12) /\ ~Told(12)
    /\ \A expires \in 0..8 :
          LET i == [status |-> "pending", expires |-> expires]
              Told(now) == InvitationExpiring(i, now, 2)
          IN Stretch(Told, 10) /\ ~Told(10)
    /\ \A disclosed \in -1..4 :
          LET m == [response |-> "pending", admitted |-> FALSE, disclosed |-> disclosed]
              Told(now) == Stalled(m, "open", FALSE, now, 2)
          IN Stretch(Told, 8) /\ (Told(8) <=> disclosed # -1)

-----------------------------------------------------------------------------
(* The pact: a consumer's lawsuit, an ordinary claim, and a filing refused. *)
Files(entry, court, matter) ==
    [entry |-> entry, court |-> court, consumerMatter |-> matter, consumer |-> "none"]
MCFilings == {Files("pending_lawsuit", TRUE, TRUE), Files("pre_litigation", FALSE, FALSE),
              Files("pre_litigation", TRUE, FALSE)}

-----------------------------------------------------------------------------
(* Calculation: R$ 101,01 in three installments at 40% a month against 20%. *)
Reading(rate, annual, paid, fees, inScope) ==
    [value |-> [f \in Fields |-> CASE f = "principal" -> 10101 [] f = "installments" -> 3
                                   [] f = "rate" -> rate [] f = "annual" -> annual
                                   [] f = "paid" -> paid [] OTHER -> 2],
     fees |-> fees, inScope |-> inScope]
Fee(amount, questionable) == [amount |-> amount, questionable |-> questionable]
MCReadings == {Reading(4, 36, 2, <<Fee(10100, TRUE)>>, TRUE), Reading(4, Missing, 2, <<>>, FALSE)}
MCCorrections ==
    {[fields |-> [rate |-> 4, average |-> 2], fees |-> {}, applies |-> {}],
     [fields |-> [annual |-> 36, paid |-> 3], fees |-> {<<Fee(9, FALSE), Fee(6, TRUE)>>},
      applies |-> {FALSE}]}
MCMonthlyOf == [annual \in {36} |-> 1]
MCVolumes == {<<1, 1>>, <<2, 1, 1>>}
Money(value, form) == [kind |-> "money", value |-> value, form |-> form]
Percentage(value, form) == [kind |-> "percent", value |-> value, form |-> form]
MCDrafts ==
    {{{Money(10100, "platform")}, {Money(700, "platform")}, {Money(700, "words")},
      {Money(10100, "loose")}, {Money(1010000, "loose")}, {Money(7500000, "loose")},
      {Percentage(5000, "platform"), Money(10101, "platform")},
      {Percentage(4000, "platform"), Percentage(2000, "loose")},
      {Percentage(10000, "platform")}, {Percentage(4050, "loose")}}}

-----------------------------------------------------------------------------
(* Checks: decisions that differ from a sound one in a reference, in the   *)
(* findings and rules, or in the calculation.                              *)
Good == [document |-> "d1", documentHash |-> TRUE, chunk |-> "c1", chunkHash |-> TRUE,
         quote |-> "locked", offsets |-> "none", quoteHash |-> TRUE]
MCRefs ==
    {[Good EXCEPT !.document = d, !.chunk = c, !.quote = q] :
        d \in {"d1", "d2", "d3"}, c \in {"c1", "c2", "c3", "c4"}, q \in {"locked", "altered"}}
    \cup {[Good EXCEPT !.documentHash = FALSE], [Good EXCEPT !.chunkHash = FALSE],
          [Good EXCEPT !.offsets = "wrong"], [Good EXCEPT !.quoteHash = FALSE]}
Finding(id, status, evidence, counter) ==
    [id |-> id, status |-> status, evidence |-> evidence, counter |-> counter]
Proof1 == Finding("f1", "established", {Good}, {})
Apply(rule, uses) == [rule |-> rule, uses |-> uses]
Input(value, currency, refs) == [value |-> value, currency |-> currency, refs |-> refs]
Calc(formula, inputs, result) ==
    [formula |-> formula, inputs |-> inputs, result |-> result, currency |-> "BRL"]
Plain == [outcome |-> "claimant", bps |-> NoBps, findings |-> <<Proof1>>,
          applications |-> {Apply("general", {"f1"})}, calc |-> NoCalc, framework |-> TRUE,
          abstains |-> "no"]
ByReference ==
    UNION {{[Plain EXCEPT !.findings = <<Finding("f1", "established", {r}, {})>>],
            [Plain EXCEPT !.findings = <<Proof1, Finding("f2", "disputed", {}, {r})>>],
            [Plain EXCEPT !.calc = Calc("first", <<Input(5, "BRL", {r})>>, 5)]} : r \in MCRefs}
ByShape ==
    [outcome : {"claimant", "respondent", "partial", "inconclusive"}, bps : {NoBps, 5000},
     findings : {<<>>, <<Proof1>>, <<Proof1, Proof1>>, <<Finding("f1", "established", {}, {})>>,
                 <<Finding("f1", "not_established", {}, {})>>},
     applications : {{}} \cup {{Apply(r, {"f1"})} : r \in {"general", "narrow", "none"}}
                    \cup {{Apply("general", u)} : u \in {{}, {"f9"}}},
     calc : {NoCalc}, framework : {TRUE}, abstains : {"no", "out_of_scope"}]
    \cup {[Plain EXCEPT !.framework = FALSE],
          [Plain EXCEPT !.outcome = "inconclusive", !.abstains = "provider_unavailable"],
          [Plain EXCEPT !.outcome = "inconclusive", !.abstains = "integrity"]}
ByCalculation ==
    {[Plain EXCEPT !.outcome = o, !.bps = b,
                   !.calc = Calc(f, <<Input(x, "BRL", {Good}), Input(y, "BRL", refs)>>, res)] :
        o \in {"claimant", "partial", "inconclusive"}, b \in {0, 5000}, f \in {"first", "ratio"},
        x \in {3, 5}, y \in {-2, 0, 2}, refs \in {{}, {Good}}, res \in {-2, 2, 3}}
    \cup {[Plain EXCEPT !.calc = c] :
             c \in {Calc("first", <<>>, 5), Calc("other", <<Input(5, "BRL", {Good})>>, 5),
                    Calc("first", <<Input(5, "USD", {Good})>>, 5)}}
MCDecisions == ByReference \cup ByShape \cup ByCalculation
MCRules == [general |-> ExecutableOutcomes, narrow |-> {"respondent"}]
MCDocumentOf == [c1 |-> "d1", c2 |-> "d2", c3 |-> "d1", c4 |-> "d2"]
MCAgreements == {Dimensions, {"outcome", "rules", "remedy"}, {"findings", "remedy", "rules"}}

-----------------------------------------------------------------------------
(* Selection: three families and a model of none. *)
MCModels == {"a1", "a2", "b1", "c1", "x1"}
MCVendorOf == [a1 |-> "a", a2 |-> "a", b1 |-> "b", c1 |-> "c", x1 |-> "unknown"]
Seats(judge, reviewer, appeal) == [judge |-> judge, reviewer |-> reviewer, appeal |-> appeal]
MCRankings ==
    {Seats(judges, others, others) : <<judges, others>> \in
        {<<<<"a1", "a2", "b1", "c1", "x1">>, <<"a2", "b1", "a1", "c1", "x1">>>>,
         <<<<"x1", "a1", "b1", "c1">>, <<"b1", "x1", "a1", "c1">>>>,
         <<<<"a1", "b1">>, <<"b1", "a1">>>>}}
AllOf(provider) == Seats(provider, provider, provider)
Configured(models, providers, pins, default, fallback) ==
    [model |-> models, provider |-> providers, pins |-> pins, default |-> default,
     fallback |-> fallback]
MCDefault == Configured(Seats("a1", "b1", "c1"), AllOf(OpenRouter), {}, OpenRouter, NoSeat)
MCSettings ==
    {MCDefault,
     Configured(Seats("a1", "a2", "b1"), AllOf(OpenRouter), {"reviewer"}, OpenRouter,
                [provider |-> "openai", model |-> "a1"]),
     Configured(Seats("a1", "b1", "a2"), Seats(OpenRouter, OpenRouter, "openai"),
                {"judge", "appeal"}, OpenRouter, NoSeat),
     Configured(Seats("a1", "b1", "a2"), AllOf("openai"), {"judge", "appeal"}, "openai", NoSeat),
     Configured(Seats("b1", "b1", "b1"), Seats("openai", "openai", OpenRouter),
                {"judge", "appeal"}, "openai", NoSeat)}

-----------------------------------------------------------------------------
(* A machine out of focus has one initial state. *)

Init ==
    /\ focus \in Machines
    /\ NoticesInit /\ LimiterInit /\ JobsInit /\ AccountsInit /\ PactInit
    /\ CalculationInit /\ ChecksInit /\ SelectionInit /\ AuditInit
    /\ focus # "notices" => /\ ~smooth /\ ~smtp /\ \A p \in Parties : account[p] = "active"
                            /\ \A f \in Facts : fact[f] = "past"
    /\ focus # "limiter" => limiter = [backend |-> "redis", capacity |-> 1, lag |-> 0]
    /\ focus # "jobs" => steady
    /\ focus # "pact" => calm /\ pact.entry = "pre_litigation"
    /\ ~calm => pact.entry = "pending_lawsuit"
    /\ focus # "checks" => ~altered /\ ~stability.enabled
    /\ focus # "selection" => /\ settings = MCDefault
                              /\ ranking["judge"] = <<"a1", "b1">>
    /\ focus # "audit" => engine = "sqlite"

vars == <<focus, noticeVars, limiterVars, jobVars, accountVars, pactVars, calculationVars,
          checkVars, selectionVars, auditVars>>

OtherMachinesRest ==
    /\ UNCHANGED focus
    /\ focus # "notices" => UNCHANGED noticeVars
    /\ focus # "limiter" => UNCHANGED limiterVars
    /\ focus # "jobs" => UNCHANGED jobVars
    /\ focus # "accounts" => UNCHANGED accountVars
    /\ focus # "pact" => UNCHANGED pactVars
    /\ focus # "calculation" => UNCHANGED calculationVars
    /\ focus # "checks" => UNCHANGED checkVars
    /\ focus # "selection" => UNCHANGED selectionVars
    /\ focus # "audit" => UNCHANGED auditVars

Next ==
    \/ focus = "notices" /\ NoticesNext /\ OtherMachinesRest
    \/ focus = "limiter" /\ LimiterNext /\ OtherMachinesRest
    \/ focus = "jobs" /\ JobsNext /\ OtherMachinesRest
    \/ focus = "accounts" /\ AccountsNext /\ OtherMachinesRest
    \/ focus = "pact" /\ PactNext /\ OtherMachinesRest
    \/ focus = "calculation" /\ CalculationNext /\ OtherMachinesRest
    \/ focus = "checks" /\ ChecksNext /\ OtherMachinesRest
    \/ focus = "selection" /\ SelectionNext /\ OtherMachinesRest
    \/ focus = "audit" /\ AuditNext /\ OtherMachinesRest

Spec == Init /\ [][Next]_vars /\ NoticesFairness
=============================================================================
