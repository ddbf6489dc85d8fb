---------------------------- MODULE ModelSelection ----------------------------
(***************************************************************************)
(* Which model judges, which reviews and which rebuilds (llm/selection.py, *)
(* llm/models.py, core/manifest.py lock_case_manifest, llm/registry.py):   *)
(* a ranking per stage that leaves out the families already taken, the     *)
(* operator's pins, the proposal of a selector agent, the repair of what   *)
(* it repeats, and the policy sealed in the manifest that every later call *)
(* obeys whatever the settings become.  A model is reached through a       *)
(* provider; only between two models of OpenRouter does the code compare   *)
(* families when it asks for another judge.  The stages that need no       *)
(* independence (conciliator, organizer, embedding) are left out.          *)
(***************************************************************************)
EXTENDS Integers, Sequences, FiniteSets, Excerpts

CONSTANTS
    Models,             \* eligible models of the catalog
    VendorOf,           \* model_vendor of each, "unknown" for some
    Providers,          \* who serves the models: openrouter, openai
    Rankings,           \* the order of the catalog for each stage, to try
    SettingsTried,      \* the configurations to try
    SHORTLIST_SIZE

NoModel == "none"
Panel == {"judge", "reviewer", "appeal"}

OpenRouter == "openrouter"

(* A model with the provider it is asked of. *)
Seat == [provider : Providers, model : Models]
NoSeat == [provider |-> "none", model |-> NoModel]

(* What the process is configured with: the pair of each stage, the stages *)
(* whose model the operator pinned, the provider of every stage the lock   *)
(* chooses for, and the explicit fallback, if any.                         *)
Configurations == [model : [Panel -> Models], provider : [Panel -> Providers],
                   pins : SUBSET Panel, default : Providers, fallback : Seat \cup {NoSeat}]
Listed(list) == {list[i] : i \in DOMAIN list}

(* The three stages ask the same of a model, so they rank the same models; *)
(* the reviewer and the appeal weigh them alike (llm/stage_requirements).  *)
ASSUME SelectionAssumption ==
    /\ NoModel \notin Models /\ SHORTLIST_SIZE \in Nat \ {0}
    /\ \A m \in Models : VendorOf[m] \in STRING
    /\ SettingsTried \subseteq Configurations
    /\ \A r \in Rankings : /\ r \in [Panel -> Seq(Models)]
                          /\ Listed(r["judge"]) = Listed(r["reviewer"])
                          /\ r["reviewer"] = r["appeal"]

VARIABLES
    ranking,    \* of each stage, the eligible models by score
    settings,   \* the configuration of the process
    policy,     \* the model policy of the locked manifest, or NoPolicy
    ran         \* who answered for each stage, and whether as fallback
selectionVars == <<ranking, settings, policy, ran>>

NoPolicy == [sealed |-> FALSE]
NotRun == [seat |-> NoSeat, fellBack |-> FALSE]

SelectionTypeOK ==
    /\ settings \in Configurations
    /\ policy.sealed => /\ policy.model \in [Panel -> Models]
                        /\ policy.provider \in [Panel -> Providers]
                        /\ policy.independent \in BOOLEAN
    /\ ran \in [Panel -> [seat : Seat \cup {NoSeat}, fellBack : BOOLEAN]]

SelectionInit ==
    /\ ranking \in Rankings /\ settings \in SettingsTried
    /\ policy = NoPolicy /\ ran = [a \in Panel |-> NotRun]

-----------------------------------------------------------------------------
(* families_are_independent: unknown families compare by model. *)
FamiliesAreIndependent(m, n) ==
    IF "unknown" \in {VendorOf[m], VendorOf[n]} THEN m # n ELSE VendorOf[m] # VendorOf[n]

(***************************************************************************)
(* pick_from_rank: stage after stage, leaving out the vendors taken.  An   *)
(* agent with nothing left keeps the model and provider of the settings,   *)
(* every other is asked of the default provider.                           *)
(***************************************************************************)
Outside(list, families) ==
    Excerpt(list, {i \in DOMAIN list : VendorOf[list[i]] \notin families})
RankStage(a, taken) == Outside(ranking[a], taken)
First(list, a) ==
    IF a \in settings.pins \/ list = <<>> THEN settings.model[a] ELSE list[1]
Through(list, a) ==
    IF a \in settings.pins \/ list # <<>> THEN settings.default ELSE settings.provider[a]
Taken(a, list, pick) ==
    IF a \notin settings.pins /\ list = <<>> THEN {} ELSE {VendorOf[pick]}
Shortlist(list) ==
    SubSeq(list, 1, IF Len(list) < SHORTLIST_SIZE THEN Len(list) ELSE SHORTLIST_SIZE)

PickFromRank ==
    LET judges == RankStage("judge", {})
        judge == First(judges, "judge")
        taken == Taken("judge", judges, judge)
        reviewers == RankStage("reviewer", taken)
        reviewer == First(reviewers, "reviewer")
        appeals == RankStage("appeal", taken \cup Taken("reviewer", reviewers, reviewer))
        lists == [judge |-> judges, reviewer |-> reviewers, appeal |-> appeals]
    IN [model |-> [judge |-> judge, reviewer |-> reviewer, appeal |-> First(appeals, "appeal")],
        provider |-> [a \in Panel |-> Through(lists[a], a)],
        short |-> [a \in Panel |-> Shortlist(lists[a])]]

(* validate_selection: of what the selector proposes only the shortlist,   *)
(* and no pin is touched...                                                *)
Proposed(pick, proposal) ==
    [a \in Panel |-> IF a \notin settings.pins /\ proposal[a] \in Listed(pick.short[a])
                     THEN proposal[a] ELSE pick.model[a]]

(* ... and _replace_if_same_family: the best of another family, if any. *)
ReplaceIfSameFamily(model, short, a, forbidden) ==
    LET blocked == forbidden \ {"unknown"}
        others == Outside(short[a], blocked)
    IN IF a \in settings.pins \/ VendorOf[model[a]] \notin blocked \/ others = <<>>
       THEN model ELSE [model EXCEPT ![a] = others[1]]

(* Mutant: the model of the appeal is compared with the judge's only. *)
ValidateAgainstJudge(pick, proposal) ==
    LET asked == Proposed(pick, proposal)
        reviewed == ReplaceIfSameFamily(asked, pick.short, "reviewer", {VendorOf[asked["judge"]]})
    IN ReplaceIfSameFamily(reviewed, pick.short, "appeal", {VendorOf[reviewed["judge"]]})

ValidateSelection(pick, proposal) ==
    LET asked == Proposed(pick, proposal)
        reviewed == ReplaceIfSameFamily(asked, pick.short, "reviewer", {VendorOf[asked["judge"]]})
    IN ReplaceIfSameFamily(reviewed, pick.short, "appeal",
                           {VendorOf[reviewed["judge"]], VendorOf[reviewed["reviewer"]]})

(* select_models: without an answer of the selector the ranking stands. *)
SelectModels(pick, answered, proposal) ==
    IF answered THEN ValidateSelection(pick, proposal) ELSE pick.model

-----------------------------------------------------------------------------
(* lock_case_manifest: the selection and its independence, which compares  *)
(* models whatever their providers, are sealed.  The selector is off, out  *)
(* of reach (answered FALSE) or proposes.                                  *)
LockPolicy(answered, proposal) ==
    /\ ~policy.sealed
    /\ LET pick == PickFromRank
           model == SelectModels(pick, answered, proposal)
       IN policy' = [sealed |-> TRUE, model |-> model, provider |-> pick.provider,
                     short |-> pick.short, pins |-> settings.pins, answered |-> answered,
                     independent |-> FamiliesAreIndependent(model["judge"], model["reviewer"])]
    /\ UNCHANGED <<ranking, settings, ran>>

(* The process starts again with other settings. *)
Reconfigure(s) ==
    /\ settings' = s
    /\ UNCHANGED <<ranking, policy, ran>>

SeatOf(q, a) == [provider |-> q.provider[a], model |-> q.model[a]]

(* execution_policy_for, generate_structured: the sealed pair, or the      *)
(* fallback of the present settings when its provider fails.               *)
Answers(a, fails) ==
    /\ policy.sealed
    /\ ~fails \/ settings.fallback # NoSeat
    /\ ran' = [ran EXCEPT ![a] = IF fails THEN [seat |-> settings.fallback, fellBack |-> TRUE]
                                 ELSE [seat |-> SeatOf(policy, a), fellBack |-> FALSE]]
    /\ UNCHANGED <<ranking, settings, policy>>

RunJudge(fails) == ran["judge"] = NotRun /\ Answers("judge", fails)
RunReviewer(fails) ==
    /\ ran["judge"] # NotRun /\ ran["reviewer"] = NotRun
    /\ Answers("reviewer", fails)

(* alternate_judge_available: another pair of provider and model, and of   *)
(* another family where both are models of OpenRouter.  The review job     *)
(* asks it of the settings, then reconstruct_once of the manifest; both    *)
(* must agree.                                                             *)
Another(seat, other) ==
    /\ seat # other
    /\ seat.provider = OpenRouter /\ other.provider = OpenRouter =>
          FamiliesAreIndependent(seat.model, other.model)
AlternateJudge(q) == Another(SeatOf(q, "appeal"), SeatOf(q, "judge"))
Rebuild(fails) ==
    /\ ran["reviewer"] # NotRun /\ ran["appeal"] = NotRun
    /\ AlternateJudge(settings) /\ AlternateJudge(policy)
    /\ Answers("appeal", fails)

SelectionNext ==
    \/ \E answered \in BOOLEAN, proposal \in [Panel -> Models \cup {NoModel}] :
           LockPolicy(answered, proposal)
    \/ \E s \in SettingsTried : Reconfigure(s)
    \/ \E fails \in BOOLEAN : RunJudge(fails) \/ RunReviewer(fails) \/ Rebuild(fails)

SelectionSpec == SelectionInit /\ [][SelectionNext]_selectionVars

-----------------------------------------------------------------------------
Family(m) == VendorOf[m]
Seated(a) == Family(policy.model[a])
Judged(a) == ran[a] # NotRun /\ ~ran[a].fellBack

(* "Julgador, revisor e recurso nao podem compartilhar familia"            *)
(* (llm/selection.py), as far as the code carries it: the ranking alone    *)
(* seats three families where the catalog has them and nothing is pinned;  *)
(* whatever a selector proposes, an unpinned stage repeats a family only   *)
(* when its shortlist has no other; and, whatever the settings become      *)
(* after the lock and unless a configured fallback answered for one of     *)
(* them, a reviewer called independent in the manifest is of another       *)
(* family than the judge, and a reconstruction is never judged by the pair *)
(* of provider and model that judged first, nor by one of its family when  *)
(* both are models of OpenRouter.  Of any other provider two pinned models *)
(* of one family may judge both: the code asks no more of them.            *)
FamiliesApart ==
    /\ SelectionTypeOK
    /\ policy.sealed =>
         /\ ~policy.answered /\ policy.pins = {}
              /\ (\A a \in Panel : Cardinality({Family(m) : m \in Listed(ranking[a])}) >= 3) =>
                \A a, b \in Panel : a # b => Seated(a) # Seated(b)
         /\ "reviewer" \notin policy.pins /\ Seated("reviewer") = Seated("judge")
              /\ Seated("judge") # "unknown" =>
                \A m \in Listed(policy.short["reviewer"]) : Family(m) = Seated("judge")
         /\ "appeal" \notin policy.pins /\ Seated("appeal") # "unknown"
              /\ Seated("appeal") \in {Seated("judge"), Seated("reviewer")} =>
                \A m \in Listed(policy.short["appeal"]) :
                    Family(m) \in {Seated("judge"), Seated("reviewer")}
    /\ Judged("judge") /\ Judged("reviewer") /\ policy.independent =>
         FamiliesAreIndependent(ran["judge"].seat.model, ran["reviewer"].seat.model)
    /\ Judged("judge") /\ Judged("appeal") =>
         Another(ran["judge"].seat, ran["appeal"].seat)
=============================================================================
