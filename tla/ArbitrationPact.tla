--------------------------- MODULE ArbitrationPact ---------------------------
(***************************************************************************)
(* The way of a case and its arbitration pact (domain/pathway.py,          *)
(* domain/arbitration.py, routes/cases.py, routes/arbitration.py): each    *)
(* party elects arbitration with its consent, the arbitrator accepts with  *)
(* a declaration, each party confirms that declaration, the lock copies    *)
(* the pact into the manifest, and legal_effect says what the final        *)
(* document is.  The pact is one JSON column that every act loads and      *)
(* writes back whole.                                                      *)
(***************************************************************************)
EXTENDS Integers, FiniteSets

CONSTANTS
    Declarations,   \* identities (name, tax id, disclosure) the arbitrator may accept with
    Terms,          \* published versions of the terms, in order of date
    Filings,        \* the filings to try
    MaxOvertaken    \* bound: acts committed while a slower request holds the case

ASSUME PactAssumption ==
    /\ Declarations \subseteq Nat \ {0} /\ Terms \subseteq Nat \ {0}
    /\ MaxOvertaken \in Nat

VARIABLES
    pact,       \* pathway_json
    consents,   \* <party>_consent and <party>_terms_version
    sealed,     \* the pathway in the locked manifest, or NoPact
    slow,       \* a request that has loaded the case and not written yet
    calm,       \* TRUE in a behaviour where no request is slow
    ending,     \* what became of the decision after the lock
    shown,      \* history: the declarations each party confirmed
    choice      \* history: does the last word of each party stand for arbitration
pactVars == <<pact, consents, sealed, slow, calm, ending, shown, choice>>

Sides == {"claimant", "respondent"}
ArbitrationTermsSince == 2
SignatureTermsSince == 3

NoElection == [recorded |-> FALSE, elected |-> FALSE, byConsumer |-> FALSE]
Election == [recorded : BOOLEAN, elected : BOOLEAN, byConsumer : BOOLEAN]
Pact == [entry : {"pre_litigation", "pending_lawsuit"},
         consumer : Sides \cup {"none"},
         elections : [Sides -> Election],
         arbitrator : Declarations \cup {0},            \* 0: none has accepted
         confirmed : [Sides -> Declarations \cup {0}]]
NoPact == [entry |-> "none"]
NoCase == [locked |-> TRUE, overtaken |-> 0]
Written == [locked |-> TRUE, overtaken |-> MaxOvertaken]
NoTerms == [accepted |-> FALSE, terms |-> 0]

PactTypeOK ==
    /\ pact \in Pact
    /\ consents \in [Sides -> [accepted : BOOLEAN, terms : Terms \cup {0}]]
    /\ sealed \in Pact \cup {NoPact}
    /\ ending \in {"open", "agreement", "decision", "adopted", "declined", "acquiesced",
                   "withdrawn", "no_merit"}
    /\ shown \in [Sides -> SUBSET Declarations]
    /\ choice \in [Sides -> BOOLEAN]
    /\ calm \in BOOLEAN /\ slow.locked \in BOOLEAN /\ slow.overtaken \in 0..MaxOvertaken

-----------------------------------------------------------------------------
(***************************************************************************)
(* build_pathway: what may be filed.  court stands for the number and the  *)
(* court of a lawsuit, given or not.                                       *)
(***************************************************************************)
Filing == [entry : {"pre_litigation", "pending_lawsuit"}, court : BOOLEAN,
           consumerMatter : BOOLEAN, consumer : Sides \cup {"none"}]
Accepted(f) == /\ f.court <=> f.entry = "pending_lawsuit"
               /\ f.consumer # "none" => f.consumerMatter
BuildPathway(f) ==
    [entry |-> f.entry,
     consumer |-> IF f.consumerMatter /\ f.consumer = "none" THEN "claimant" ELSE f.consumer,
     elections |-> [p \in Sides |-> NoElection],
     arbitrator |-> 0, confirmed |-> [p \in Sides |-> 0]]

PactInit ==
    /\ pact \in {BuildPathway(f) : f \in {g \in Filings \cap Filing : Accepted(g)}}
    /\ consents = [p \in Sides |-> NoTerms]
    /\ sealed = NoPact /\ slow = NoCase /\ calm \in BOOLEAN /\ ending = "open"
    /\ shown = [p \in Sides |-> {}] /\ choice = [p \in Sides |-> FALSE]

-----------------------------------------------------------------------------
(***************************************************************************)
(* The pure part.                                                          *)
(***************************************************************************)
RecordElection(w, p, elected) ==
    [w EXCEPT !.elections[p] =
        [recorded |-> TRUE, elected |-> elected, byConsumer |-> w.consumer = p]]
(* Mutant: the election survives the consent it came with. *)
ClearNoElection(w, p) == w
ClearElection(w, p) == [w EXCEPT !.elections[p] = NoElection]
RecordAcceptance(w, d) ==
    [w EXCEPT !.arbitrator = d, !.confirmed = [p \in Sides |-> 0]]
RecordConfirmation(w, p) == [w EXCEPT !.confirmed[p] = w.arbitrator]

ArbitratorDesignated(w) ==
    w.arbitrator # 0 /\ \A p \in Sides : w.confirmed[p] = w.arbitrator

ResolutionTrack(w) ==
    IF /\ \A p \in Sides : w.elections[p].elected
       /\ w.consumer \in Sides => w.elections[w.consumer].byConsumer
    THEN "arbitration" ELSE "non_binding"

(* legal_effect: the instrument, whether it binds, and how it ends a lawsuit. *)
Effect(instrument, binding, ends) ==
    [instrument |-> instrument, binding |-> binding, ends |-> ends]
InLawsuit(w, how) == IF w.entry = "pending_lawsuit" THEN how ELSE "none"
Term(w) == IF w.entry = "pending_lawsuit" THEN "termo_para_homologacao" ELSE "termo_extrajudicial"
LegalEffect(w, end) ==
    CASE end \in {"agreement", "acquiesced"} ->
             Effect(Term(w), TRUE, InLawsuit(w, "homologacao_de_acordo"))
      [] end = "adopted" /\ ResolutionTrack(w) = "arbitration" ->
             Effect("sentenca_arbitral", TRUE, InLawsuit(w, "sentenca_arbitral"))
      [] end = "decision" /\ ResolutionTrack(w) = "arbitration" /\ ArbitratorDesignated(w) ->
             Effect("sentenca_arbitral", FALSE, InLawsuit(w, "sentenca_arbitral"))
      [] end = "withdrawn" -> Effect("encerramento_pela_via_judicial", FALSE, "none")
      [] end = "no_merit" -> Effect("auto_sem_merito", FALSE, "none")
      [] OTHER -> Effect("decisao_nao_vinculante", FALSE, "none")

-----------------------------------------------------------------------------
(***************************************************************************)
(* The requests.  Each loads the case, decides on what it loaded and       *)
(* writes over it; a column equal to the loaded value is not written, but  *)
(* an election, an acceptance and a confirmation hold the time they were   *)
(* made, and always change theirs.  One request of a behaviour may be slow *)
(* (a bound): others commit between its load and its write.                *)
(***************************************************************************)
Present == [pact |-> pact, consents |-> consents, locked |-> sealed # NoPact, overtaken |-> 0]
LoadSlowly ==
    /\ ~calm /\ slow = NoCase /\ sealed = NoPact
    /\ slow' = Present
    /\ UNCHANGED <<pact, consents, sealed, calm, ending, shown, choice>>

(* A request acts on the case as it is, or is the slow one and acts on what *)
(* it loaded.                                                              *)
Views == {Present} \cup (IF slow.locked THEN {} ELSE {slow})
Answer(v) ==
    /\ ~v.locked
    /\ \/ v = slow /\ slow' = Written
       \/ v = Present /\ slow.locked /\ UNCHANGED slow
       \/ v = Present /\ ~slow.locked /\ slow.overtaken < MaxOvertaken
            /\ slow' = [slow EXCEPT !.overtaken = @ + 1]

Changed(now, before, after) == IF after = before THEN now ELSE after
WriteConsent(v, p, c) ==
    consents' = [consents EXCEPT ![p] =
        [accepted |-> Changed(@.accepted, v.consents[p].accepted, c.accepted),
         terms |-> Changed(@.terms, v.consents[p].terms, c.terms)]]

(* The history of the choices is kept only where the property asks for it. *)
Choose(p, c) == choice' = IF calm THEN [choice EXCEPT ![p] = c] ELSE choice

(* set_case_consent with accepted: says is "yes", "no" or "kept" (no word). *)
GiveConsent(v, p, t, says) ==
    /\ Answer(v)
    /\ says = "yes" => t >= ArbitrationTermsSince
    /\ WriteConsent(v, p, [accepted |-> TRUE, terms |-> t])
    /\ IF says = "kept" THEN UNCHANGED pact ELSE pact' = RecordElection(v.pact, p, says = "yes")
    /\ Choose(p, IF says = "kept" THEN choice[p] ELSE says = "yes")
    /\ UNCHANGED <<sealed, calm, ending, shown>>

(* ... and without: the election falls with the consent. *)
WithdrawConsent(v, p) ==
    /\ Answer(v)
    /\ WriteConsent(v, p, NoTerms)
    /\ pact' = Changed(pact, v.pact, ClearElection(v.pact, p))
    /\ Choose(p, FALSE)
    /\ UNCHANGED <<sealed, calm, ending, shown>>

AcceptNomination(v, d) ==
    /\ Answer(v)
    /\ pact' = RecordAcceptance(v.pact, d)
    /\ UNCHANGED <<consents, sealed, calm, ending, shown, choice>>

ConfirmArbitrator(v, p) ==
    /\ Answer(v)
    /\ v.pact.elections[p].elected /\ v.pact.arbitrator # 0
    /\ v.consents[p].terms >= SignatureTermsSince
    /\ pact' = RecordConfirmation(v.pact, p)
    /\ shown' = [shown EXCEPT ![p] = @ \cup {v.pact.arbitrator}]
    /\ UNCHANGED <<consents, sealed, calm, ending, choice>>

(* The lock copies the pathway into the manifest (Evidence has the rest). *)
SealPact ==
    /\ sealed = NoPact
    /\ \A p \in Sides : consents[p].accepted
    /\ sealed' = pact
    /\ UNCHANGED <<pact, consents, slow, calm, ending, shown, choice>>

(* The procedure ends, and then what the parties and the arbitrator do with *)
(* a decision: sign_arbitral_award, accept_decision.                       *)
End(kind) ==
    /\ sealed # NoPact /\ ending = "open"
    /\ ending' = kind
    /\ UNCHANGED <<pact, consents, sealed, slow, calm, shown, choice>>
Acquiesce ==
    /\ ending = "decision" /\ ending' = "acquiesced"
    /\ UNCHANGED <<pact, consents, sealed, slow, calm, shown, choice>>
SignAwardOn(adopted) ==
    /\ ending = "decision"
    /\ ResolutionTrack(sealed) = "arbitration" /\ ArbitratorDesignated(sealed)
    /\ ending' = IF adopted THEN "adopted" ELSE "declined"
    /\ UNCHANGED <<pact, consents, sealed, slow, calm, shown, choice>>

(* Bounds: where a request may be slow only the terms in force are given,  *)
(* and only the slow one refuses the arbitration.                          *)
TermsGiven == {t \in Terms : calm \/ t >= SignatureTermsSince}
WordsGiven(v) == {"yes", "kept"} \cup (IF calm \/ v = slow THEN {"no"} ELSE {})

PactNext ==
    \/ LoadSlowly
    \/ \E v \in Views, p \in Sides : WithdrawConsent(v, p) \/ ConfirmArbitrator(v, p)
    \/ \E v \in Views, p \in Sides, t \in TermsGiven :
           \E says \in WordsGiven(v) : GiveConsent(v, p, t, says)
    \/ \E v \in Views, d \in Declarations : AcceptNomination(v, d)
    \/ SealPact \/ Acquiesce
    \/ \E kind \in {"agreement", "decision", "withdrawn", "no_merit"} : End(kind)
    \/ \E adopted \in BOOLEAN : SignAwardOn(adopted)

PactSpec == PactInit /\ [][PactNext]_pactVars

-----------------------------------------------------------------------------
(* An arbitrator is designated only if both parties confirmed exactly the  *)
(* declaration in force, whatever requests overlap; an award binds only on *)
(* such a designation; and, one request at a time, an election stands only *)
(* with the consent it came with and as that party's last word.            *)
PactInv ==
    /\ PactTypeOK
    /\ ArbitratorDesignated(pact) => \A p \in Sides : pact.arbitrator \in shown[p]
    /\ sealed # NoPact /\ LegalEffect(sealed, ending).instrument = "sentenca_arbitral" =>
           \A p \in Sides : sealed.elections[p].elected /\ sealed.arbitrator \in shown[p]
    /\ calm => \A p \in Sides :
           pact.elections[p].elected => consents[p].accepted /\ choice[p]
=============================================================================
