# Formal verification of Valinor (Arbitragem)

TLA+ modules, TLC configurations and TLAPS proofs for this repository: an
online dispute-resolution service (FastAPI, SQLAlchemy, a React client) in
which two parties file evidence, try to compose with the help of a language
model, and receive a decision that a second model reviews; the decision may be
appealed, accepted, adopted as an arbitral award and paid.

The modules are translated from `src/app`; line references are to that tree,
and `PROJECT.json` ("map") names the lines each definition stands for.

    tlc -workers 2 -config PartyRaces.cfg MCCaseProcedure.tla    (any run below)
    tlapm EvidenceProofs.tla                                     (any *Proofs.tla)

## 1. Inventory of the system

Status: **M** modelled, **p** partly, **–** left out (section 7 says why).

| Component (src/app) | State | Operations | What makes it correct | |
|---|---|---|---|---|
| Steward policy (`domain/steward.py`, `agents/steward.py`) | none | legal actions of a case, choice among them | the model chooses only a legal action; nobody waits for an act that only the steward can perform | p |
| Steward conduction and recovery (`api/steward.py`, `domain/steward_chain.py`, `domain/concurrency.py`) | `steward_chain_armed_at`, `status`, `processing_started_at` | conduct, arm, take, sweep, restore, claim, release | a chain is resumed after a crash; one conductor per abandoned chain; a claim wins once | M |
| Evidence, consent, lock (`documents.py`, `cases.py`, `manifest.py`) | documents, their bytes, consents, declarations, manifest | add, acknowledge, respond, admit, consent, declare, lock | nothing is admitted unanswered; the manifest is built once, from what both parties saw; a complete case is locked | p |
| Composition (`api/routes/stages.py`) | `conciliation_json` | open a round, file a position, accept, refuse | an agreement is made of two acceptances of one proposal; both parties heard before judgment | M |
| Judgment (`api/routes/stages.py`, `domain/procedure.py`) | `organized_json`, `decision_json`, `review_json`, `decision_runs` | organize, decide, review, reconstruct | results in order; one decision, at most one reconstruction | M |
| Verification of decisions (`decision_verifier.py`, `stability.py`, `procedure.py`) | none | verify, compare runs, conclude | only a founded decision is attested | M |
| Attestation, contest, appeal (`attestation.py`, `stages.py`) | attestation and its records, `appeals` | attest, contest, run the appeal, revert | one window; a filed appeal ends; what is settled is not corrected | p |
| Acceptance and award (`acceptance.py`, `arbitration.py`, `pathway.py`) | acceptances in the audit chain, award, the pact | elect, nominate, confirm, accept, sign | an acceptance and an award exclude each other; an award only by consent of both | M |
| Settlement (`payments.py`, `settlement.py`) | payment rows | checkout, webhook | a payment is neither lost nor taken twice | M |
| Calculation (`calculation.py`, `extraction.py`, `proposal.py`) | `calculation_json` | extract, correct, offer, compare the remedy | the parties' corrections survive; sums close; no figure the guard can read is born of the model | M |
| Email queue (`notifications/`) | `email_outbox` | enqueue, scan, claim, send, retry, erase, purge | every notice ends; once per person and fact | M |
| Background jobs (`domain/jobs.py`, `api/background.py`) | registry of `StageJob` per process, thread pool | submit, run, fail and recover, evict, poll | a failed job gives the case back; a running job is never forgotten | M |
| Audit trail (`core/audit.py`, `repository.append_audit`) | hash-chained events | append, verify | a trail that verifies is a serial history | M |
| Accounts and invitations (`access_repository.py`, `auth.py`, `account.py`) | users, links, sessions, invitations | sign in, reset, verify, suspend, erase, invite, accept | single use; a reset closes the doors opened before it | p |
| Rate limiter (`core/ratelimit.py`, `core/client_ip.py`) | windows per key | allow, evict | no more than the limit in any window | M |
| Choice of models (`llm/selection.py`, `llm/models.py`, `llm/registry.py`) | policy in the manifest | rank, validate, seal, run | judge, reviewer and judge of the appeal are independent | p |
| Withdrawal (`api/routes/arbitration.py`) | `status` | withdraw to court | a withdrawn case is only read | M |
| Case repository (`db/repository.py`, `db/models.py`, `db/session.py`) | the rows | load, flush, commit, conditional UPDATE | no result is lost or forged by a stale session | p |
| Operations (`api/routes/admin.py`) | – | unstick, resume, retry, suspend | a release never contradicts the artefacts | p |
| Retention and privacy (`retention.py`, `account.py`) | – | erase, purge, export | an erased account is told nothing more | p |
| Frameworks, documents on disk | – | tables; files by key | enter DecisionChecks as rules, Evidence as a store | p |
| Signatures and configuration, reports, web client | – | – | – | – |

**Interactions.** A party's request loads the case in its own database session,
writes it and calls the steward. The steward reads the loaded case, chooses an
action, arms `steward_chain_armed_at`, and calls the route of the stage as if
it were a client. The route claims the stage with a conditional UPDATE and
submits a job to the thread pool. The job opens a session of its own, calls the
model, saves result and status in one commit, takes the chain mark and, if it
was there, conducts again. In each replica a loop sweeps for marks older than
the TTL (10 minutes), gives the case back and conducts. Every act appends to
the audit trail, and an audit event queues e-mails in the same transaction;
workers in each replica send them. After the review the parties and the
arbitrator act on the attested decision; an appeal runs as a job; a payment
goes through Stripe, whose webhook answers late, twice or never.

**Hard behaviour.** Sessions are long (a model call is inside one), are opened
with `autoflush=False, expire_on_commit=False`, and no row carries a version:
what a session loaded stays as it was, and its UPDATE carries the columns it
changed. Between the load and the commit any other request, job or replica may
have committed. The registry of jobs is local to a process. A process may die
between any two commits. "hazards" in PROJECT.json lists each place, with the
property that watches it or a note on why none does.

## 2. Modules

| Module | Content |
|---|---|
| `Evidence` | One case from its opening to the lock: material, answers, admission, consent, declarations, claim and building of the manifest. |
| `StewardPolicy` | The case as the steward sees it after the lock, and its legal model actions. No variables. |
| `CaseProcedure` | From the lock to the review: rows, sessions, jobs, marks, sweeps, crashes. |
| `Hearing` | Abstract specification of `Evidence`: how far each piece of material has come, and the seal. |
| `CaseLife` | Abstract specification of `CaseProcedure`: the phases of a case and who was heard, with no session, job, mark or crash. |
| `Settlement` | The payment rows, the Checkout sessions of Stripe and its events. |
| `PostDecision` | From the reviewed decision (or the agreement) on: attestation, appeal, acceptance, award, record; EXTENDS `Settlement`. |
| `NoticeRules` | Who is told of which audit event, and which facts are reminders. No variables. |
| `Notifications` | The queue of e-mails; EXTENDS `NoticeRules`. |
| `RateLimiter`, `StageJobs`, `AuditTrail` | The services the routes rest on. |
| `Accounts` | One account and the invitation that seats it. |
| `ArbitrationPact` | The pathway of a case: elections, nomination, confirmations, and the legal effect of its end. |
| `Calculation` | The memory of calculation, the offers and the guard on their figures. |
| `DecisionChecks` | The verifier, the comparison of runs, the conclusion of a review. |
| `ModelSelection` | Which model judges, reviews and judges the appeal. |
| `Excerpts` | A set of numbers in order, and what a filter of a list keeps: used by the four machines that filter lists. |
| `CaseProcedureProofs`, `EvidenceProofs`, `PostDecisionProofs`, `NotificationsProofs` | Theorems and proofs about the module of that name. |
| `PartiesProofs` | The same about `Accounts` and `ArbitrationPact`. |
| `ServiceProofs` | The same about `StageJobs`, `AuditTrail` and `RateLimiter`. |
| `JudgmentProofs` | The same about `DecisionChecks`, `ModelSelection` and `Calculation`. |
| `ExcerptProofs` | Lemmas: least and greatest numbers, ranks, `Excerpts`, recursive functions. |
| `MCCaseProcedure`, `MCEvidence`, `MCPostDecision` | Model values, bounds and symmetry. |
| `MCPlatform` | Composes the nine machines that share no variable (`Notifications` … `ModelSelection`), one per behaviour. |

`Evidence` ends where `CaseProcedure` begins (`LockedRow`), and `CaseProcedure`
where `PostDecision` begins (`reviewed` or `agreement`).

### CaseProcedure

* `row` holds the columns of `Case` that sessions load and flush: `status`,
  `conciliation_json` (`rounds`), whether `organized_json` and `review_json`
  are there, the conclusion of `decision_json`, `procedure_conclusion`, and the
  age of `processing_started_at`. `armed` is the age of
  `steward_chain_armed_at`, a column that only conditional UPDATEs write.
  `runs` counts the decisions stored.
* `sess[s]` is a database session: where its handler stands (`pc`) and the row
  as it loaded it (`view`). A program point stands between two commits: every
  action is one commit with all the code that leads to it. `Flush` writes the
  columns where the new value differs from the view, and leaves the others of
  the row as they are now; `conciliation_json` is always rewritten whole,
  because its timestamps differ each time.
* A request is `LoadCase` and then the handler: `FilePosition`,
  `RespondAgreement`, `Withdraw`, `Resume`, or `Refuse` for a 4xx. The guards
  read the view, as the code does; a conditional UPDATE reads the row.
* `ChooseStage` / `WaitOrHold` are one pass of `_conduct_steward` up to the
  commit of the mark, `OpenRound` / `OpenClaimed` the route called by it, and
  `StageRefused` the 409 (or the stage already done) that takes the mark back.
* `StartJob` is the job's load of the case; `SaveRound`, `SaveOrganized`,
  `Decide`, `Reconstruct`, `SaveReview` its commits; `FailJob` the exception
  and the recovery in a fresh session; `TakeChain` is `_continue_steward`.
* `SweepLoad`, `SweepTake`, `SweepRestore` are the three commits of
  `recover_abandoned_steward_chains`; `Unstick` and `Resume` are operations'.
* `TtlElapses` makes timestamps old; with `SlowJobs` it may do so over jobs in
  flight. `Crash(n)` removes a process with its sessions, jobs and registry.

Abstractions: what a model answers is a free choice; `"inconclusive"` also
stands for inadmissible and system failure, which no stage tells apart; texts,
hashes and reasons are left out; a round always has terms to accept. Requests
and sweeps end within the TTL. `Submit` needs a free worker, since the workers
are the bound on jobs at once (the real pool queues, and `queued` is a state).
The check of the registry and the submission in `OpenRound` are one step, as
are the read and the write of `Unstick`. A job fails in its model call, not
between the two commits of a review that reconstructed the decision.
`X-Steward-Run-Models: 0` is for tests, refused in production, not modelled.

### Evidence

`row`, `docs` and `store` are the case row, the document rows and the bytes on
disk; `sess` the requests with the case as they loaded it. A document is added
in up to three commits (`PutBytes`, `InsertDocument`, `ReopenSubmission`), its
number is the count that the view had. `Admit`, `ClaimLock`, `LockManifest` are
the pass of the steward: checks on the view, a conditional UPDATE that
refreshes it, and a manifest built from what the refresh loaded. `Consent`
alone conducts nobody. `mode` is chosen by the behaviour: **adhered** (both
consented beforehand), **calm** (one request at a time), **faulty** (also
deaths between any two steps), **overlap** (two requests interleave at every
commit). What a document says is left out; a document is who presented it,
notice, answer and admission. Amendments, deadlines by hand and the invitation
that precedes a case are not here.

### PostDecision and Settlement

`case` holds status, the attested hash, the decision in force (`original` or
`corrected`), the appeal, the acceptances (who, under which hash, of which
decision), the award and the automatic record (`autos`, `basis`: how many
versions and what the last one describes). `clock` is reflection, window,
closed. Requests load, claim and commit as in the code; the appeal runs as the
session `Job`. `Eligible`, `DecisionIsFinal` and `OutcomeKind` are the
functions of `acceptance.py`, `arbitration.py` and `reports`. Stripe is
external: it opens, completes and expires sessions, lets money arrive later,
and delivers each event at least once in any order.

### The nine machines of MCPlatform

* `Notifications`: an act reads its recipients in its transaction and the rows
  exist from its commit; `Scan` queues reminders while their fact holds;
  `StartPass`, `Claim`, `Sent`, `NotSent` are a worker's commits; `Settle` is
  the UPDATE after a send: where the row was purged meanwhile it is undone, and
  the pass ends. `smooth` excludes what breaks once-per-fact on its own: a send slower than its claim,
  an erasure inside an act, a purge of a row whose fact still holds.
* `RateLimiter`: `Request` is the middleware, with the key that
  `resolve_client_ip` finds; `lag` lets a thread or replica read an older clock.
* `StageJobs`: registry with eviction, pool, restarts; `Poll` is what the
  client is told.
* `AuditTrail`: `ReadPrevious`, `FlushEvent`, `CommitEvents` of sessions at
  once; PostgreSQL numbers from a sequence, SQLite after the last row. A hash
  is the identity of its event.
* `Accounts`: requests of one account are taken one at a time; each commit is a
  step between which time may pass.
* `ArbitrationPact`: at most one request of a behaviour is slow, and writes the
  whole pathway from what it loaded. An election, an acceptance and a
  confirmation hold the time they were made, so they always write the column; a
  withdrawal of a consent that has no election left (`recorded`) does not.
* `Calculation`: money in cents, exact integers, rates as fractions of
  `RateBase`; the extraction and the composition are jobs over what they read.
  A correction gives values to fields, the list of fees, or whether the review
  of interest is admitted (`applies`); fields sent blank are left out. A monthly
  rate replaces an annual one and the other way round (`Replaced`), and the
  monthly one counts (`Rate`; `MonthlyOf` gives the twelfth root, which has no
  exact value, for the annual rates tried). `Parts` and `Truncated` are the loop
  that cuts the documents to its two limits. A term of an offer is a set of
  writings, each with its form: as the platform writes a figure, loosely, or in
  words; `ReadFrom` says what the two regular expressions of the guard make of
  it (`R$ 10000,00` is read as `R$ 100`, `9,8%` is not `9,80%`, an amount
  without `R$` is not seen). `AllowedFigures` are the lines, the principal, the
  concession, the two rates and the percentage above the average. `raced` and
  `late` remember what a reading in flight overlapped: which subjects were
  corrected meanwhile, and that it was saved after the phase was over.
* `DecisionChecks`: a decision is its citations, findings, rule applications
  and calculation; `VerificationErrors` is the verifier, `Founded` what an
  attested decision must be, said without it. Of the formulas that
  `decision_verifier.py:73-105` evaluates (constants, `+ - * / // %`, nested)
  the model knows two, the first input and the quotient of two, which reach a
  value, a division by zero and an unknown variable. A decision that abstains
  for a reason of integrity ends invalidated.
* `ModelSelection`: families, shortlists, pins, a selector that proposes
  anything, the policy sealed in the manifest, and settings that change later.
  A model is asked of a provider. `FamiliesAreIndependent` compares models only,
  and so does the independence of the reviewer in the manifest
  (`manifest.py:258-266`); `Another`, by which settings and manifest must both
  allow a reconstruction, asks for another pair of provider and model, and for
  another family only where both are asked of OpenRouter.
  The three stages rank the same models, the reviewer and the judge of the
  appeal in the same order: `llm/stage_requirements.py` asks the same of them.

## 3. Runs

| Run | Question | Result |
|---|---|---|
| `StewardCalm` | With one handler moving at a time, a crash in a job and a failed job: is every promise kept? | holds (63 thousand states) |
| `PartyRaces` | Two requests and two jobs interleaved at every commit | holds (497 thousand) |
| `RecoveryRaces` | Two replicas sweeping, a crash anywhere, a job that fails or overruns the TTL, operations | holds (830 thousand) |
| `Evidence` | Up to the lock: one request at a time, with deaths, and two at once | holds (258 thousand) |
| `PostDecision` | From the review to the payment: the same regimes, with failed appeals | holds (233 thousand) |
| `Platform` | The nine machines, one per behaviour | holds (505 thousand) |
| `WithdrawnReopened` | Is a withdrawn case only read? `WithdrawnIsFinal` | violated |
| `AgreementRefused` | Does an agreement rest on two standing acceptances? `AgreementStands` | violated |
| `StageRunTwice` | Is the result of a stage made once? `ResultsStand` | violated |
| `ChainLost` | Is the chain resumed after any crash? `JudgmentCompletes` | violated |
| `ConsentLast` | Is a complete case locked whoever acts last? `StewardLocks` | violated |
| `AcceptedOther` | Have both accepted the decision that stands? `AcceptedAsItStands` | violated |

### Properties of the passing runs

`StewardCalm`

* `OneReconstruction`: one decision and at most one reconstruction, with
  crashes at load and while a job works. It does not hold if the process dies
  between the two commits of a reconstruction (section 7).
* `StewardActs`, `JudgmentCompletes`: a legal model action is taken in the end;
  after composition the case is decided and reviewed or a party leaves. No
  mark is lost here, so operations never need to resume an invalidated case,
  which the route refuses; in `ChainLost`, where a mark is lost, there are no
  operations.
* `LifeSpec`: the whole implements `CaseLife`. The mapping reads the phase off
  the row; so nobody is judged, and no proposal replaces another, before both
  parties took a position, and an outcome is the end.

`PartyRaces`, `RecoveryRaces`

* `ArtefactsInOrder`: results appear in the order of the procedure and the
  status never claims a result the case lacks, although `save_stage`,
  `on_failure`, the sweep and operations write statuses from stale views.
* `WithdrawnNeverClaimed`: a conductor that loaded the case before a withdrawal
  cannot put it back to work. (A *save* can reopen it: see the findings.)
* `AgreementNeedsTwo`: a case becomes an agreement only with two acceptances of
  one round in the row that the same commit leaves, although two answers at
  once overwrite each other.
* `OneSweep`: of two replicas that see one abandoned chain, one conducts.

`Evidence`

* `HearingSpec`: all of it implements `Hearing`: notice, answer and admission come
  in this order for every document, none is skipped or goes back, and without
  overlap the seal needs every document admitted and stops all movement.
* `AdmittedWasAnswered`: nothing is admitted, or listed as admitted, without
  notice and answer, from however old a view the steward admitted it.
* `ManifestSealed`: a manifest is built once, whatever passes, dies or is
  claimed again.
* `FrozenWhenCalm`, `BytesWhenCalm`: without overlap a locked manifest is
  complete, the material and the consents stay as it lists them, and the bytes
  under a key are those of its row. With overlap both fail (hazards).
* `AdheredLocks`: with both consents given beforehand, the declaration or the
  answer that completes the case has it locked.

`PostDecision`

* `DecisionStands`: what both accepted, what the arbitrator adopted once
  attested, and what the debtor was charged for is not corrected by an appeal:
  through windows that close, contests claimed before they do, appeals taken
  back and claims left behind. `OneInstrument`: never an acceptance and an
  award. Both without overlap; two requests at once can break them (hazards).
* `AttestedOnce`: under every overlap and death the window opens once.
* `RecordCurrent`: at rest, the last version of the record describes the case.
* `ChargedOnce`, `PaymentKnown`: sessions that expire, money on its way, events
  late, repeated and reordered never make two charges, and money that Stripe
  took is on the row of the charge in the end.
* `AppealEnds`: a filed appeal is judged or taken back, unless a restart takes
  its job.

`Platform`

* `NoticesInv` (once per person and fact), `ErasedUnclaimed` (an erased address
  is taken up by no worker, the retry of a send in flight included),
  `NoticesSettle` (every queued notice ends, whoever dies sending it).
* `LimiterInv`: no client gets more than `max_requests` through in any window,
  whatever the header says, unless its bucket left for lack of room.
* `JobsInv`: a poll never calls a running stage ended, and says failed only
  when the case can be claimed again.
* `AccountsInv`: the sessions that open an account were opened with its present
  password, none opens an erased one. Requests come one at a time and none
  dies; a crash between the commits of a reset leaves old sessions open.
* `PactInv`: an arbitrator is designated only by confirmations of the
  declaration in force, an award binds only on that, an election stands only
  with its consent.
* `CalculationInv`: the memory is that of the present inputs and closes to the
  cent; offers stay between half and the whole of it; every figure the guard
  reads in their terms, and every one written as the platform writes it, is of
  the memory the round shows; what a party corrected stands, unless a reading
  was in flight when it was corrected, and even then nothing read stands under
  the name of a party; only a reading in flight moves the memory once the phase
  is over; a reading not marked as truncated was given every document whole.
* `VerdictSound`: an attested decision is founded, by a definition that does
  not mention the verifier, and is the one that the audit approved.
* `FamiliesApart`: judge, reviewer and judge of the appeal, as far as the code
  carries "não podem compartilhar família". With a provider other than
  OpenRouter two pinned models of one family may judge and rebuild: the code
  asks only that the pairs differ, and the property says so.
* `AuditInv`: a trail that verifies is a serial history with the attested head
  in its place, and sessions that do not cross leave one.

Each of these invariants includes the type invariant of its module;
`BytesWhenCalm` and `OneInstrument` include those of theirs.

### Bounds, and why they are enough

*CaseProcedure.* Parties: two, as in the code. Two request slots and two
workers let each pair of actors interleave at each commit; two replicas are two
sweeps. `MaxRounds = 2` gives a round that follows another and a stale list of
rounds. `MaxRuns = 3` is one decision, one reconstruction and the forbidden
third. `MaxRequests` allows both parties' positions plus answers or a
withdrawal. `RecoveryRaces` keeps one round and two requests, to afford the
crash at any point; its one failure is a job that raises or one that overruns
the TTL. `StageRunTwice` has three workers, which shortens its counterexample.

*Evidence.* Two documents (one may already be there, at any point of its life)
make the second number depend on the first; three requests over two slots are
every race of two acts with a third before or after. One fault.

*PostDecision.* Requests by mode: five in turn reach an appeal after an
acceptance and an attestation; three at once every race of two. Two Checkout
sessions: one that ends and its successor. One fault.

*Platform.* Two workers, two facts of which one happens, two attempts, one
mishap. Two clients and a proxy, two hits in a window of two ticks, room for
one or two keys, four ticks: a full window, its slide and an eviction. Two
stage keys over a pool and a registry of one. Two links, two sessions, lockout
at two. Two declarations, two versions of the terms, one act that overtakes a
slow request (which then uses only the terms in force, in a lawsuit, and only
the slow one refuses the arbitration). Rates in
tenths, three installments, two rounds, two lots of documents: one sent whole,
one whose total leaves the last out, with no document over its limit. Terms
with ten writings: of the memory, near it, and in each form. Three families and
a model of none, two providers, shortlists of two. Two writers and four
events over both databases. `RemindersAreStretches`, an assumption TLC
evaluates, checks that every reminder but one holds for one bounded stretch of
time, which is what `FactMoves` assumes. Decisions are all that differ from a
sound one in a reference, in findings and rules, or in the calculation.

### Regimes

`Serial` and `PartiesWait`, and the modes of `Evidence` and `PostDecision`,
describe the environment, not the code: how requests come. In the calm regimes
the promises of section 1 hold, including progress and the refinement. Under
overlap the properties without a mode hold, and the others fail in ways that
the notes of the hazards describe; the findings are those that contradict a
text of the repository. `smooth`, `steady`, `calm` and `lag` play the same part
in the machines of `Platform`, as initial choices of the behaviour.

### Fairness

`CaseProcedure` (`FairSpec`): weak fairness of each request's handler after its
load, of each session's conduction and of each worker's job: threads run, and
model calls end by timeout. Strong fairness of the sweep and of time: a loop
runs it every minute and the clock goes on whatever requests do, but in the
model a request under way disables them. `Evidence`: weak fairness of each
request's next step and of its pass of the steward. `PostDecision`: of each
request, of the appeal's job, and of the delivery of each event (Stripe
repeats until it is answered). `Notifications`: of each worker's pass, and of
the time that makes a retry due or a claim old. Nowhere of parties, operations,
failures or crashes. `CHECK_DEADLOCK FALSE` everywhere: a case may rest for
good when it is closed or a party owes the next act, and the bounded machines
of `Platform` run out of requests.

## 4. Findings

1. **A withdrawn case is reopened** (`WithdrawnReopened`, `stages.py:205`). The
   job of the first round saves `status="conciliation"`; a party who withdrew
   after the route was called finds the case open and conducted again, against
   `api/common.py:82`.
2. **An agreement loses an acceptance** (`AgreementRefused`, `stages.py:310`). A
   refusal after both accepted is recorded, `complete` becomes false, and the
   status stays `agreement`, against `stages.py:245`.
3. **A stage runs twice** (`StageRunTwice`, `concurrency.py:80`). A claim tests
   the status alone. A round saved late gives the status back while organize
   runs; a conductor with an older view claims organize again, two workers run
   it at once and the later result replaces the earlier, against
   `concurrency.py:3`. The same history can go on to a second decision: the
   late result writes `organized` over `decided`, and its continuation decides
   from a view that has no decision.
4. **A chain is lost** (`ChainLost`, `api/steward.py:57`). The commit that takes
   the mark and the one that arms the next stage are separate; a process that
   dies in between leaves a case that no sweep finds, against `README.md:589`.
5. **A complete case is not locked** (`ConsentLast`, `cases.py:404`). A consent
   conducts nobody: given last, it leaves a draft with everything the lock
   needs, until some party declares or answers again, or operations resume the
   case, against `repository.py:820`.
6. **An acceptance survives a correction** (`AcceptedOther`,
   `domain/acceptance.py:78`). An appeal that corrects the decision leaves
   `attestation_json`; the hash of the acceptances stays, and the corrected
   decision counts as accepted by a party who only accepted the original,
   against `acceptance.py:13`.

## 5. Proofs

Every theorem is of the form `Spec => []Inv` or `Spec => [][A]_vars` (one is a
refinement) and holds for every value of the constants that the modules'
assumptions admit. The assumptions type the constants (bounds are numbers,
inputs to try are of the schema) and say little more: slots of sessions are
disjoint (`SessionsAssumption`), `"unreadable"` is no address
(`RateLimiterAssumption`), admitted documents are among those locked
(`ChecksAssumption`), the three stages rank the same models
(`SelectionAssumption`). TLC evaluates all of them. Each proof has one step per
action over an inductive invariant that was itself checked as an invariant of
the run before it was proved.

`CaseProcedureProofs`

* `TypeCorrect` (`TypeOK`): inductive as it stands.
* `OrderKept` (`ArtefactsInOrder`): a session may flush a status from its view.
  `OrderInv` adds that every view is itself in order and is a past of the row
  (what a view has organized, decided or reviewed the row has too), and that a
  job or a conductor of a stage holds the prerequisite of the stage it will
  save. The lemmas on `Flush` say that an in-order change of such a view over
  the row gives an in-order row, whatever columns it leaves.
* `WithdrawalBarsClaims` (`WithdrawnNeverClaimed`), `AgreementsHaveTwo`
  (`AgreementNeedsTwo`): over `TypeOK`, the lemma `StatusChanges` says by what
  the status of the row can change, whatever view it is written from: the end
  of a stage, a release or a withdrawal; a claim, which matches no withdrawn
  row; an answer that completes a round, in the commit that writes that round.
* `OneReplicaSweeps` (`OneSweep`): `SweepInv` adds that while a replica is
  between the take and the end of its conduction the mark is not old, since
  time does not pass over a sweep or a request under way (it may over a job).
* `OneReconstructionWhenCalm` (`OneReconstruction`) and `CaseLivesWhenCalm`
  (`LifeSpec`), under `Calmly`, the constants of `StewardCalm`: one handler moves
  at a time, the parties wait for a job, jobs end within the TTL, and a process
  dies only while its job has yet to save. `CalmInv` adds to `OrderInv` that one
  session at most is under way (`Alone`); that its view is the row, the mark of
  its chain is fresh and the case still is as it was when its stage was chosen
  or claimed (`AllSteady`), for which `Prepared` says what each stage needs; and
  that the runs are those of the results (`RunsCounted`): none before the
  decision, and one until the review unless a reconstruction awaits its review.
  Then a save writes exactly what it assigns (`FlushNow`), and each action is a
  step of `CaseLife` or a stutter (`Lives`). Operations and the sweep find
  nobody under way: what would be under way holds a fresh claim or a fresh mark.

`EvidenceProofs`: one invariant for the six theorems.

* `EvidenceTypeCorrect`: types need `AllNumbered`. A document takes the number
  that follows those of its view, and that this is a number at all, and of no
  row, holds because documents are numbered without holes in every view.
* `AdmittedOnlyAnswered` (`AdmittedWasAnswered`): `InOrder` says that notice,
  answer and admission come in order in the rows, in every view and in the
  manifest, and that no view is ahead of the rows.
* `ManifestBuiltOnce` (`ManifestSealed`): `OneLocker`, that a request past its
  claim excludes another and a case already locked. A claim can be taken again
  only when stale, and a stale one is of a request that died.
* `CaseFrozenWhenCalm`, `BytesDeclaredWhenCalm` (`FrozenWhenCalm`,
  `BytesWhenCalm`): `OneAtATime`, that where requests do not overlap the view of
  the one under way is the case, but for the age of a claim and its own document.
* `EvidenceIsHearing` (`HearingSpec`): the initial states map to those of
  `Hearing`, and each of the actions to a step of it or to a stutter.

`PostDecisionProofs`: again one invariant.

* `AttestedOnceEver` (`AttestedOnce`): `AttestInv`, that at most one request
  issues the attestation, that a view has no other hash than the case, and that
  what follows an attestation is done by those who saw it.
* `OneInstrumentEver`, `DecisionStandsEver`, `ChargedOnceEver`
  (`OneInstrument`, `DecisionStands`, `ChargedOnce`), all where requests do not
  overlap: the view of the one active session shows the case (`UpToDate`), an
  appeal under judgment excludes anything settled (`AppealFirst`), and all
  charges are of the key in force, all but the last expired (`OneCharge`).
* `RecordCurrentEver` (`RecordCurrent`): in a calm mode a record is due or is
  being issued by the one session whose stage ends with it (`RecordDue`).

`NotificationsProofs`: `OneLetterPerFact` (`NoticesInv`), `ErasedNeverClaimed`
(`ErasedUnclaimed`). A letter is sent twice only if two workers hold it, or if
one delivered can be claimed or queued again: `Well` says that one worker holds
a row (`OneHolder`) and marked it as being sent (`HeldWell`), that a delivered
one is marked sent or its fact is past (`Delivered`), and that nothing in the
queue, nor in an act about to commit, is an erased person's (`NothingErased`).

`PartiesProofs`

* `SessionsAreOfTheAccount` (`AccountsInv`): a live session is of an account in
  force and of its present password (`LiveSessions`), except between the two
  commits of a reset or a suspension; `SigningIn` says that nothing comes
  between the two commits of a sign-in.
* `AwardsRestOnConfirmations` (`PactInv`): a stale write may bring back an old
  pact, so `Confirmations` speaks of every copy, the one a slow request holds
  and the sealed one included, against the declarations each party was shown.

`ServiceProofs`

* `PollsTellTheTruth` (`JobsInv`): a run that is queued or on a thread has an
  entry in state processing that the eviction leaves; with recoveries that
  work, the case is given back before its job is failed.
* `VerifiedTrailsAreSerial` (`AuditInv`): an event keeps, as history, the events
  its session saw. Those histories are closed (`Histories`), so a chain that
  verifies orders them, and the attested head counts what it saw (`Quoted`).
  Sessions that do not cross chain every event to the last (`Serial`).
* `WindowsAreBounded` (`LimiterInv`): what was granted since the last window is
  still in the bucket (`Counted`), which needs that the sweep drops no bucket
  that holds a live hit: its last is its latest (`LastIsLatest`). With threads
  whose clock lags the bound is that of a window shortened by the lag.

`JudgmentProofs`

* `VerdictsAreSound` (`VerdictSound`): each error of the verifier is one way in
  which a decision of the schema can fail to be founded (lemmas on references,
  rules, calculation). `Examined` says which decisions reach each stage: a
  valid one has no error against the texts as they are, and what is attested
  could be.
* `FamiliesStayApart` (`FamiliesApart`): two models of a ranking are of a family
  only where pins or the shortlist leave no other (`Unavoidable`). That the
  pair that answered is the pair of the manifest (`Obeyed`) carries this from
  the choice to the decisions, through later changes of settings; of the
  reconstruction what is carried is `Another`, which the job asked of the
  manifest, and of families only between models of OpenRouter.
* `AccountsClose` (`CalculationInv`): every calculation, the one a composition
  in flight has read included, is what its inputs make (`Sound`); while a reading
  is in flight, or once one took the mark of the corrections away, all that the
  parties said was said during a reading (`Heard`). The guard is proved for any
  terms: what it keeps holds readable figures of the memory only, and what is
  written as the platform writes it is read as it was meant (`PlainlyRead`).
  `WholeDocuments` follows the loop that cuts the documents. The rest is
  arithmetic: with X = B + r for a rate of r / B, D(n) = X^n - B^n grows by
  D(n+1) = r X^n + B D(n), so n r X^n >= B D(n), which says that n installments
  of the Price table pay the principal back; and r X^n D'(n) >= s Y^n D(n) for
  rates r >= s, by cross multiplication, which says that an installment grows
  with the rate. Rounding half up keeps both.

The library's theorems of induction take an operator and cannot be used here.
What is needed for every n is proved of the least n at which it fails
(`LeastNat`), and recursive functions are shown to exist as unions of finite
approximations (`RecursiveFunction` in `ExcerptProofs`). So `Price` and `Sum`
are proved for all inputs.

Proving changed the model in four places. `Settle` replaces an update that
wrote on a row even where a purge had removed it. The unions of errors in `DecisionChecks` were
not the sets their layout showed, because of precedence. Amounts that round
half to even were right only for amounts that are not negative. And a power and
a filter are written as the functions `Power` and `Excerpt`, in place of
operators that the library defines by recursion.

**Only model-checked**: the liveness properties (temporal reasoning under
fairness is outside the prover: `StewardActs`, `JudgmentCompletes`,
`AdheredLocks`, `PaymentKnown`, `AppealEnds`, `NoticesSettle`), and what the
findings violate, by nature. `OneReconstruction` and `LifeSpec` are proved where
`StewardCalm` checks them and do not hold where conductors overlap or a process
dies between the two commits of a reconstruction.

## 6. Plan

The modules, the runs and the theorems above are done. What could be added:

1. Under overlap, the part of `LifeSpec` that still holds, as an abstract
   specification of its own beside `CaseLife` (a result, once there, stays).
2. The liveness properties stay with TLC.

## 7. Not modelled

* **Signatures, encryption and configuration** (`core/signing.py`,
  `core/encryption.py`, `core/config.py`, …): primitives and settings, with no state of the
  procedure. A hash is modelled as the identity of what it is taken of.
* **Reports and web client**: layout and presentation; the API enforces every
  rule. Of `reports/decision_record.py` the kind of the outcome and the basis
  of the record are in `PostDecision`.
* **Citations of the extraction**: printed beside the lines of the memory, read
  by no rule. A field that a party corrects keeps the citation of the document
  it contradicts (`extraction.py:185`), against the docstring above it.
* **Providers of language models** (`llm/`): calls, prompts and the retries of
  one call are external; an answer is a free choice among those the callers
  tell apart. Parsing and chunking of documents likewise.
* **Retention**: the purge and the export are one query and one write each.
  What the purge takes for an ended case (`retention.py:54`) is a hazard with a
  note.
* **Panel of operations**: leads, notes and lists are plain reads and writes.
* **Deadlines by hand, members and assignments by hand**: single writes that no
  other component waits for; a deadline enters as the fact of a reminder.
* **Liveness with concurrent conductors**: a conductor refused with 409 takes
  the mark of another's stage (`api/steward.py:230`), so no fairness makes
  progress certain there; it is checked one conductor at a time.
* **A crash between the two commits of a reconstruction** breaks
  `OneReconstruction`; the runs crash jobs at load and while they work.
* **Redis out of reach, and the public anchor of attestations**: best effort by
  design, with nothing promised.
