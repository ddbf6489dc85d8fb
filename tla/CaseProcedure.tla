---------------------------- MODULE CaseProcedure ----------------------------
(***************************************************************************)
(* One case from the lock of its manifest to the automatic review of the   *)
(* decision: the Case row, the requests of the parties and of operations,  *)
(* the steward that conducts the case, the background jobs that run the    *)
(* model stages, and the sweep that resumes a case after a restart.        *)
(*                                                                         *)
(* Every actor is a database session.  The ORM keeps the row as it was     *)
(* when the session loaded it (expire_on_commit=False) and an UPDATE       *)
(* carries only the columns whose value differs from the loaded one, so a  *)
(* session is modelled with its own view of the row and writes through     *)
(* Flush.  Claims, marks and withdrawals are conditional UPDATEs on the    *)
(* row itself.                                                             *)
(***************************************************************************)
EXTENDS StewardPolicy

CONSTANTS
  Replicas,        \* application processes; each runs a recovery loop
  Requests,        \* slots for HTTP requests in progress
  Workers,         \* slots for background jobs in progress (bound)
  NoReplica, NoWorker,
  Positions,       \* the positions parties file, of {"text", "waived"}
  Answers,         \* the answers parties give, of {"accepted", "refused"}
  MaxRequests,     \* bound on the HTTP requests after the lock
  MaxRounds,       \* bound on the rounds of composition
  MaxRuns,         \* bound on the decisions generated
  MaxCrashes,      \* bound on the process crashes
  MaxFailures,     \* bound on the jobs that raise or overrun PROCESSING_TTL
  CrashPoints,     \* program points at which a crash may strike
  Serial,          \* TRUE: a request or continuation is not interleaved with another
  PartiesWait,     \* TRUE: no party request starts while a job is in flight
  Operations,      \* TRUE: operations may release and resume a case
  SlowJobs         \* TRUE: a job may take longer than PROCESSING_TTL

Sessions == Requests \cup Workers \cup Replicas

ASSUME SessionsAssumption ==
  /\ Requests \cap Workers = {}
  /\ Requests \cap Replicas = {}
  /\ Workers \cap Replicas = {}
  /\ NoReplica \notin Replicas
  /\ NoWorker \notin Sessions

ASSUME BoundsAssumption ==
  /\ Positions \subseteq PositionKind \ {"none"}
  /\ Answers \subseteq Answer \ {"none"}
  /\ MaxRequests \in Nat
  /\ MaxRounds \in Nat
  /\ MaxRuns \in Nat
  /\ MaxCrashes \in Nat
  /\ MaxFailures \in Nat

VARIABLES
  row,       \* the columns of the Case row that sessions load and flush
  armed,     \* steward_chain_armed_at, written by conditional UPDATEs only
  runs,      \* the rows of decision_runs
  sess,      \* the sessions: program point and view of the row
  registry,  \* StageRunner: the running job of a stage, per process
  requests, crashes, failures   \* counters against the bounds

vars == <<row, armed, runs, sess, registry, requests, crashes, failures>>

-----------------------------------------------------------------------------
(* The stages and their statuses.                                          *)

ClaimedStage == {"organize", "decide", "review"}

Stage == ClaimedStage \cup {"conciliation"}

StageOf(action) == IF action = "conciliate" THEN "conciliation" ELSE action

(* STAGE_CLAIM with each route's extra_from_statuses.                      *)
ClaimFrom == [organize |-> {"conciliation", "locked"},
              decide   |-> {"organized"},
              review   |-> {"decided", "invalidated", "inconclusive"}]

Processing == [organize |-> "processing_organize",
               decide   |-> "processing_decision",
               review   |-> "processing_review"]

(* Mutant of OnErrorStatus: the failed stage's own name.                   *)
OnErrorStatusByStage == [stage \in ClaimedStage |-> stage]

(* ASYNC_STAGES[stage]["on_error_status"] of the claimed stages.           *)
OnErrorStatus == [organize |-> "conciliation",
                  decide   |-> "organized",
                  review   |-> "decided"]

(* Mutant of RestoreFromProcessing: the status the stage leads to.         *)
RestoreToNext == [processing_organize |-> "organized",
                  processing_decision |-> "decided",
                  processing_review   |-> "reviewed"]

(* _RESTORE_FROM_PROCESSING.                                               *)
RestoreFromProcessing == [processing_organize |-> "conciliation",
                          processing_decision |-> "organized",
                          processing_review   |-> "decided"]

(* concurrency.TERMINAL_STATUSES, the members a case reaches here.         *)
ClosedStatus == {"invalidated", "reviewed", "withdrawn"}

Status == {"locked", "conciliation", "organized", "decided", "invalidated",
           "inconclusive", "reviewed", "agreement", "withdrawn"} \cup ProcessingStatus

(* "inconclusive" also stands for inadmissible and system_failure: no      *)
(* stage tells them apart.                                                 *)
Conclusion == {"decided", "inconclusive", "invalidated"}

(* A timestamp against PROCESSING_TTL.                                     *)
Age == {"none", "fresh", "stale"}

Row == [status     : Status,
        rounds     : Seq(Round),
        organized  : BOOLEAN,
        decision   : Conclusion \cup {"none"},
        review     : BOOLEAN,
        conclusion : Conclusion \cup {"none", "agreement", "withdrawn"},
        started    : Age]        \* processing_started_at

(* The row lock_manifest leaves.                                           *)
LockedRow == [status |-> "locked", rounds |-> <<>>, organized |-> FALSE,
              decision |-> "none", review |-> FALSE, conclusion |-> "none",
              started |-> "fresh"]

(* Where a session stands.  "queued" and "work" are a job's, before and    *)
(* after it loads the case; "rebuilt" is a review that has committed a     *)
(* reconstructed decision; "taking" and "restore" are the sweep's.         *)
Passing == {"loaded", "conduct", "invoke", "rebuilt", "saved", "taking", "restore"}
Pc == {"idle", "queued", "work"} \cup Passing

Session == [pc    : Pc,
            node  : Replicas \cup {NoReplica},
            view  : Row,
            stage : Stage \cup {"none"},
            base  : Seq(Round)]    \* the rounds a composition request captured

Idle == [pc |-> "idle", node |-> NoReplica, view |-> LockedRow,
         stage |-> "none", base |-> <<>>]

Registry == [Replicas \X Stage -> Workers \cup {NoWorker}]

-----------------------------------------------------------------------------
(* What a session sees and how it writes.                                  *)

View(s) == sess[s].view

At(s, point) == sess[s].pc = point

JobInFlight == \E w \in Workers : sess[w].pc \in {"queued", "work"}

(* Under Serial a session moves only when no other is half way.            *)
Turn(s) == Serial => \A o \in Sessions \ {s} : sess[o].pc \notin Passing

(* The UPDATE of a session that loaded `view` and assigned `new`.          *)
Flush(view, new) ==
  LET Column(f) == IF new[f] # view[f] THEN new[f] ELSE row[f]
  IN  [status     |-> Column("status"),
       rounds     |-> Column("rounds"),
       organized  |-> Column("organized"),
       decision   |-> Column("decision"),
       review     |-> Column("review"),
       conclusion |-> Column("conclusion"),
       started    |-> Column("started")]

(* A request or sweep ends; a job also leaves the running jobs.            *)
Unregister(s) == [k \in Replicas \X Stage |-> IF registry[k] = s THEN NoWorker ELSE registry[k]]

Finish(s) ==
  /\ sess' = [sess EXCEPT ![s] = Idle]
  /\ registry' = Unregister(s)

Goto(s, point, view) ==
  /\ sess' = [sess EXCEPT ![s].pc = point, ![s].view = view]
  /\ UNCHANGED registry

RunningLocally(n) == \E st \in Stage : registry[<<n, st>>] # NoWorker

-----------------------------------------------------------------------------
(* Party requests.                                                         *)

LoadCase(s) ==
  /\ Turn(s)
  /\ At(s, "idle")
  /\ requests < MaxRequests
  /\ requests' = requests + 1
  /\ PartiesWait => ~JobInFlight
  /\ \E n \in Replicas :
       sess' = [sess EXCEPT ![s] = [Idle EXCEPT !.pc = "loaded", !.node = n, !.view = row]]
  /\ UNCHANGED <<row, armed, runs, registry, crashes, failures>>

(* A 4xx answer: the request leaves nothing behind.                        *)
Refuse(s) ==
  /\ Turn(s)
  /\ At(s, "loaded")
  /\ Finish(s)
  /\ UNCHANGED <<row, armed, runs, requests, crashes, failures>>

(* Both routes on a round refuse a withdrawn case, and one whose           *)
(* consensual phase is over.                                               *)
RoundOpen(c, k) ==
  /\ c.status # "withdrawn"
  /\ ~c.organized /\ c.decision = "none"
  /\ k \in 1..Len(c.rounds)

(* Mutant of WriteRounds: every column is written, changed or not.         *)
WriteWholeRow(view, new) == new

(* conciliation_json is rewritten whole from the view; its timestamps make *)
(* it differ from the loaded value every time.                             *)
WriteRounds(view, new) == [Flush(view, new) EXCEPT !.rounds = new.rounds]

FilePosition(s, p, k, kind) ==
  /\ Turn(s)
  /\ At(s, "loaded")
  /\ RoundOpen(View(s), k)
  /\ LET new == [View(s) EXCEPT !.rounds[k].position[p] = kind]
     IN  /\ row' = WriteRounds(View(s), new)
         /\ Goto(s, "conduct", new)
  /\ UNCHANGED <<armed, runs, requests, crashes, failures>>

(* Mutant of Answered: acceptances of different proposals add up.          *)
AnsweredAcrossRounds(c, p, k, answer) ==
  LET silent  == answer = "refused" /\ c.rounds[k].position[p] = "none"
      round   == [c.rounds[k] EXCEPT !.response[p] = answer,
                                     !.position[p] = IF silent THEN "text" ELSE @]
      written == [c EXCEPT !.rounds[k] = round]
  IN  IF \A q \in PARTIES :
           \E i \in 1..Len(c.rounds) : written.rounds[i].response[q] = "accepted"
      THEN [written EXCEPT !.status = "agreement", !.conclusion = "agreement"]
      ELSE written

(* The view after an answer: a refusal is also the party's position when   *)
(* it has filed none, and two acceptances close the case by agreement.     *)
Answered(c, p, k, answer) ==
  LET silent  == answer = "refused" /\ c.rounds[k].position[p] = "none"
      round   == [c.rounds[k] EXCEPT !.response[p] = answer,
                                     !.position[p] = IF silent THEN "text" ELSE @]
      written == [c EXCEPT !.rounds[k] = round]
  IN  IF Complete(round)
      THEN [written EXCEPT !.status = "agreement", !.conclusion = "agreement"]
      ELSE written

RespondAgreement(s, p, k, answer) ==
  /\ Turn(s)
  /\ At(s, "loaded")
  /\ RoundOpen(View(s), k)
  /\ LET new == Answered(View(s), p, k, answer)
     IN  /\ row' = WriteRounds(View(s), new)
         /\ IF answer = "refused" THEN Goto(s, "conduct", new) ELSE Finish(s)
  /\ UNCHANGED <<armed, runs, requests, crashes, failures>>

(* outcome_kind is not None, for the statuses withdraw-to-court lets by.   *)
Concluded(c) == IF c.conclusion = "agreement" THEN HasAgreement(c) ELSE c.review

(* withdraw-to-court: the checks read the view, the UPDATE is conditional  *)
(* on the status read.                                                     *)
Withdraw(s) ==
  /\ Turn(s)
  /\ At(s, "loaded")
  /\ View(s).status \notin ProcessingStatus \cup ClosedStatus \cup {"agreement"}
  /\ ~Concluded(View(s))
  /\ row' = IF row.status = View(s).status
            THEN [row EXCEPT !.status = "withdrawn", !.conclusion = "withdrawn",
                             !.started = "none"]
            ELSE row
  /\ Finish(s)
  /\ UNCHANGED <<armed, runs, requests, crashes, failures>>

PartyRequest(s) ==
  \/ LoadCase(s)
  \/ Refuse(s)
  \/ \E p \in PARTIES, k \in 1..MaxRounds :
       \/ \E kind \in Positions : FilePosition(s, p, k, kind)
       \/ \E answer \in Answers : RespondAgreement(s, p, k, answer)
  \/ Withdraw(s)

-----------------------------------------------------------------------------
(* The steward: decide on the view, arm the chain, call the stage's route. *)

(* Mutant of ChooseStage: the chain is not armed.                          *)
ChooseStageUnarmed(s) ==
  /\ Turn(s)
  /\ At(s, "conduct")
  /\ \E action \in Choices(View(s)) :
       /\ action = "conciliate" => Len(View(s).rounds) < MaxRounds
       /\ sess' = [sess EXCEPT ![s].pc = "invoke", ![s].stage = StageOf(action)]
  /\ UNCHANGED <<row, armed, runs, registry, requests, crashes, failures>>

ChooseStage(s) ==
  /\ Turn(s)
  /\ At(s, "conduct")
  /\ \E action \in Choices(View(s)) :
       /\ action = "conciliate" => Len(View(s).rounds) < MaxRounds
       /\ sess' = [sess EXCEPT ![s].pc = "invoke", ![s].stage = StageOf(action)]
  /\ armed' = "fresh"
  /\ UNCHANGED <<row, runs, registry, requests, crashes, failures>>

(* Nothing legal for a model stage: the steward records wait or hold.      *)
WaitOrHold(s) ==
  /\ Turn(s)
  /\ At(s, "conduct")
  /\ Choices(View(s)) = {}
  /\ Finish(s)
  /\ UNCHANGED <<row, armed, runs, requests, crashes, failures>>

(* A stage's route goes on only if the view passes its early returns.      *)
RoutePasses(s, stage) ==
  LET c == View(s)
  IN  /\ c.status # "withdrawn"
      /\ \/ /\ stage = "conciliation"
            /\ ~c.organized
            /\ \/ c.rounds = <<>>
               \/ LatestRound(c).continue
               \/ HasNewMaterial(LatestRound(c))
            /\ registry[<<sess[s].node, stage>>] = NoWorker
         \/ /\ stage = "organize"
            /\ c.conclusion # "agreement"
            /\ c.rounds # <<>>
            /\ ~c.organized
         \/ /\ stage = "decide"
            /\ c.organized
            /\ c.decision = "none"
         \/ /\ stage = "review"
            /\ c.decision # "none"
            /\ ~c.review

(* Mutant of ClaimMatches: the status is tested on the loaded case.        *)
ClaimMatchesView(s, stage) == View(s).status \in ClaimFrom[stage]

(* claim_case_stage: the conditional UPDATE finds the row.                 *)
ClaimMatches(s, stage) ==
  IF View(s).status = Processing[stage]
  THEN View(s).started # "fresh" /\ row.status = Processing[stage]
  ELSE row.status \in ClaimFrom[stage]

(* StageRunner.submit: the job takes the registry entry of its stage.      *)
Submit(s, stage, base) ==
  \E w \in Workers :
    /\ sess[w].pc = "idle"
    /\ sess' = [sess EXCEPT
         ![s] = Idle,
         ![w] = [Idle EXCEPT !.pc = "queued", !.node = sess[s].node,
                             !.stage = stage, !.base = base]]
    /\ registry' = [Unregister(s) EXCEPT ![<<sess[s].node, stage>>] = w]

OpenRound(s) ==
  /\ Turn(s)
  /\ At(s, "invoke") /\ sess[s].stage = "conciliation"
  /\ RoutePasses(s, "conciliation")
  /\ Submit(s, "conciliation", View(s).rounds)
  /\ UNCHANGED <<row, armed, runs, requests, crashes, failures>>

OpenClaimed(s) ==
  /\ Turn(s)
  /\ At(s, "invoke")
  /\ \E stage \in ClaimedStage :
       /\ sess[s].stage = stage
       /\ RoutePasses(s, stage)
       /\ ClaimMatches(s, stage)
       /\ row' = [row EXCEPT !.status = Processing[stage], !.started = "fresh"]
       /\ Submit(s, stage, <<>>)
  /\ UNCHANGED <<armed, runs, requests, crashes, failures>>

(* A 409, or a stage already done: either way the chain mark is taken.     *)
StageRefused(s) ==
  /\ Turn(s)
  /\ At(s, "invoke")
  /\ ~ /\ RoutePasses(s, sess[s].stage)
       /\ sess[s].stage \in ClaimedStage => ClaimMatches(s, sess[s].stage)
  /\ armed' = "none"
  /\ Finish(s)
  /\ UNCHANGED <<row, runs, requests, crashes, failures>>

Conduct(s) == ChooseStage(s) \/ WaitOrHold(s) \/ OpenRound(s) \/ OpenClaimed(s) \/ StageRefused(s)

-----------------------------------------------------------------------------
(* The background jobs.                                                    *)

StartJob(w) ==
  /\ Turn(w)
  /\ At(w, "queued")
  /\ Goto(w, "work", row)
  /\ UNCHANGED <<row, armed, runs, requests, crashes, failures>>

(* save_stage: the result and the stage's status, in one commit.           *)
Save(w, new, point) ==
  /\ row' = Flush(View(w), new)
  /\ Goto(w, point, new)

SaveRound(w) ==
  /\ Turn(w)
  /\ At(w, "work") /\ sess[w].stage = "conciliation"
  /\ \E continue \in BOOLEAN :
       LET new == [View(w) EXCEPT !.rounds = Append(sess[w].base, NewRound(continue)),
                                  !.status = "conciliation"]
       IN  /\ row' = WriteRounds(View(w), new)
           /\ Goto(w, "saved", new)
  /\ UNCHANGED <<armed, runs, requests, crashes, failures>>

SaveOrganized(w) ==
  /\ Turn(w)
  /\ At(w, "work") /\ sess[w].stage = "organize"
  /\ Save(w, [View(w) EXCEPT !.organized = TRUE, !.status = "organized"], "saved")
  /\ UNCHANGED <<armed, runs, requests, crashes, failures>>

DecidedStatus(conclusion) == IF conclusion = "invalidated" THEN "invalidated" ELSE "decided"

(* A decision, its DecisionRun row and the status they imply.              *)
SaveDecision(w, decision, new, point) ==
  /\ row' = [Flush(View(w), new) EXCEPT !.decision = decision]
  /\ runs' = runs + 1
  /\ Goto(w, point, new)

Decide(w) ==
  /\ Turn(w)
  /\ At(w, "work") /\ sess[w].stage = "decide"
  /\ runs < MaxRuns
  /\ \E c \in Conclusion :
       SaveDecision(w, c, [View(w) EXCEPT !.decision = c, !.conclusion = c,
                                          !.status = DecidedStatus(c)], "saved")
  /\ UNCHANGED <<armed, requests, crashes, failures>>

(* finalize_review_outcome once no reconstruction is left: an approved     *)
(* decision for a party is decided, another keeps its conclusion, and a    *)
(* rejection leaves it inconclusive or, if it was never verified,          *)
(* invalidated.  A reconstructed decision was saved with the final outcome.*)
ReviewConclusion(point, decision) ==
  IF point = "rebuilt" THEN {decision} ELSE {decision, "decided", "inconclusive"}

SaveReview(w, point) ==
  /\ Turn(w)
  /\ At(w, point) /\ sess[w].stage = "review"
  /\ \E c \in ReviewConclusion(point, View(w).decision) :
       Save(w, [View(w) EXCEPT !.review = TRUE, !.conclusion = c, !.status = "reviewed"], "saved")
  /\ UNCHANGED <<armed, runs, requests, crashes, failures>>

(* Mutant of Reconstruct: reconstruction_used is forgotten.                *)
ReconstructAgain(w) ==
  /\ Turn(w)
  /\ At(w, "work") \/ At(w, "rebuilt")
  /\ sess[w].stage = "review"
  /\ runs < MaxRuns
  /\ \E c \in Conclusion :
       SaveDecision(w, c, [View(w) EXCEPT !.decision = c, !.status = DecidedStatus(c)], "rebuilt")
  /\ UNCHANGED <<armed, requests, crashes, failures>>

(* The review rejected the decision and an independent judge is available: *)
(* the new decision is committed before the review is.                     *)
Reconstruct(w) ==
  /\ Turn(w)
  /\ At(w, "work") /\ sess[w].stage = "review"
  /\ runs < MaxRuns
  /\ \E c \in Conclusion :
       SaveDecision(w, c, [View(w) EXCEPT !.decision = c, !.status = DecidedStatus(c)], "rebuilt")
  /\ UNCHANGED <<armed, requests, crashes, failures>>

(* The work raised: on_failure gives the case back in a fresh session.     *)
FailJob(w) ==
  /\ Turn(w)
  /\ At(w, "work")
  /\ failures < MaxFailures
  /\ failures' = failures + 1
  /\ row' = IF sess[w].stage \in ClaimedStage
            THEN [row EXCEPT !.status = OnErrorStatus[sess[w].stage], !.started = "none"]
            ELSE row
  /\ Finish(w)
  /\ UNCHANGED <<armed, runs, requests, crashes>>

(* _continue_steward: only the session that clears the mark conducts.      *)
TakeChain(w) ==
  /\ Turn(w)
  /\ At(w, "saved")
  /\ armed' = "none"
  /\ IF armed # "none" THEN Goto(w, "conduct", View(w)) ELSE Finish(w)
  /\ UNCHANGED <<row, runs, requests, crashes, failures>>

Job(w) ==
  \/ StartJob(w)
  \/ SaveRound(w)
  \/ SaveOrganized(w)
  \/ Decide(w)
  \/ Reconstruct(w)
  \/ SaveReview(w, "work")
  \/ SaveReview(w, "rebuilt")
  \/ TakeChain(w)

-----------------------------------------------------------------------------
(* Recovery of abandoned chains, and operations.                           *)

SweepLoad(n) ==
  /\ Turn(n)
  /\ At(n, "idle")
  /\ armed = "stale"
  /\ ~RunningLocally(n)
  /\ ~(row.status \in ProcessingStatus /\ row.started = "fresh")
  /\ sess' = [sess EXCEPT ![n] = [Idle EXCEPT !.pc = "taking", !.node = n, !.view = row]]
  /\ UNCHANGED <<row, armed, runs, registry, requests, crashes, failures>>

(* Mutant of SweepTake: any mark is taken, not the one observed.           *)
SweepTakeAnyMark(n) ==
  /\ Turn(n)
  /\ At(n, "taking")
  /\ IF armed # "none"
     THEN armed' = "none" /\ Goto(n, "restore", View(n))
     ELSE UNCHANGED armed /\ Finish(n)
  /\ UNCHANGED <<row, runs, requests, crashes, failures>>

(* The take is conditional on the mark observed, which was old.            *)
SweepTake(n) ==
  /\ Turn(n)
  /\ At(n, "taking")
  /\ IF armed = "stale"
     THEN armed' = "none" /\ Goto(n, "restore", View(n))
     ELSE UNCHANGED armed /\ Finish(n)
  /\ UNCHANGED <<row, runs, requests, crashes, failures>>

(* Mutant of SweepRestore: the abandoned status is left in place.          *)
SweepKeepsStatus(n) ==
  /\ Turn(n)
  /\ At(n, "restore")
  /\ Goto(n, "conduct", View(n))
  /\ UNCHANGED <<row, armed, runs, requests, crashes, failures>>

(* The case is given back to the stage's previous status, from the view    *)
(* that armed_before loaded.                                               *)
SweepRestore(n) ==
  /\ Turn(n)
  /\ At(n, "restore")
  /\ LET v   == View(n)
         new == IF v.status \in ProcessingStatus
                THEN [v EXCEPT !.status = RestoreFromProcessing[v.status], !.started = "none"]
                ELSE v
     IN  Save(n, new, "conduct")
  /\ UNCHANGED <<armed, runs, requests, crashes, failures>>

Sweep(n) == SweepLoad(n) \/ SweepTake(n) \/ SweepRestore(n)

(* admin_unstick_case.                                                     *)
Unstick ==
  /\ Operations
  /\ Serial => \A o \in Sessions : sess[o].pc \notin Passing
  /\ row.status \in ProcessingStatus
  /\ row.started # "fresh"
  /\ row' = [row EXCEPT !.status = RestoreFromProcessing[row.status], !.started = "none"]
  /\ UNCHANGED <<armed, runs, sess, registry, requests, crashes, failures>>

(* admin_resume_case.                                                      *)
Resume(s) ==
  /\ Operations
  /\ Turn(s)
  /\ At(s, "loaded")
  /\ View(s).status \notin ClosedStatus \cup ProcessingStatus
  /\ Goto(s, "conduct", View(s))
  /\ UNCHANGED <<row, armed, runs, requests, crashes, failures>>

-----------------------------------------------------------------------------
(* The environment.                                                        *)

(* PROCESSING_TTL goes by.  Requests and passes of the sweep end within it; *)
(* an old mark means a dead actor, or a job that overruns it.              *)
Older(age) == IF age = "fresh" THEN "stale" ELSE age

Overruns(s) == SlowJobs /\ s \in Workers /\ sess[s].pc \in {"queued", "work"}

TtlElapses ==
  /\ "fresh" \in {row.started, armed}
  /\ \A s \in Sessions : sess[s].pc = "idle" \/ Overruns(s)
  /\ IF \E s \in Sessions : sess[s].pc # "idle"
     THEN failures < MaxFailures /\ failures' = failures + 1
     ELSE UNCHANGED failures
  /\ row' = [row EXCEPT !.started = Older(@)]
  /\ armed' = Older(armed)
  /\ UNCHANGED <<runs, sess, registry, requests, crashes>>

(* A process dies: its sessions, jobs and registry are gone.               *)
Crash(n) ==
  LET lost == {s \in Sessions : sess[s].node = n}
  IN  /\ crashes < MaxCrashes
      /\ crashes' = crashes + 1
      /\ lost # {}
      /\ \A s \in lost : sess[s].pc \in CrashPoints
      /\ sess' = [s \in Sessions |-> IF s \in lost THEN Idle ELSE sess[s]]
      /\ registry' = [k \in Replicas \X Stage |-> IF k[1] = n THEN NoWorker ELSE registry[k]]
      /\ UNCHANGED <<row, armed, runs, requests, failures>>

-----------------------------------------------------------------------------

(* The request that locked the manifest goes on to conduct the case.       *)
Init ==
  /\ row = LockedRow
  /\ armed = "none"
  /\ runs = 0
  /\ \E s \in Requests, n \in Replicas :
       sess = [o \in Sessions |-> IF o = s THEN [Idle EXCEPT !.pc = "conduct", !.node = n]
                                  ELSE Idle]
  /\ registry = [k \in Replicas \X Stage |-> NoWorker]
  /\ requests = 0
  /\ crashes = 0
  /\ failures = 0

Next ==
  \/ \E s \in Requests : PartyRequest(s) \/ Resume(s)
  \/ \E s \in Sessions : Conduct(s)
  \/ \E w \in Workers : Job(w) \/ FailJob(w)
  \/ \E n \in Replicas : Sweep(n) \/ Crash(n)
  \/ Unstick
  \/ TtlElapses

Spec == Init /\ [][Next]_vars

(* A handler that has started ends, a job ends, some replica sweeps every  *)
(* minute and time passes.  The last two are strongly fair: they go on     *)
(* whatever the requests do, but here a request under way disables them    *)
(* (Turn, the TTL).  Parties, operations, failures and crashes owe nothing.*)
Fairness ==
  /\ \A s \in Requests : WF_vars(PartyRequest(s) /\ ~LoadCase(s))
  /\ \A s \in Sessions : WF_vars(Conduct(s))
  /\ \A w \in Workers : WF_vars(Job(w))
  /\ SF_vars(\E n \in Replicas : Sweep(n))
  /\ SF_vars(TtlElapses)

FairSpec == Spec /\ Fairness

-----------------------------------------------------------------------------
(* Types.                                                                  *)

(* Every variable holds what its column or slot can hold.                  *)
TypeOK ==
  /\ row \in Row
  /\ armed \in Age
  /\ runs \in Nat
  /\ sess \in [Sessions -> Session]
  /\ registry \in Registry
  /\ requests \in Nat
  /\ crashes \in Nat
  /\ failures \in Nat

-----------------------------------------------------------------------------
(* What holds however requests, jobs, sweeps and crashes interleave.       *)

InOrder(c) ==
  /\ c.organized => c.rounds # <<>>
  /\ c.decision # "none" => c.organized
  /\ c.review => c.decision # "none"
  /\ c.status = "processing_organize" => c.rounds # <<>>
  /\ c.status \in {"organized", "processing_decision"} => c.organized
  /\ c.status \in {"decided", "invalidated", "processing_review"} => c.decision # "none"
  /\ c.status = "reviewed" => c.review

(* The stages' results appear in the order of the procedure and the status *)
(* never claims a result the case lacks, although sessions write statuses  *)
(* from stale views (save_stage, release_processing).                      *)
ArtefactsInOrder == InOrder(row)

(* The claim of a stage is a conditional UPDATE, so a conductor that       *)
(* loaded the case before a withdrawal cannot put it back to work.         *)
WithdrawnNeverClaimed ==
  [][row.status = "withdrawn" => row'.status \notin ProcessingStatus]_vars

(* A case becomes an agreement only by two acceptances of one round, in    *)
(* the rounds that the same commit leaves.                                 *)
AgreementNeedsTwo ==
  [][row.status # "agreement" /\ row'.status = "agreement" => HasAgreement(row')]_vars

(* Two replicas that sweep at once do not conduct the case twice           *)
(* (docs/escalar-replicas.md): the take is conditional on the mark seen.   *)
OneSweep ==
  \A m, n \in Replicas :
    {sess[m].pc, sess[n].pc} \subseteq {"restore", "conduct", "invoke"} => m = n

-----------------------------------------------------------------------------
(* What holds when one actor moves at a time and jobs end within the TTL.  *)

(* "Uma unica reconstrucao": one decision and at most one reconstruction   *)
(* per case, whatever is retried.                                          *)
OneReconstruction == runs <= 2

(* While a model action is legal the steward eventually takes it: no case  *)
(* waits for an act that no party can perform.                             *)
StewardActs ==
  \A action \in MODEL_ACTIONS :
    (Legal(row, action) /\ (action = "conciliate" => Len(row.rounds) < MaxRounds))
      ~> ~Legal(row, action)

(* Once composition is over, the case is decided and reviewed or a party   *)
(* leaves.                                                                 *)
JudgmentCompletes == row.organized ~> (row.review \/ row.status = "withdrawn")

(* The life of the case that the parties were promised.                    *)
LifePhase ==
  CASE row.status = "withdrawn" -> "withdrawn"
    [] row.status = "agreement" -> "agreed"
    [] row.status \notin {"withdrawn", "agreement"} /\ row.review -> "closed"
    [] OTHER -> IF row.decision # "none" THEN "decided"
                ELSE IF row.organized THEN "judgment" ELSE "composition"

LifeHeard ==
  IF LifePhase = "composition"
  THEN {p \in PARTIES : LatestRound(row).position[p] # "none"}
  ELSE {}

Life == INSTANCE CaseLife WITH Parties <- PARTIES, phase <- LifePhase, heard <- LifeHeard

(* Sessions, jobs, marks and recoveries implement that life.               *)
LifeSpec == Life!Spec

-----------------------------------------------------------------------------
(* What a document or a comment says and the code does not keep.           *)

(* api/common.py:81: after the withdrawal a case can only be read.         *)
WithdrawnIsFinal == [][row.status = "withdrawn" => row'.status = "withdrawn"]_vars

(* stages.py:245: there is an agreement only while two acceptances of the  *)
(* same proposal stand.                                                    *)
AgreementStands == row.status = "agreement" => HasAgreement(row)

(* concurrency.py:3: a stage's result is not made twice by two workers; a  *)
(* review's reconstruction is the only replacement.                        *)
ResultsStand ==
  [][\A w \in Workers : /\ row.organized => ~SaveOrganized(w)
                        /\ row.decision # "none" => ~Decide(w)
                        /\ row.review => ~SaveReview(w, "work") /\ ~SaveReview(w, "rebuilt")]_vars

=============================================================================
