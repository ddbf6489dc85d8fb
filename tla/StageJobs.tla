------------------------------ MODULE StageJobs ------------------------------
(***************************************************************************)
(* The background queue of stages (domain/jobs.py StageRunner) and what a  *)
(* client that polls is told (routes/stages.py get_stage_status).  A key   *)
(* is a case and a stage; the registry lives in memory and is bounded, the *)
(* state of the case in the database.                                      *)
(***************************************************************************)
EXTENDS Excerpts

CONSTANTS
    Stages,         \* keys: pairs of a case and a stage
    PoolSize,       \* max_workers
    MaxTracked,     \* max_tracked_jobs
    MaxRestarts     \* bound: restarts of the process

ASSUME StageJobsAssumption ==
    PoolSize \in Nat \ {0} /\ MaxTracked \in Nat \ {0} /\ MaxRestarts \in Nat

VARIABLES
    tracked,    \* the keys of the registry, in order of submission
    jobState,   \* StageJob.state of each tracked key
    thread,     \* where the run of each key is
    stored,     \* the case: "ready", "processing" or "stale" (claim past its TTL)
    outcome,    \* keys whose result is persisted
    restarts,   \* bound counter
    steady      \* FALSE in a behaviour where a recovery may fail too
jobVars == <<tracked, jobState, thread, stored, outcome, restarts, steady>>

JobsTypeOK ==
    /\ tracked \in Seq(Stages)
    /\ jobState \in [Stages -> {"none", "processing", "completed", "failed"}]
    /\ thread \in [Stages -> {"none", "claimed", "queued", "working", "saved",
                              "failing", "recovered"}]
    /\ stored \in [Stages -> {"ready", "processing", "stale"}]
    /\ outcome \subseteq Stages
    /\ restarts \in 0..MaxRestarts /\ steady \in BOOLEAN

JobsInit ==
    /\ tracked = <<>> /\ jobState = [k \in Stages |-> "none"]
    /\ thread = [k \in Stages |-> "none"]
    /\ stored = [k \in Stages |-> "ready"]
    /\ outcome = {} /\ restarts = 0 /\ steady \in BOOLEAN

-----------------------------------------------------------------------------
(* claim_case_stage: the request takes the case before it submits. *)
Claimable(k) == stored[k] \in {"ready", "stale"}
ClaimStage(k) ==
    /\ thread[k] = "none" /\ Claimable(k)
    /\ thread' = [thread EXCEPT ![k] = "claimed"]
    /\ stored' = [stored EXCEPT ![k] = "processing"]
    /\ UNCHANGED <<tracked, jobState, outcome, restarts, steady>>

(* Mutant: the oldest entries go, running or not. *)
EvictOldest(order, state) ==
    {order[i] : i \in {j \in DOMAIN order : j <= Len(order) - MaxTracked}}

(* _evict: the oldest entries that are not running, while there are too many. *)
Evict(order, state) ==
    LET idle == {i \in DOMAIN order : state[order[i]] # "processing"}
        excess == Len(order) - MaxTracked
        out == {i \in idle : Cardinality({j \in idle : j < i}) < excess}
    IN {order[i] : i \in out}

(* submit: the entry goes to the end of the registry. *)
Submit(k) ==
    LET state == [jobState EXCEPT ![k] = "processing"]
        order == Append(Excerpt(tracked, {i \in DOMAIN tracked : tracked[i] # k}), k)
        out == Evict(order, state)
    IN /\ thread[k] = "claimed"
       /\ thread' = [thread EXCEPT ![k] = "queued"]
       /\ tracked' = Excerpt(order, {i \in DOMAIN order : order[i] \notin out})
       /\ jobState' = [x \in Stages |-> IF x \in out THEN "none" ELSE state[x]]
       /\ UNCHANGED <<stored, outcome, restarts, steady>>

(* ThreadPoolExecutor: a queued run starts when a thread is free. *)
OnThread == {k \in Stages : thread[k] \in {"working", "saved", "failing", "recovered"}}
StartRun(k) ==
    /\ thread[k] = "queued" /\ Cardinality(OnThread) < PoolSize
    /\ thread' = [thread EXCEPT ![k] = "working"]
    /\ UNCHANGED <<tracked, jobState, stored, outcome, restarts, steady>>

(* The work commits its result and the status that follows... *)
SaveResult(k) ==
    /\ thread[k] = "working"
    /\ thread' = [thread EXCEPT ![k] = "saved"]
    /\ stored' = [stored EXCEPT ![k] = "ready"]
    /\ outcome' = outcome \cup {k}
    /\ UNCHANGED <<tracked, jobState, restarts, steady>>

RecordState(k, s) ==
    jobState' = [jobState EXCEPT ![k] = IF k \in {tracked[i] : i \in DOMAIN tracked} THEN s ELSE @]

(* ... and only then is the job completed. *)
EndCompleted(k) ==
    /\ thread[k] = "saved"
    /\ thread' = [thread EXCEPT ![k] = "none"]
    /\ RecordState(k, "completed")
    /\ UNCHANGED <<tracked, stored, outcome, restarts, steady>>

(* The work raises: on_failure gives the case back before the job is failed; *)
(* an on_failure that raises in turn leaves the case to the TTL.           *)
WorkFails(k) ==
    /\ thread[k] = "working"
    /\ thread' = [thread EXCEPT ![k] = "failing"]
    /\ UNCHANGED <<tracked, jobState, stored, outcome, restarts, steady>>

RecoverCase(k) ==
    /\ thread[k] = "failing"
    /\ thread' = [thread EXCEPT ![k] = "recovered"]
    /\ \/ stored' = [stored EXCEPT ![k] = "ready"]
       \/ ~steady /\ UNCHANGED stored
    /\ UNCHANGED <<tracked, jobState, outcome, restarts, steady>>

EndFailed(k) ==
    /\ thread[k] = "recovered"
    /\ thread' = [thread EXCEPT ![k] = "none"]
    /\ RecordState(k, "failed")
    /\ UNCHANGED <<tracked, stored, outcome, restarts, steady>>

(* The process restarts: threads and registry are gone, the database stays. *)
RestartProcess ==
    /\ restarts < MaxRestarts
    /\ restarts' = restarts + 1
    /\ tracked' = <<>> /\ jobState' = [k \in Stages |-> "none"]
    /\ thread' = [k \in Stages |-> "none"]
    /\ UNCHANGED <<stored, outcome, steady>>

(* PROCESSING_TTL passes over a claim nobody is working on. *)
ClaimStale(k) ==
    /\ stored[k] = "processing" /\ thread[k] = "none"
    /\ stored' = [stored EXCEPT ![k] = "stale"]
    /\ UNCHANGED <<tracked, jobState, thread, outcome, restarts, steady>>

JobsNext ==
    \/ \E k \in Stages : ClaimStage(k) \/ Submit(k) \/ StartRun(k) \/ SaveResult(k)
    \/ \E k \in Stages : EndCompleted(k) \/ WorkFails(k) \/ RecoverCase(k) \/ EndFailed(k)
    \/ \E k \in Stages : ClaimStale(k)
    \/ RestartProcess

JobsSpec == JobsInit /\ [][JobsNext]_jobVars

-----------------------------------------------------------------------------
(* get_stage_status, in the order of its branches. *)
Poll(k) ==
    CASE jobState[k] = "failed" -> "failed"
      [] jobState[k] # "failed" /\ k \in outcome /\ jobState[k] # "processing" -> "completed"
      [] jobState[k] = "none" /\ k \notin outcome /\ stored[k] = "stale" -> "failed"
      [] OTHER -> IF jobState[k] # "none" \/ stored[k] # "ready" THEN "processing" ELSE "pending"

(* A poll never calls a stage pending, failed or completed while its run is *)
(* queued or on a thread, even with the registry full; and "failed" invites *)
(* the client to repeat only once the case can be claimed again.           *)
JobsInv ==
    /\ JobsTypeOK
    /\ \A k \in Stages :
        /\ thread[k] \in {"queued"} \cup {"working", "saved", "failing", "recovered"}
               => Poll(k) = "processing"
        /\ steady /\ thread[k] = "none" /\ Poll(k) = "failed" => Claimable(k)
=============================================================================
