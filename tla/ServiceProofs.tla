----------------------------- MODULE ServiceProofs -----------------------------
(***************************************************************************)
(* Theorems about what the service keeps for every case and client: the    *)
(* queue of stages, the limiter and the audit trail, for any sets of keys, *)
(* clients and sessions and any limits.                                    *)
(***************************************************************************)
EXTENDS StageJobs, RateLimiter, AuditTrail, ExcerptProofs, SequenceTheorems

-----------------------------------------------------------------------------
(***************************************************************************)
(* The queue of stages.                                                    *)
(***************************************************************************)
Running == {"queued", "working", "saved", "failing", "recovered"}
Listed(k) == \E i \in DOMAIN tracked : tracked[i] = k

(* A run that is queued or on a thread keeps its entry, marked processing: *)
(* the registry never evicts it, and only its own end rewrites it.         *)
RunsAreListed == \A k \in Stages : thread[k] \in Running => jobState[k] = "processing" /\ Listed(k)

(* Where recoveries work, the case is given back before the job is failed, *)
(* and a failed job that is over stands on a case that can be claimed.     *)
FailuresGiveBack ==
    steady => \A k \in Stages :
        /\ thread[k] = "recovered" => stored[k] = "ready"
        /\ thread[k] = "none" /\ jobState[k] = "failed" => Claimable(k)

JobsIInv == JobsTypeOK /\ RunsAreListed /\ FailuresGiveBack

(* The entry that is submitted is in the registry, and so are those that   *)
(* were running.                                                           *)
LEMMA SubmitKeeps ==
    ASSUME JobsTypeOK, NEW k \in Stages, Submit(k)
    PROVE  /\ tracked' \in Seq(Stages)
           /\ jobState' \in [Stages -> {"none", "processing", "completed", "failed"}]
           /\ jobState'[k] = "processing" /\ Listed(k)'
           /\ \A x \in Stages : x # k =>
                /\ jobState'[x] = "failed" => jobState[x] = "failed"
                /\ jobState[x] = "processing" /\ Listed(x) =>
                       jobState'[x] = "processing" /\ Listed(x)'
<1> DEFINE state == [jobState EXCEPT ![k] = "processing"]
           others == {i \in DOMAIN tracked : tracked[i] # k}
           order == Append(Excerpt(tracked, others), k)
           out == Evict(order, state)
           kept == {i \in DOMAIN order : order[i] \notin out}
<1>1. /\ tracked' = Excerpt(order, kept)
      /\ jobState' = [x \in Stages |-> IF x \in out THEN "none" ELSE state[x]]
    BY DEF Submit
<1>2. /\ state \in [Stages -> {"none", "processing", "completed", "failed"}]
      /\ state[k] = "processing" /\ \A x \in Stages : x # k => state[x] = jobState[x]
    BY DEF JobsTypeOK
<1>3. /\ order \in Seq(Stages)
      /\ \E i \in DOMAIN order : order[i] = k
      /\ \A x \in Stages : x # k /\ Listed(x) => \E i \in DOMAIN order : order[i] = x
    <2> DEFINE rest == Excerpt(tracked, others)
    <2>1. tracked \in Seq(Stages) /\ others \subseteq DOMAIN tracked
        BY DEF JobsTypeOK
    <2>2. /\ rest \in Seq(Stages) /\ Len(rest) \in Nat /\ DOMAIN rest = 1..Len(rest)
          /\ \A n \in DOMAIN rest : Nth(others, n) \in others /\ rest[n] = tracked[Nth(others, n)]
          /\ \A d \in others : \E n \in DOMAIN rest : Nth(others, n) = d
        <3> HIDE DEF others
        <3> QED
            BY <2>1, ExcerptFacts
    <2> HIDE DEF rest
    <2>3. /\ order \in Seq(Stages) /\ DOMAIN order = 1..(Len(rest) + 1)
          /\ order[Len(rest) + 1] = k /\ \A n \in DOMAIN rest : order[n] = rest[n]
        BY <2>2 DEF rest
    <2>4. ASSUME NEW x \in Stages, x # k, Listed(x) PROVE \E i \in DOMAIN order : order[i] = x
        <3>1. PICK d \in others : tracked[d] = x
            BY <2>4 DEF Listed
        <3>2. PICK n \in DOMAIN rest : Nth(others, n) = d
            BY <2>2
        <3>3. rest[n] = x /\ n \in DOMAIN order /\ order[n] = rest[n]
            BY <2>2, <2>3, <3>1, <3>2
        <3> QED
            BY <3>3
    <2> HIDE DEF order
    <2> QED
        BY <2>2, <2>3, <2>4
<1>4. \A x \in Stages : state[x] = "processing" => x \notin out
    BY DEF Evict
<1> HIDE DEF state, order, out
<1>5. /\ tracked' \in Seq(Stages)
      /\ \A i \in DOMAIN order :
            order[i] \notin out => \E n \in DOMAIN tracked' : tracked'[n] = order[i]
    <2>1. kept \subseteq DOMAIN order
        OBVIOUS
    <2>2. /\ tracked' \in Seq(Stages)
          /\ \A n \in DOMAIN tracked' : tracked'[n] = order[Nth(kept, n)]
          /\ \A d \in kept : \E n \in DOMAIN tracked' : Nth(kept, n) = d
        <3> HIDE DEF kept
        <3> QED
            BY <1>1, <1>3, <2>1, ExcerptFacts
    <2>3. ASSUME NEW i \in DOMAIN order, order[i] \notin out
          PROVE  \E n \in DOMAIN tracked' : tracked'[n] = order[i]
        <3>1. i \in kept
            BY <2>3
        <3> HIDE DEF kept
        <3> QED
            BY <2>2, <3>1
    <2> QED
        BY <2>2, <2>3
<1>6. \A x \in Stages : x \notin out /\ (\E i \in DOMAIN order : order[i] = x) => Listed(x)'
    BY <1>5 DEF Listed
<1> QED
    BY <1>1, <1>2, <1>3, <1>4, <1>5, <1>6

(* No step of a request, a thread or a restart loses a running entry.      *)
LEMMA JobsStep ==
    ASSUME JobsIInv, [JobsNext]_jobVars
    PROVE  JobsIInv'
<1>0. /\ JobsTypeOK /\ RunsAreListed /\ FailuresGiveBack
      /\ restarts \in 0..MaxRestarts /\ MaxRestarts \in Nat /\ steady \in BOOLEAN
    BY StageJobsAssumption DEF JobsIInv, JobsTypeOK
<1>1. ASSUME NEW k \in Stages, ClaimStage(k) PROVE JobsIInv'
    BY <1>0, <1>1
    DEF ClaimStage, JobsIInv, JobsTypeOK, RunsAreListed, FailuresGiveBack, Running, Listed,
        Claimable
<1>2. ASSUME NEW k \in Stages, Submit(k) PROVE JobsIInv'
    <2>1. /\ thread[k] = "claimed" /\ thread' = [thread EXCEPT ![k] = "queued"]
          /\ UNCHANGED <<stored, outcome, restarts, steady>>
        BY <1>2 DEF Submit
    <2>2. /\ tracked' \in Seq(Stages)
          /\ jobState' \in [Stages -> {"none", "processing", "completed", "failed"}]
          /\ jobState'[k] = "processing" /\ Listed(k)'
          /\ \A x \in Stages : x # k =>
               /\ jobState'[x] = "failed" => jobState[x] = "failed"
               /\ jobState[x] = "processing" /\ Listed(x) =>
                      jobState'[x] = "processing" /\ Listed(x)'
        BY <1>0, <1>2, SubmitKeeps
    <2>3. /\ thread' \in [Stages -> {"none", "claimed", "queued", "working", "saved",
                                      "failing", "recovered"}]
          /\ thread'[k] = "queued" /\ \A x \in Stages : x # k => thread'[x] = thread[x]
        BY <1>0, <2>1 DEF JobsTypeOK
    <2>4. JobsTypeOK'
        BY <1>0, <2>1, <2>2, <2>3 DEF JobsTypeOK
    <2>5. RunsAreListed'
        BY <1>0, <2>2, <2>3 DEF RunsAreListed
    <2>6. FailuresGiveBack'
        BY <1>0, <2>1, <2>2, <2>3 DEF FailuresGiveBack, Claimable
    <2> QED
        BY <2>4, <2>5, <2>6 DEF JobsIInv
<1>3. ASSUME NEW k \in Stages, StartRun(k) \/ WorkFails(k) \/ SaveResult(k) PROVE JobsIInv'
    <2>1. \E t \in {"working", "failing", "saved"} :
            /\ thread[k] \in {"queued", "working"} /\ thread' = [thread EXCEPT ![k] = t]
            /\ stored' = stored \/ stored' = [stored EXCEPT ![k] = "ready"]
            /\ outcome' = outcome \/ outcome' = outcome \cup {k}
            /\ UNCHANGED <<tracked, jobState, restarts, steady>>
        BY <1>3 DEF StartRun, WorkFails, SaveResult
    <2> QED
        BY <1>0, <2>1
        DEF JobsIInv, JobsTypeOK, RunsAreListed, FailuresGiveBack, Running, Listed, Claimable
<1>4. ASSUME NEW k \in Stages, RecoverCase(k) PROVE JobsIInv'
    BY <1>0, <1>4
    DEF RecoverCase, JobsIInv, JobsTypeOK, RunsAreListed, FailuresGiveBack, Running, Listed,
        Claimable
<1>5. ASSUME NEW k \in Stages, EndCompleted(k) \/ EndFailed(k) PROVE JobsIInv'
    <2>1. PICK s \in {"completed", "failed"} :
            /\ thread[k] = (IF s = "completed" THEN "saved" ELSE "recovered")
            /\ thread' = [thread EXCEPT ![k] = "none"]
            /\ RecordState(k, s)
            /\ UNCHANGED <<tracked, stored, outcome, restarts, steady>>
        BY <1>5 DEF EndCompleted, EndFailed
    <2>2. Listed(k) /\ thread[k] \in Running
        BY <1>0, <2>1 DEF RunsAreListed, Running
    <2>3. jobState' = [jobState EXCEPT ![k] = s]
        BY <2>1, <2>2 DEF RecordState, Listed
    <2> QED
        BY <1>0, <2>1, <2>3
        DEF JobsIInv, JobsTypeOK, RunsAreListed, FailuresGiveBack, Running, Listed, Claimable
<1>6. ASSUME NEW k \in Stages, ClaimStale(k) PROVE JobsIInv'
    BY <1>0, <1>6
    DEF ClaimStale, JobsIInv, JobsTypeOK, RunsAreListed, FailuresGiveBack, Running, Listed,
        Claimable
<1>7. CASE RestartProcess
    <2>1. <<>> \in Seq(Stages)
        OBVIOUS
    <2> QED
        BY <1>0, <1>7, <2>1
        DEF RestartProcess, JobsIInv, JobsTypeOK, RunsAreListed, FailuresGiveBack, Running
<1>8. CASE UNCHANGED jobVars
    BY <1>0, <1>8
    DEF jobVars, JobsIInv, JobsTypeOK, RunsAreListed, FailuresGiveBack, Listed, Claimable
<1> QED
    BY <1>1, <1>2, <1>3, <1>4, <1>5, <1>6, <1>7, <1>8 DEF JobsNext

(* What a client is told of a stage (get_stage_status): never pending,     *)
(* failed or completed while its run is queued or on a thread, even with   *)
(* the registry full; and, where recoveries work, failed only once the     *)
(* case can be claimed again.                                              *)
THEOREM PollsTellTheTruth == JobsSpec => []JobsInv
<1>1. ASSUME JobsInit PROVE JobsIInv
    <2>1. <<>> \in Seq(Stages) /\ 0 \in 0..MaxRestarts
        BY StageJobsAssumption
    <2> QED
        BY <1>1, <2>1
        DEF JobsInit, JobsIInv, JobsTypeOK, RunsAreListed, FailuresGiveBack, Running
<1>2. JobsIInv /\ [JobsNext]_jobVars => JobsIInv'
    BY JobsStep
<1>3. ASSUME JobsIInv PROVE JobsInv
    <2>1. JobsTypeOK /\ RunsAreListed /\ FailuresGiveBack
        BY <1>3 DEF JobsIInv
    <2>2. ASSUME NEW k \in Stages, thread[k] \in Running PROVE Poll(k) = "processing"
        <3>1. jobState[k] = "processing"
            BY <2>1, <2>2 DEF RunsAreListed
        <3> QED
            BY <3>1 DEF Poll
    <2>3. ASSUME NEW k \in Stages, steady, thread[k] = "none", Poll(k) = "failed"
          PROVE  Claimable(k)
        <3>1. jobState[k] = "failed" \/ stored[k] = "stale"
            BY <2>3 DEF Poll
        <3> QED
            BY <2>1, <2>3, <3>1 DEF FailuresGiveBack, Claimable
    <2> QED
        BY <2>1, <2>2, <2>3 DEF JobsInv, Running
<1> QED
    BY <1>1, <1>2, <1>3, PTL DEF JobsSpec

-----------------------------------------------------------------------------
(***************************************************************************)
(* The audit trail.                                                        *)
(***************************************************************************)
Written == trail \cup UNION {writing[w] : w \in Writers}

Distinct(S) == \A d, e \in S : d.id = e.id => d = e

(* A session that sees an event sees what the event's session saw.         *)
Closed(S) ==
    \A e \in S : /\ e.saw \subseteq NumbersOf(S)
                 /\ \A d \in S : d.id \in e.saw => d.saw \subseteq e.saw

(* Numbers are given once to what is not rolled back, and grow; an event   *)
(* names an event that its session saw.                                    *)
Histories ==
    /\ Distinct(Written)
    /\ \A e \in Written : /\ e.id <= given /\ \A n \in e.saw : n < e.id
                          /\ e.prev = NoEvent \/ e.prev \in e.saw
    /\ Closed(trail) /\ \A w \in Writers : Closed(Seen(w))
    /\ \A w \in Writers : previous[w] \in {Unread, NoEvent} \cup NumbersOf(Seen(w))

(* Sessions that do not append at once chain every event to the last one.  *)
Chained(S) == \A e \in S : e.prev = LastOf({d \in S : d.id < e.id})
Serial ==
    ~crossed =>
        /\ \A w, o \in Writers : Appending(w) /\ Appending(o) => w = o
        /\ Chained(trail)
        /\ \A w \in Writers : /\ Chained(Seen(w))
                              /\ previous[w] # Unread => previous[w] = LastOf(Seen(w))

(* The head that the attestation quotes saw all but one of what it counts. *)
Quoted ==
    attested # NotAttested =>
        \E e \in trail : e.id = attested.head /\ attested.length = Cardinality(e.saw) + 1

AuditIInv == AuditTypeOK /\ Histories /\ Serial /\ Quoted

(* The events written are those of the trail and of the open sessions.     *)
LEMMA WrittenFacts ==
    /\ \A e : e \in Written <=> e \in trail \/ \E w \in Writers : e \in writing[w]
    /\ trail \subseteq Written /\ \A w \in Writers : Seen(w) \subseteq Written
    /\ AuditTypeOK => Written \subseteq AuditEvent
<1>1. \A e : e \in Written <=> e \in trail \/ \E w \in Writers : e \in writing[w]
    BY DEF Written
<1>2. AuditTypeOK => \A w \in Writers : writing[w] \subseteq AuditEvent
    BY DEF AuditTypeOK
<1>3. AuditTypeOK => trail \subseteq AuditEvent
    BY DEF AuditTypeOK
<1> QED
    BY <1>1, <1>2, <1>3 DEF Seen

(* The greatest number of a set of events, if there is one.                *)
LEMMA LastOfFacts ==
    ASSUME NEW S, S \subseteq AuditEvent
    PROVE  /\ NumbersOf(S) \subseteq Number
           /\ S = {} => LastOf(S) = NoEvent
           /\ S # {} => /\ LastOf(S) \in NumbersOf(S)
                        /\ \A e \in S : e.id <= LastOf(S)
           /\ \A d \in S : (\A e \in S : e.id <= d.id) => LastOf(S) = d.id
<1>1. NumbersOf(S) \subseteq Number
    BY DEF NumbersOf, AuditEvent
<1>2. S = {} => LastOf(S) = NoEvent
    BY DEF LastOf
<1>3. \A e \in S : e.id \in NumbersOf(S)
    BY DEF NumbersOf
<1>4. ASSUME S # {}
      PROVE  /\ LastOf(S) \in NumbersOf(S)
             /\ \A m \in NumbersOf(S) : m <= LastOf(S)
    <2>1. NumbersOf(S) # {} /\ NumbersOf(S) \subseteq 0..MaxEvents /\ MaxEvents \in Nat
        BY <1>1, <1>3, <1>4, AuditAssumption DEF Number
    <2>2. PICK g \in NumbersOf(S) : \A m \in NumbersOf(S) : m <= g
        BY <2>1, GreatestNat
    <2> QED
        BY <1>4, <2>2 DEF LastOf
<1>5. ASSUME NEW d \in S, \A e \in S : e.id <= d.id PROVE LastOf(S) = d.id
    <2>1. PICK e \in S : e.id = LastOf(S)
        BY <1>4, <1>5 DEF NumbersOf
    <2>2. d.id <= e.id /\ e.id <= d.id
        BY <1>3, <1>4, <1>5, <2>1
    <2>3. d.id \in Nat /\ e.id \in Nat
        BY <1>1, <1>3 DEF Number
    <2> QED
        BY <2>1, <2>2, <2>3
<1> QED
    BY <1>1, <1>2, <1>3, <1>4, <1>5

(* Histories that are closed stay closed when they are put together.       *)
LEMMA ClosedUnion ==
    ASSUME NEW S, NEW T, Closed(S), Closed(T), Distinct(S \cup T)
    PROVE  Closed(S \cup T)
<1>1. NumbersOf(S) \subseteq NumbersOf(S \cup T) /\ NumbersOf(T) \subseteq NumbersOf(S \cup T)
    BY DEF NumbersOf
<1>2. ASSUME NEW U \in {S, T}, NEW e \in U
      PROVE  /\ e.saw \subseteq NumbersOf(S \cup T)
             /\ \A d \in S \cup T : d.id \in e.saw => d.saw \subseteq e.saw
    <2>1. Closed(U)
        BY <1>2
    <2>2. e.saw \subseteq NumbersOf(U) /\ \A d \in U : d.id \in e.saw => d.saw \subseteq e.saw
        BY <2>1 DEF Closed
    <2>3. ASSUME NEW d \in S \cup T, d.id \in e.saw PROVE d \in U
        <3>1. PICK f \in U : f.id = d.id
            BY <2>2, <2>3 DEF NumbersOf
        <3>2. f \in S \cup T
            OBVIOUS
        <3> QED
            BY <3>1, <3>2 DEF Distinct
    <2> QED
        BY <1>1, <2>2, <2>3
<1> QED
    BY <1>2 DEF Closed

(* A session that adds an event after what it sees.                        *)
LEMMA AddedLast ==
    ASSUME NEW S, S \subseteq AuditEvent, NEW n \in AuditEvent,
           \A d \in S : d.id < n.id, n.saw = NumbersOf(S)
    PROVE  /\ Closed(S) => Closed(S \cup {n})
           /\ Chained(S) /\ n.prev = LastOf(S) => Chained(S \cup {n})
<1>0. /\ n.id \in Nat /\ \A d \in S : d.id \in Nat
      /\ \A m \in NumbersOf(S) : m \in Nat /\ m < n.id
    BY DEF AuditEvent, Number, NumbersOf
<1>1. n.id \notin NumbersOf(S) /\ n \notin S
    BY <1>0
<1>2. ASSUME Closed(S) PROVE Closed(S \cup {n})
    <2>1. NumbersOf(S) \subseteq NumbersOf(S \cup {n})
        BY DEF NumbersOf
    <2>2. \A e \in S : e.saw \subseteq NumbersOf(S)
                       /\ \A d \in S : d.id \in e.saw => d.saw \subseteq e.saw
        BY <1>2 DEF Closed
    <2>3. ASSUME NEW e \in S \cup {n}
          PROVE  /\ e.saw \subseteq NumbersOf(S \cup {n})
                 /\ \A d \in S \cup {n} : d.id \in e.saw => d.saw \subseteq e.saw
        BY <1>1, <2>1, <2>2
    <2> QED
        BY <2>3 DEF Closed
<1>3. ASSUME Chained(S), n.prev = LastOf(S) PROVE Chained(S \cup {n})
    <2>1. ASSUME NEW e \in S PROVE e.prev = LastOf({d \in S \cup {n} : d.id < e.id})
        <3>1. ~ (n.id < e.id)
            <4>1. e.id < n.id /\ e.id \in Nat
                BY <1>0
            <4> QED
                BY <1>0, <4>1
        <3>2. {d \in S \cup {n} : d.id < e.id} = {d \in S : d.id < e.id}
            BY <3>1
        <3> QED
            BY <1>3, <3>2 DEF Chained
    <2>2. {d \in S \cup {n} : d.id < n.id} = S
        <3>1. ~ (n.id < n.id)
            BY <1>0
        <3> QED
            BY <3>1
    <2> QED
        BY <1>3, <2>1, <2>2 DEF Chained
<1> QED
    BY <1>2, <1>3

(* The numbers of the events listed before one, and of the older ones.     *)
ListedBefore(i) == {Log[j].id : j \in 1..(i - 1)}
Older(e) == {m \in NumbersOf(trail) : m < e.id}

(* The events by number: the log holds each event of the trail once, after *)
(* those of smaller numbers.                                               *)
LEMMA LogFacts ==
    ASSUME AuditTypeOK, Distinct(trail)
    PROVE  /\ Cardinality(trail) = Cardinality(NumbersOf(trail))
           /\ Cardinality(trail) \in 0..MaxEvents /\ Cardinality(trail) \in Nat
           /\ DOMAIN Log = 1..Cardinality(trail)
           /\ \A i \in DOMAIN Log :
                /\ Log[i] \in trail
                /\ Cardinality(Older(Log[i])) = i - 1
                /\ ListedBefore(i) = Older(Log[i])
           /\ \A e \in trail : \E i \in DOMAIN Log : Log[i] = e
           /\ \A i, j \in DOMAIN Log : i < j <=> Log[i].id < Log[j].id
<1> DEFINE ids == NumbersOf(trail)
           c == Cardinality(ids)
           below(n) == {m \in ids : m < n}
<1>1. /\ trail \subseteq AuditEvent /\ ids \subseteq Number /\ ids \subseteq Nat
      /\ \A e \in trail : e.id \in ids
    BY DEF AuditTypeOK, NumbersOf, AuditEvent, Number
<1>2. IsFiniteSet(ids) /\ c <= MaxEvents
    <2>1. MaxEvents \in Nat /\ 1 \in Int /\ MaxEvents \in Int
        BY AuditAssumption
    <2>2. /\ IsFiniteSet(1..MaxEvents)
          /\ Cardinality(1..MaxEvents) = IF 1 > MaxEvents THEN 0 ELSE MaxEvents - 1 + 1
        BY <2>1, FS_Interval
    <2>3. Cardinality(1..MaxEvents) = MaxEvents
        BY <2>1, <2>2
    <2>4. ids \in SUBSET (1..MaxEvents)
        BY <1>1 DEF Number
    <2> QED
        BY <2>2, <2>3, <2>4, FS_Subset
<1>3. /\ c \in Nat
      /\ \A n \in 1..c : Nth(ids, n) \in ids /\ Cardinality(below(Nth(ids, n))) = n - 1
      /\ \A d \in ids : /\ Cardinality(below(d)) + 1 \in 1..c
                        /\ Nth(ids, Cardinality(below(d)) + 1) = d
      /\ \A d, e \in ids : d < e => Cardinality(below(d)) < Cardinality(below(e))
    BY <1>1, <1>2, Ranks
<1>4. Cardinality(trail) = c
    <2> DEFINE f == [e \in trail |-> e.id]
    <2>1. f \in Surjection(trail, ids)
        BY <1>1 DEF Surjection, NumbersOf
    <2>2. f \in Injection(trail, ids)
        BY <1>1 DEF Injection, IsInjective, Distinct
    <2>3. c = Cardinality(trail)
        <3> HIDE DEF f
        <3> QED
            BY <1>2, <2>1, <2>2, FS_Injection
    <2> QED
        BY <2>3
<1>5. Log = [i \in 1..c |-> CHOOSE e \in trail : e.id = Nth(ids, i)]
    BY DEF Log
<1>6. DOMAIN Log = 1..c
    BY <1>5
<1>7. ASSUME NEW i \in 1..c PROVE Log[i] \in trail /\ Log[i].id = Nth(ids, i)
    <2>1. PICK e \in trail : e.id = Nth(ids, i)
        BY <1>3 DEF NumbersOf
    <2> QED
        BY <1>5, <2>1
<1> HIDE DEF Log, ids, c
<1>8. ASSUME NEW e \in trail
      PROVE  \E i \in 1..c : i = Cardinality(below(e.id)) + 1 /\ Log[i] = e
    <2> DEFINE i == Cardinality(below(e.id)) + 1
    <2>1. i \in 1..c /\ Nth(ids, i) = e.id
        BY <1>1, <1>3
    <2>2. Log[i] \in trail /\ Log[i].id = e.id
        BY <1>7, <2>1
    <2>3. Log[i] = e
        BY <2>2 DEF Distinct
    <2> QED
        BY <2>1, <2>3
<1>9. ASSUME NEW i \in 1..c, NEW j \in 1..c PROVE i < j <=> Log[i].id < Log[j].id
    <2>1. /\ Log[i].id \in ids /\ Log[j].id \in ids /\ Log[i].id \in Nat /\ Log[j].id \in Nat
          /\ Cardinality(below(Log[i].id)) = i - 1 /\ Cardinality(below(Log[j].id)) = j - 1
        BY <1>1, <1>3, <1>7
    <2>2. /\ Log[i].id < Log[j].id => i - 1 < j - 1
          /\ Log[j].id < Log[i].id => j - 1 < i - 1
        BY <1>3, <2>1
    <2>3. Log[i].id = Log[j].id => i = j
        BY <2>1
    <2> QED
        BY <2>1, <2>2, <2>3
<1>10. ASSUME NEW i \in 1..c PROVE ListedBefore(i) = below(Log[i].id)
    <2>1. ASSUME NEW j \in 1..(i - 1) PROVE Log[j].id \in below(Log[i].id)
        <3>1. j \in 1..c /\ j < i
            BY <1>3
        <3> QED
            BY <1>1, <1>7, <1>9, <3>1
    <2>2. ASSUME NEW m \in below(Log[i].id) PROVE \E j \in 1..(i - 1) : Log[j].id = m
        <3>1. PICK e \in trail : e.id = m
            BY DEF NumbersOf, ids
        <3>2. PICK j \in 1..c : Log[j] = e
            BY <1>8
        <3>3. j < i
            BY <1>9, <3>1, <3>2
        <3>4. j \in 1..(i - 1)
            BY <1>3, <3>3
        <3> QED
            BY <3>1, <3>2, <3>4
    <2> QED
        BY <2>1, <2>2 DEF ListedBefore
<1>11. \A i \in 1..c : Cardinality(below(Log[i].id)) = i - 1
    BY <1>3, <1>7
<1>12. c \in 0..MaxEvents /\ c \in Nat
    BY <1>2, <1>3, AuditAssumption
<1>13. \A e : Older(e) = below(e.id)
    BY DEF Older, ids
<1> HIDE DEF below
<1> QED
    BY <1>4, <1>6, <1>7, <1>8, <1>9, <1>10, <1>11, <1>12, <1>13 DEF ids, c

(* In a trail that verifies each act saw every act before it: it names the *)
(* one before it, which it therefore saw, with all that one had seen.      *)
LEMMA VerifiedIsSerial ==
    ASSUME AuditTypeOK, Histories, VerifyAuditChain(Log)
    PROVE  \A e \in trail : e.saw = Older(e)
<1>1. /\ Distinct(trail) /\ Closed(trail)
      /\ \A e \in trail : /\ \A n \in e.saw : n < e.id
                          /\ e.prev = NoEvent \/ e.prev \in e.saw
    BY WrittenFacts DEF Histories, Distinct
<1>2. /\ Cardinality(trail) \in Nat /\ DOMAIN Log = 1..Cardinality(trail)
      /\ \A i \in DOMAIN Log :
           /\ Log[i] \in trail
           /\ ListedBefore(i) = Older(Log[i])
      /\ \A e \in trail : \E i \in DOMAIN Log : Log[i] = e
    BY <1>1, LogFacts
<1> DEFINE before(i) == ListedBefore(i)
           T == {i \in DOMAIN Log : ~ (Log[i].saw = before(i))}
<1>3. \A i \in DOMAIN Log : Log[i].saw \subseteq before(i)
    <2>1. \A e \in trail : e.saw \subseteq Older(e)
        BY <1>1 DEF Closed, Older
    <2> QED
        BY <1>2, <2>1
<1>4. T = {}
    <2> SUFFICES ASSUME T # {} PROVE FALSE
        OBVIOUS
    <2>1. T \subseteq Nat
        BY <1>2
    <2>2. PICK i \in T : \A m \in T : i <= m
        <3> HIDE DEF T
        <3> QED
            BY <2>1, LeastNat
    <2>3. i \in DOMAIN Log /\ i \in Nat /\ i > 0 /\ ~ (Log[i].saw = before(i))
        BY <1>2
    <2>4. CASE i = 1
        <3>1. 1..(i - 1) = {}
            BY <2>4
        <3>2. before(i) = {}
            BY <3>1 DEF ListedBefore
        <3> QED
            BY <1>3, <2>3, <3>2
    <2>5. CASE i # 1
        <3> DEFINE p == i - 1
        <3>1. /\ p \in DOMAIN Log /\ p \in Nat /\ p < i /\ p > 0
              /\ 1..(i - 1) = (1..(p - 1)) \cup {p}
            BY <1>2, <2>3, <2>5
        <3>2. p \notin T
            BY <2>2, <2>3, <3>1
        <3>3. Log[p].saw = before(p)
            BY <3>1, <3>2
        <3>4. Log[i].prev = Log[p].id
            BY <2>3, <2>5 DEF VerifyAuditChain
        <3>5. Log[i] \in trail /\ Log[p] \in trail
            BY <1>2, <2>3, <3>1
        <3>6. Log[p].id # NoEvent
            BY <3>5 DEF AuditTypeOK, AuditEvent, Number, NoEvent
        <3>7. Log[p].id \in Log[i].saw
            BY <1>1, <3>4, <3>5, <3>6
        <3>8. Log[p].saw \subseteq Log[i].saw
            BY <1>1, <3>5, <3>7 DEF Closed
        <3>9. before(i) = before(p) \cup {Log[p].id}
            BY <3>1 DEF ListedBefore
        <3> QED
            BY <1>3, <2>3, <3>3, <3>7, <3>8, <3>9
    <2> QED
        BY <2>4, <2>5
<1>5. \A i \in DOMAIN Log : Log[i].saw = before(i)
    BY <1>4
<1> QED
    BY <1>2, <1>5

(* A trail chained event by event verifies.                                *)
LEMMA ChainedVerifies ==
    ASSUME AuditTypeOK, Distinct(trail), Chained(trail)
    PROVE  VerifyAuditChain(Log)
<1>1. /\ Cardinality(trail) \in Nat /\ DOMAIN Log = 1..Cardinality(trail)
      /\ \A i \in DOMAIN Log :
           /\ Log[i] \in trail
           /\ ListedBefore(i) = Older(Log[i])
      /\ \A e \in trail : \E i \in DOMAIN Log : Log[i] = e
      /\ \A i, j \in DOMAIN Log : i < j <=> Log[i].id < Log[j].id
    BY LogFacts
<1>2. trail \subseteq AuditEvent /\ \A e \in trail : e.id \in Nat
    BY DEF AuditTypeOK, AuditEvent, Number
<1>3. ASSUME NEW i \in DOMAIN Log
      PROVE  Log[i].prev = IF i = 1 THEN NoEvent ELSE Log[i - 1].id
    <2> DEFINE older == {d \in trail : d.id < Log[i].id}
    <2>0. i \in Nat /\ i > 0 /\ older \subseteq AuditEvent
        BY <1>1, <1>2
    <2>1. Log[i].prev = LastOf(older)
        BY <1>1 DEF Chained
    <2>2. CASE i = 1
        <3>1. \A d \in trail : ~ (d.id < Log[i].id)
            <4>1. ASSUME NEW d \in trail, d.id < Log[i].id PROVE FALSE
                <5>1. PICK j \in DOMAIN Log : Log[j] = d
                    BY <1>1
                <5>2. j < i /\ j \in 1..Cardinality(trail)
                    BY <1>1, <4>1, <5>1
                <5> QED
                    BY <1>1, <2>2, <5>2
            <4> QED
                BY <4>1
        <3>2. older = {}
            BY <3>1
        <3> QED
            BY <2>0, <2>1, <2>2, <3>2, LastOfFacts
    <2>3. CASE i # 1
        <3>1. i - 1 \in DOMAIN Log /\ i - 1 < i
            BY <1>1, <2>0, <2>3
        <3>2. Log[i - 1] \in older
            BY <1>1, <3>1
        <3>3. ASSUME NEW d \in older PROVE d.id <= Log[i - 1].id
            <4>1. PICK j \in DOMAIN Log : Log[j] = d
                BY <1>1
            <4>2. j < i /\ j \in Nat
                BY <1>1, <4>1
            <4>3. ~ (i - 1 < j)
                BY <2>0, <4>2
            <4>4. ~ (Log[i - 1].id < Log[j].id)
                BY <1>1, <3>1, <4>3
            <4> QED
                BY <1>2, <3>2, <4>1, <4>4
        <3>4. LastOf(older) = Log[i - 1].id
            <4> HIDE DEF older
            <4> QED
                BY <2>0, <3>2, <3>3, LastOfFacts
        <3> QED
            BY <2>1, <2>3, <3>4
    <2> QED
        BY <2>2, <2>3
<1> QED
    BY <1>3 DEF VerifyAuditChain

(* The facts every step starts from.                                       *)
LEMMA AuditFacts ==
    ASSUME AuditIInv
    PROVE  /\ AuditTypeOK /\ Histories /\ Serial /\ Quoted
           /\ trail \subseteq AuditEvent /\ Written \subseteq AuditEvent
           /\ \A w \in Writers : /\ Seen(w) \subseteq AuditEvent /\ Seen(w) \subseteq Written
                                 /\ trail \subseteq Seen(w) /\ writing[w] \subseteq Seen(w)
           /\ crossed \in BOOLEAN /\ given \in Nat /\ \A e \in AuditEvent : e.id \in Nat
<1>1. AuditTypeOK /\ Histories /\ Serial /\ Quoted
    BY DEF AuditIInv
<1>2. crossed \in BOOLEAN /\ given \in Nat /\ trail \subseteq AuditEvent
    BY <1>1 DEF AuditTypeOK
<1>3. \A e \in AuditEvent : e.id \in Nat
    BY DEF AuditEvent, Number
<1>4. /\ Written \subseteq AuditEvent /\ trail \subseteq Written
      /\ \A w \in Writers : Seen(w) \subseteq Written
    BY <1>1, WrittenFacts
<1>5. \A w \in Writers : trail \subseteq Seen(w) /\ writing[w] \subseteq Seen(w)
    BY DEF Seen
<1> QED
    BY <1>1, <1>2, <1>3, <1>4, <1>5

(* Reading the last event keeps the invariant.                             *)
LEMMA ReadKeeps ==
    ASSUME AuditIInv, NEW w \in Writers, ReadPrevious(w)
    PROVE  AuditIInv'
<1>0. /\ AuditTypeOK /\ Histories /\ Serial /\ Quoted /\ crossed \in BOOLEAN
      /\ Seen(w) \subseteq AuditEvent
    BY AuditFacts
<1>1. /\ previous[w] = Unread /\ previous' = [previous EXCEPT ![w] = LastOf(Seen(w))]
      /\ crossed' = (crossed \/ \E o \in Writers \ {w} : Appending(o))
      /\ UNCHANGED <<trail, writing, given, engine, attested>>
    BY DEF ReadPrevious
<1>2. \A o \in Writers : Seen(o)' = Seen(o)
    BY <1>1 DEF Seen
<1>3. Written' = Written
    BY <1>1 DEF Written
<1>4. LastOf(Seen(w)) \in {NoEvent} \cup NumbersOf(Seen(w)) /\ NumbersOf(Seen(w)) \subseteq Number
    BY <1>0, LastOfFacts
<1>5. /\ previous' \in [Writers -> Number \cup {NoEvent, Unread}]
      /\ previous'[w] = LastOf(Seen(w)) /\ \A o \in Writers : o # w => previous'[o] = previous[o]
    BY <1>0, <1>1, <1>4 DEF AuditTypeOK
<1>6. crossed' \in BOOLEAN
    BY <1>0, <1>1
<1>7. AuditTypeOK'
    BY <1>0, <1>1, <1>5, <1>6 DEF AuditTypeOK
<1>8. Histories'
    BY <1>0, <1>1, <1>2, <1>3, <1>4, <1>5 DEF Histories
<1>9. Serial'
    <2> SUFFICES ASSUME ~ crossed'
                 PROVE  /\ \A a, o \in Writers : Appending(a)' /\ Appending(o)' => a = o
                        /\ Chained(trail')
                        /\ \A o \in Writers :
                              /\ Chained(Seen(o)')
                              /\ previous'[o] # Unread => previous'[o] = LastOf(Seen(o)')
        BY DEF Serial
    <2>1. ~ crossed /\ \A o \in Writers \ {w} : ~ Appending(o)
        BY <1>1
    <2>2. \A o \in Writers : o # w => ~ Appending(o)'
        BY <1>1, <1>5, <2>1 DEF Appending
    <2> QED
        BY <1>0, <1>1, <1>2, <1>5, <2>1, <2>2 DEF Serial
<1>10. Quoted'
    BY <1>0, <1>1 DEF Quoted
<1> QED
    BY <1>7, <1>8, <1>9, <1>10 DEF AuditIInv

(* Numbering and writing an event keeps the invariant.                     *)
LEMMA FlushKeeps ==
    ASSUME AuditIInv, NEW w \in Writers, FlushEvent(w)
    PROVE  AuditIInv'
<1>0. /\ AuditTypeOK /\ Histories /\ Serial /\ Quoted /\ crossed \in BOOLEAN /\ given \in Nat
      /\ Seen(w) \subseteq AuditEvent /\ Written \subseteq AuditEvent /\ Seen(w) \subseteq Written
      /\ \A e \in AuditEvent : e.id \in Nat
    BY AuditFacts
<1> DEFINE id == NextNumberOf(w)
           n == [id |-> id, prev |-> previous[w], saw |-> NumbersOf(Seen(w))]
<1>1. /\ previous[w] # Unread /\ id \in Number
      /\ engine = "sqlite" => \A o \in Writers \ {w} : writing[o] = {}
      /\ writing' = [writing EXCEPT ![w] = @ \cup {n}]
      /\ given' = IF id > given THEN id ELSE given
      /\ previous' = [previous EXCEPT ![w] = Unread]
      /\ UNCHANGED <<trail, engine, attested, crossed>>
    BY DEF FlushEvent
<1>2. \A d \in Written : d.id < id
    <2>1. CASE engine # "sqlite"
        <3>1. id = given + 1
            BY <2>1 DEF NextNumberOf
        <3> QED
            BY <1>0, <3>1 DEF Histories
    <2>2. CASE engine = "sqlite"
        <3>1. Written = Seen(w)
            BY <1>0, <1>1, <2>2, WrittenFacts DEF Seen
        <3>2. id = LastOf(Seen(w)) + 1
            BY <2>2 DEF NextNumberOf
        <3>3. ASSUME NEW d \in Seen(w) PROVE d.id < id
            <4>1. LastOf(Seen(w)) \in NumbersOf(Seen(w)) /\ d.id <= LastOf(Seen(w))
                  /\ NumbersOf(Seen(w)) \subseteq Number
                BY <1>0, LastOfFacts
            <4>2. LastOf(Seen(w)) \in Nat /\ d.id \in Nat
                BY <1>0, <4>1 DEF Number
            <4> QED
                BY <3>2, <4>1, <4>2
        <3> QED
            BY <3>1, <3>3
    <2> QED
        BY <2>1, <2>2
<1>3. n \in AuditEvent /\ n.id = id /\ n.prev = previous[w] /\ n.saw = NumbersOf(Seen(w))
    <2>1. NumbersOf(Seen(w)) \subseteq Number
        BY <1>0, LastOfFacts
    <2>2. previous[w] \in Number \cup {NoEvent}
        BY <1>0, <1>1 DEF AuditTypeOK
    <2> QED
        BY <1>1, <2>1, <2>2 DEF AuditEvent
<1> HIDE DEF n, id
<1>4. /\ writing' \in [Writers -> SUBSET AuditEvent]
      /\ writing'[w] = writing[w] \cup {n}
      /\ \A o \in Writers : o # w => writing'[o] = writing[o]
    BY <1>0, <1>1, <1>3 DEF AuditTypeOK
<1>5. /\ Seen(w)' = Seen(w) \cup {n} /\ \A o \in Writers : o # w => Seen(o)' = Seen(o)
    BY <1>1, <1>4 DEF Seen
<1>6. Written' = Written \cup {n}
    <2>1. \A e : e \in Written <=> e \in trail \/ \E o \in Writers : e \in writing[o]
        BY WrittenFacts
    <2>2. \A e : e \in Written' <=> e \in trail' \/ \E o \in Writers : e \in writing'[o]
        BY DEF Written
    <2>3. \A e : e \in Written' <=> e \in Written \cup {n}
        BY <1>1, <1>4, <2>1, <2>2
    <2> QED
        BY <2>3
<1>7. /\ previous' \in [Writers -> Number \cup {NoEvent, Unread}]
      /\ previous'[w] = Unread /\ \A o \in Writers : o # w => previous'[o] = previous[o]
    BY <1>0, <1>1 DEF AuditTypeOK
<1>8. given' \in 0..MaxEvents /\ given <= given' /\ id <= given' /\ given' \in Nat
    <2>1. given \in 0..MaxEvents /\ id \in 1..MaxEvents /\ MaxEvents \in Nat
        BY <1>0, <1>1, AuditAssumption DEF AuditTypeOK, Number
    <2> QED
        BY <1>1, <2>1
<1>9. AuditTypeOK'
    BY <1>0, <1>1, <1>4, <1>7, <1>8 DEF AuditTypeOK
<1>10. Histories'
    <2>1. Distinct(Written')
        <3>1. \A d \in Written : d.id # n.id
            BY <1>0, <1>2, <1>3
        <3> QED
            BY <1>0, <1>6, <3>1 DEF Histories, Distinct
    <2>2. ASSUME NEW e \in Written'
          PROVE  /\ e.id <= given' /\ \A m \in e.saw : m < e.id
                 /\ e.prev = NoEvent \/ e.prev \in e.saw
        <3>1. CASE e \in Written
            <4>1. e.id \in Nat /\ e.id <= given
                BY <1>0, <3>1 DEF Histories
            <4>2. e.id <= given'
                BY <1>0, <1>8, <4>1
            <4> QED
                BY <1>0, <3>1, <4>2 DEF Histories
        <3>2. CASE e = n
            <4>1. \A m \in n.saw : m < n.id
                BY <1>0, <1>2, <1>3 DEF NumbersOf
            <4>2. n.prev = NoEvent \/ n.prev \in n.saw
                BY <1>0, <1>1, <1>3 DEF Histories
            <4> QED
                BY <1>3, <1>8, <3>2, <4>1, <4>2
        <3> QED
            BY <1>6, <3>1, <3>2
    <2>3. Closed(Seen(w) \cup {n})
        BY <1>0, <1>2, <1>3, AddedLast DEF Histories
    <2>4. Closed(trail') /\ \A o \in Writers : Closed(Seen(o)')
        BY <1>0, <1>1, <1>5, <2>3 DEF Histories
    <2>5. \A o \in Writers : previous'[o] \in {Unread, NoEvent} \cup NumbersOf(Seen(o)')
        BY <1>0, <1>5, <1>7 DEF Histories
    <2> QED
        BY <2>1, <2>2, <2>4, <2>5 DEF Histories
<1>11. Serial'
    <2> SUFFICES ASSUME ~ crossed'
                 PROVE  /\ \A a, o \in Writers : Appending(a)' /\ Appending(o)' => a = o
                        /\ Chained(trail')
                        /\ \A o \in Writers :
                              /\ Chained(Seen(o)')
                              /\ previous'[o] # Unread => previous'[o] = LastOf(Seen(o)')
        BY DEF Serial
    <2>1. ~ crossed
        BY <1>1
    <2>2. Appending(w) /\ \A o \in Writers : o # w => ~ Appending(o)
        BY <1>0, <1>1, <2>1 DEF Serial, Appending
    <2>3. \A o \in Writers : o # w => ~ Appending(o)'
        BY <1>4, <1>7, <2>2 DEF Appending
    <2>4. n.prev = LastOf(Seen(w)) /\ Chained(Seen(w))
        BY <1>0, <1>1, <1>3, <2>1 DEF Serial
    <2>5. Chained(Seen(w) \cup {n})
        BY <1>0, <1>2, <1>3, <2>4, AddedLast
    <2>6. Chained(trail') /\ \A o \in Writers : Chained(Seen(o)')
        BY <1>0, <1>1, <1>5, <2>1, <2>5 DEF Serial
    <2>7. \A o \in Writers : previous'[o] = Unread
        BY <1>7, <2>3 DEF Appending
    <2> QED
        BY <2>3, <2>6, <2>7
<1>12. Quoted'
    BY <1>0, <1>1 DEF Quoted
<1> QED
    BY <1>9, <1>10, <1>11, <1>12 DEF AuditIInv

(* A commit keeps the invariant.                                           *)
LEMMA CommitKeeps ==
    ASSUME AuditIInv, NEW w \in Writers, CommitEvents(w)
    PROVE  AuditIInv'
<1>0. /\ AuditTypeOK /\ Histories /\ Serial /\ Quoted /\ crossed \in BOOLEAN
      /\ trail \subseteq AuditEvent
      /\ \A o \in Writers : Seen(o) \subseteq AuditEvent /\ Seen(o) \subseteq Written
    BY AuditFacts
<1>1. /\ writing[w] # {} /\ previous[w] = Unread /\ trail' = trail \cup writing[w]
      /\ writing' = [writing EXCEPT ![w] = {}]
      /\ UNCHANGED <<previous, given, engine, attested, crossed>>
    BY DEF CommitEvents
<1>2. /\ writing' \in [Writers -> SUBSET AuditEvent] /\ writing'[w] = {}
      /\ \A o \in Writers : o # w => writing'[o] = writing[o]
    BY <1>0, <1>1 DEF AuditTypeOK
<1>3. /\ trail' = Seen(w) /\ Seen(w)' = Seen(w)
      /\ \A o \in Writers : o # w => Seen(o)' = Seen(w) \cup Seen(o)
    BY <1>1, <1>2 DEF Seen
<1>4. Written' = Written
    <2>1. \A e : e \in Written <=> e \in trail \/ \E o \in Writers : e \in writing[o]
        BY WrittenFacts
    <2>2. \A e : e \in Written' <=> e \in trail' \/ \E o \in Writers : e \in writing'[o]
        BY DEF Written
    <2>3. \A e : e \in Written' <=> e \in Written
        BY <1>1, <1>2, <2>1, <2>2
    <2> QED
        BY <2>3
<1>5. AuditTypeOK'
    BY <1>0, <1>1, <1>2, <1>3 DEF AuditTypeOK
<1>6. Histories'
    <2>1. ASSUME NEW o \in Writers PROVE Closed(Seen(w) \cup Seen(o))
        <3>1. Seen(w) \cup Seen(o) \subseteq Written
            BY <1>0
        <3>2. Distinct(Seen(w) \cup Seen(o))
            BY <1>0, <3>1 DEF Histories, Distinct
        <3>3. Closed(Seen(w)) /\ Closed(Seen(o))
            BY <1>0 DEF Histories
        <3> QED
            BY <3>2, <3>3, ClosedUnion
    <2>2. Closed(trail') /\ \A o \in Writers : Closed(Seen(o)')
        BY <1>0, <1>3, <2>1 DEF Histories
    <2>3. ASSUME NEW o \in Writers
          PROVE  previous'[o] \in {Unread, NoEvent} \cup NumbersOf(Seen(o)')
        <3>1. NumbersOf(Seen(o)) \subseteq NumbersOf(Seen(o)')
            BY <1>3 DEF NumbersOf
        <3> QED
            BY <1>0, <1>1, <3>1 DEF Histories
    <2> QED
        BY <1>0, <1>1, <1>4, <2>2, <2>3 DEF Histories
<1>7. Serial'
    <2> SUFFICES ASSUME ~ crossed'
                 PROVE  /\ \A a, o \in Writers : Appending(a)' /\ Appending(o)' => a = o
                        /\ Chained(trail')
                        /\ \A o \in Writers :
                              /\ Chained(Seen(o)')
                              /\ previous'[o] # Unread => previous'[o] = LastOf(Seen(o)')
        BY DEF Serial
    <2>1. ~ crossed
        BY <1>1
    <2>2. Appending(w) /\ \A o \in Writers : o # w => ~ Appending(o)
        BY <1>0, <1>1, <2>1 DEF Serial, Appending
    <2>3. \A o \in Writers : ~ Appending(o)'
        BY <1>1, <1>2, <2>2 DEF Appending
    <2>4. \A o \in Writers : Seen(o)' = Seen(w)
        BY <1>1, <1>2, <1>3, <2>2 DEF Appending, Seen
    <2> QED
        BY <1>0, <1>3, <2>1, <2>3, <2>4 DEF Serial, Appending
<1>8. Quoted'
    BY <1>0, <1>1 DEF Quoted
<1> QED
    BY <1>5, <1>6, <1>7, <1>8 DEF AuditIInv

(* A rollback keeps the invariant.                                         *)
LEMMA RollbackKeeps ==
    ASSUME AuditIInv, NEW w \in Writers, Rollback(w)
    PROVE  AuditIInv'
<1>0. /\ AuditTypeOK /\ Histories /\ Serial /\ Quoted /\ crossed \in BOOLEAN
      /\ \A o \in Writers : Seen(o) \subseteq AuditEvent /\ Seen(o) \subseteq Written
    BY AuditFacts
<1>1. /\ Appending(w) /\ writing' = [writing EXCEPT ![w] = {}]
      /\ previous' = [previous EXCEPT ![w] = Unread]
      /\ UNCHANGED <<trail, given, engine, attested, crossed>>
    BY DEF Rollback
<1>2. /\ writing' \in [Writers -> SUBSET AuditEvent] /\ writing'[w] = {}
      /\ \A o \in Writers : o # w => writing'[o] = writing[o]
      /\ previous' \in [Writers -> Number \cup {NoEvent, Unread}] /\ previous'[w] = Unread
      /\ \A o \in Writers : o # w => previous'[o] = previous[o]
    BY <1>0, <1>1 DEF AuditTypeOK
<1>3. Seen(w)' = trail /\ \A o \in Writers : o # w => Seen(o)' = Seen(o)
    BY <1>1, <1>2 DEF Seen
<1>4. Written' \subseteq Written
    <2>1. \A e : e \in Written <=> e \in trail \/ \E o \in Writers : e \in writing[o]
        BY WrittenFacts
    <2>2. \A e : e \in Written' <=> e \in trail' \/ \E o \in Writers : e \in writing'[o]
        BY DEF Written
    <2>3. \A e : e \in Written' => e \in Written
        BY <1>1, <1>2, <2>1, <2>2
    <2> QED
        BY <2>3
<1>5. AuditTypeOK'
    BY <1>0, <1>1, <1>2 DEF AuditTypeOK
<1>6. Histories'
    <2>1. Distinct(Written')
        BY <1>0, <1>4 DEF Histories, Distinct
    <2>2. Closed(trail') /\ \A o \in Writers : Closed(Seen(o)')
        BY <1>0, <1>1, <1>3 DEF Histories
    <2>3. \A o \in Writers : previous'[o] \in {Unread, NoEvent} \cup NumbersOf(Seen(o)')
        BY <1>0, <1>2, <1>3 DEF Histories
    <2> QED
        BY <1>0, <1>1, <1>4, <2>1, <2>2, <2>3 DEF Histories
<1>7. Serial'
    BY <1>0, <1>1, <1>2, <1>3 DEF Serial, Appending
<1>8. Quoted'
    BY <1>0, <1>1 DEF Quoted
<1> QED
    BY <1>5, <1>6, <1>7, <1>8 DEF AuditIInv

(* An attestation of the trail keeps the invariant.                        *)
LEMMA AttestKeeps ==
    ASSUME AuditIInv, AttestTrail
    PROVE  AuditIInv'
<1>0. /\ AuditTypeOK /\ Histories /\ Serial /\ Quoted /\ trail \subseteq AuditEvent
    BY AuditFacts
<1>1. /\ trail # {} /\ VerifyAuditChain(Log)
      /\ attested' = [head |-> LastOf(trail), length |-> Cardinality(trail)]
      /\ UNCHANGED <<trail, writing, previous, given, engine, crossed>>
    BY DEF AttestTrail
<1>2. PICK e \in trail : e.id = LastOf(trail)
    BY <1>0, <1>1, LastOfFacts DEF NumbersOf
<1>3. Distinct(trail)
    BY <1>0, WrittenFacts DEF Histories, Distinct
<1>4. PICK i \in DOMAIN Log : Log[i] = e
    BY <1>0, <1>3, LogFacts
<1>5. /\ Cardinality(trail) \in 0..MaxEvents /\ Cardinality(trail) \in Nat
      /\ DOMAIN Log = 1..Cardinality(trail) /\ Cardinality(Older(Log[i])) = i - 1
      /\ \A j \in DOMAIN Log : Log[j] \in trail
      /\ \A j \in DOMAIN Log : i < j <=> Log[i].id < Log[j].id
    BY <1>0, <1>3, LogFacts
<1>6. i = Cardinality(trail)
    <2> SUFFICES ASSUME i # Cardinality(trail) PROVE FALSE
        OBVIOUS
    <2>1. i + 1 \in DOMAIN Log /\ i < i + 1
        BY <1>5
    <2>2. Log[i].id < Log[i + 1].id /\ Log[i + 1] \in trail
        BY <1>5, <2>1
    <2>3. Log[i + 1].id <= LastOf(trail)
        BY <1>0, <1>1, <2>2, LastOfFacts
    <2>4. Log[i].id \in Nat /\ Log[i + 1].id \in Nat /\ Log[i].id = LastOf(trail)
        BY <1>0, <1>2, <1>4, <2>2 DEF AuditEvent, Number
    <2> QED
        BY <2>2, <2>3, <2>4
<1>7. e.saw = Older(e)
    BY <1>0, <1>1, VerifiedIsSerial
<1>8. Cardinality(trail) = Cardinality(e.saw) + 1
    <2>1. Cardinality(e.saw) = Cardinality(trail) - 1
        BY <1>4, <1>5, <1>6, <1>7
    <2> QED
        BY <1>5, <2>1
<1>9. attested'.head = e.id /\ attested'.length = Cardinality(e.saw) + 1
    BY <1>1, <1>2, <1>8
<1>10. Quoted'
    BY <1>1, <1>9 DEF Quoted
<1>11. LastOf(trail) \in Number
    BY <1>0, <1>2 DEF AuditEvent
<1>12. AuditTypeOK'
    BY <1>0, <1>1, <1>5, <1>11 DEF AuditTypeOK
<1>13. Histories' /\ Serial'
    <2>1. Written' = Written /\ \A w \in Writers : Seen(w)' = Seen(w)
        BY <1>1 DEF Written, Seen
    <2>2. \A w \in Writers : Appending(w)' <=> Appending(w)
        BY <1>1 DEF Appending
    <2> QED
        BY <1>0, <1>1, <2>1, <2>2 DEF Histories, Serial
<1> QED
    BY <1>10, <1>12, <1>13 DEF AuditIInv

(* The trail of a case (append_audit, verify_audit_chain, attestation):    *)
(* when it verifies each act was recorded by a session that saw every act  *)
(* before it, and it still has the head that the attestation quotes at the *)
(* length it quotes; and sessions that do not append at once always leave  *)
(* a trail that verifies.  For any number of sessions and events.          *)
THEOREM VerifiedTrailsAreSerial == AuditSpec => []AuditInv
<1>1. ASSUME AuditInit PROVE AuditIInv
    <2>1. trail = {} /\ Written = {} /\ \A w \in Writers : Seen(w) = {} /\ ~ Appending(w)
        BY <1>1 DEF AuditInit, Written, Seen, Appending
    <2>2. AuditTypeOK
        <3>1. 0 \in 0..MaxEvents
            BY AuditAssumption
        <3>2. previous \in [Writers -> Number \cup {NoEvent, Unread}]
            BY <1>1 DEF AuditInit
        <3>3. attested \in [head : Number \cup {NoEvent}, length : 0..MaxEvents]
            BY <1>1, <3>1 DEF AuditInit, NotAttested
        <3>4. writing \in [Writers -> SUBSET AuditEvent] /\ trail \subseteq AuditEvent
            BY <1>1 DEF AuditInit
        <3> QED
            BY <1>1, <3>1, <3>2, <3>3, <3>4 DEF AuditInit, AuditTypeOK
    <2>3. Histories
        BY <1>1, <2>1 DEF AuditInit, Histories, Distinct, Closed
    <2>4. Serial
        BY <1>1, <2>1 DEF AuditInit, Serial, Chained
    <2>5. Quoted
        BY <1>1 DEF AuditInit, Quoted
    <2> QED
        BY <2>2, <2>3, <2>4, <2>5 DEF AuditIInv
<1>2. AuditIInv /\ [AuditNext]_auditVars => AuditIInv'
    <2> SUFFICES ASSUME AuditIInv, [AuditNext]_auditVars PROVE AuditIInv'
        OBVIOUS
    <2>1. CASE UNCHANGED auditVars
        <3>1. Written' = Written /\ \A w \in Writers : Seen(w)' = Seen(w)
            BY <2>1 DEF auditVars, Written, Seen
        <3>2. \A w \in Writers : Appending(w)' <=> Appending(w)
            BY <2>1 DEF auditVars, Appending
        <3> QED
            BY <2>1, <3>1, <3>2
            DEF auditVars, AuditIInv, AuditTypeOK, Histories, Serial, Quoted
    <2> QED
        BY <2>1, ReadKeeps, FlushKeeps, CommitKeeps, RollbackKeeps, AttestKeeps DEF AuditNext
<1>3. ASSUME AuditIInv PROVE AuditInv
    <2>1. AuditTypeOK /\ Histories /\ Serial /\ Quoted /\ crossed \in BOOLEAN
        BY <1>3, AuditFacts
    <2>2. Distinct(trail)
        BY <2>1, WrittenFacts DEF Histories, Distinct
    <2>3. ~ crossed => VerifyAuditChain(Log)
        BY <2>1, <2>2, ChainedVerifies DEF Serial
    <2>4. /\ DOMAIN Log = 1..Cardinality(trail)
          /\ \A i \in DOMAIN Log : /\ Log[i] \in trail /\ Cardinality(Older(Log[i])) = i - 1
                                   /\ ListedBefore(i) = Older(Log[i])
          /\ \A e \in trail : \E i \in DOMAIN Log : Log[i] = e
        BY <2>1, <2>2, LogFacts
    <2>5. ASSUME VerifyAuditChain(Log)
          PROVE  /\ \A i \in DOMAIN Log : Log[i].saw = {Log[j].id : j \in 1..(i - 1)}
                 /\ attested # NotAttested => /\ attested.length \in DOMAIN Log
                                              /\ Log[attested.length].id = attested.head
        <3>1. \A e \in trail : e.saw = Older(e)
            BY <2>1, <2>5, VerifiedIsSerial
        <3>2. \A i \in DOMAIN Log : Log[i].saw = ListedBefore(i)
            BY <2>4, <3>1
        <3>3. ASSUME attested # NotAttested
              PROVE  attested.length \in DOMAIN Log /\ Log[attested.length].id = attested.head
            <4>1. PICK e \in trail : /\ e.id = attested.head
                                    /\ attested.length = Cardinality(e.saw) + 1
                BY <2>1, <3>3 DEF Quoted
            <4>2. PICK i \in DOMAIN Log : Log[i] = e
                BY <2>4
            <4>3. i \in Nat /\ Cardinality(e.saw) = i - 1
                BY <2>4, <3>1, <4>2
            <4>4. attested.length = i
                BY <4>1, <4>3
            <4> QED
                BY <4>1, <4>2, <4>4
        <3> QED
            BY <3>2, <3>3 DEF ListedBefore
    <2> QED
        BY <2>1, <2>3, <2>5 DEF AuditInv
<1> QED
    BY <1>1, <1>2, <1>3, PTL DEF AuditSpec

-----------------------------------------------------------------------------
(***************************************************************************)
(* The limiter.                                                            *)
(***************************************************************************)
Within(q, V) == Cardinality({i \in DOMAIN q : q[i] \in V})
After(t) == (t + 1)..LastTick

(* In memory a bucket that holds hits is a key of the registry.            *)
HeldKeys ==
    limiter.backend = "memory" => \A x \in Addresses : hits[x] # <<>> => x \in SetOf(recent)

(* ... and where threads do not overtake each other its last hit is the    *)
(* latest, by which the sweep judges it.                                   *)
LastIsLatest ==
    limiter.backend = "memory" /\ limiter.lag = 0 =>
        \A x \in Addresses : \A i \in DOMAIN hits[x] :
            hits[x][i] <= tick /\ hits[x][i] <= hits[x][Len(hits[x])]

(* What was granted since the last window is still in the bucket, so a     *)
(* grant leaves at most max_requests in any window that it falls into.     *)
Counted ==
    limiter.lag = 0 \/ limiter.backend = "redis" =>
        \A c \in Clients \ dropped :
            /\ \A t \in (tick - Window)..LastTick :
                   Within(granted[c], After(t)) <= Within(hits[c], After(t))
            /\ \A s \in 0..LastTick :
                   Within(granted[c], (s - Window + limiter.lag + 1)..s) <= MaxHits

LimiterIInv == LimiterTypeOK /\ HeldKeys /\ LastIsLatest /\ Counted

(* Two sets that are in one-to-one correspondence.                         *)
LEMMA SameCount ==
    ASSUME NEW A, NEW B, IsFiniteSet(B), NEW f \in [A -> B],
           \A a, b \in A : f[a] = f[b] => a = b, \A b \in B : \E a \in A : f[a] = b
    PROVE  IsFiniteSet(A) /\ Cardinality(A) = Cardinality(B)
<1>1. f \in Injection(A, B)
    BY DEF Injection, IsInjective
<1>2. f \in Surjection(A, B)
    BY DEF Surjection
<1> QED
    BY <1>1, <1>2, FS_Injection

(* How many elements of a list fall into a set.                            *)
LEMMA WithinFacts ==
    ASSUME NEW S, NEW q \in Seq(S), NEW V
    PROVE  /\ IsFiniteSet({i \in DOMAIN q : q[i] \in V})
           /\ Within(q, V) \in Nat /\ Within(q, V) <= Len(q)
           /\ \A U : U \subseteq V => Within(q, U) <= Within(q, V)
           /\ (\A i \in DOMAIN q : q[i] \notin V) => Within(q, V) = 0
<1> DEFINE P(U) == {i \in DOMAIN q : q[i] \in U}
<1>1. \A U : P(U) \subseteq DOMAIN q
    OBVIOUS
<1>2. IsFiniteSet(P(V)) /\ Cardinality(P(V)) \in Nat /\ Cardinality(P(V)) <= Len(q)
    <2>1. P(V) \subseteq DOMAIN q
        OBVIOUS
    <2> HIDE DEF P
    <2> QED
        BY <2>1, ExcerptFacts
<1>3. ASSUME NEW U, U \subseteq V PROVE Cardinality(P(U)) <= Cardinality(P(V))
    <2>1. P(U) \in SUBSET P(V)
        BY <1>3
    <2> HIDE DEF P
    <2> QED
        BY <1>2, <2>1, FS_Subset
<1>4. (\A i \in DOMAIN q : q[i] \notin V) => Cardinality(P(V)) = 0
    <2>1. (\A i \in DOMAIN q : q[i] \notin V) => P(V) = {}
        OBVIOUS
    <2> QED
        BY <2>1, FS_EmptySet
<1> QED
    BY <1>2, <1>3, <1>4 DEF Within

(* An instant more counts one more, where it falls in the window.          *)
LEMMA WithinAppend ==
    ASSUME NEW S, NEW q \in Seq(S), NEW v \in S, NEW V
    PROVE  Within(Append(q, v), V) = Within(q, V) + (IF v \in V THEN 1 ELSE 0)
<1> DEFINE A == {i \in DOMAIN q : q[i] \in V}
           r == Append(q, v)
           B == {i \in DOMAIN r : r[i] \in V}
           l == Len(q) + 1
<1>1. /\ DOMAIN r = (DOMAIN q) \cup {l} /\ l \notin DOMAIN q /\ r[l] = v
      /\ \A i \in DOMAIN q : r[i] = q[i]
    OBVIOUS
<1>2. IsFiniteSet(A) /\ Cardinality(A) \in Nat
    BY WithinFacts DEF Within
<1>0. Within(q, V) = Cardinality(A) /\ Within(Append(q, v), V) = Cardinality(B)
    BY DEF Within
<1> HIDE DEF r, l
<1>3. CASE v \in V
    <2>1. B = A \cup {l} /\ l \notin A
        BY <1>1, <1>3
    <2>2. Cardinality(B) = Cardinality(A) + 1
        <3> HIDE DEF A, B
        <3> QED
            BY <1>2, <2>1, FS_AddElement
    <2> QED
        BY <1>0, <1>3, <2>2
<1>4. CASE v \notin V
    <2>1. B = A
        BY <1>1, <1>4
    <2> HIDE DEF A, B
    <2> QED
        BY <1>0, <1>2, <1>4, <2>1
<1> QED
    BY <1>3, <1>4

(* An excerpt counts as many instants as it kept of them.                  *)
LEMMA WithinExcerpt ==
    ASSUME NEW S, NEW q \in Seq(S), NEW D, D \subseteq DOMAIN q, NEW V
    PROVE  Within(Excerpt(q, D), V) = Cardinality({d \in D : q[d] \in V})
<1> DEFINE e == Excerpt(q, D)
           A == {n \in DOMAIN e : e[n] \in V}
           B == {d \in D : q[d] \in V}
           f == [n \in A |-> Nth(D, n)]
<1>1. /\ IsFiniteSet(D)
      /\ \A n \in DOMAIN e : Nth(D, n) \in D /\ e[n] = q[Nth(D, n)]
      /\ \A d \in D : \E n \in DOMAIN e : Nth(D, n) = d
      /\ \A m, n \in DOMAIN e : Nth(D, m) = Nth(D, n) => m = n
    BY ExcerptFacts
<1>2. IsFiniteSet(B)
    <2>1. B \in SUBSET D
        OBVIOUS
    <2> QED
        BY <1>1, <2>1, FS_Subset
<1> HIDE DEF e
<1>3. f \in [A -> B]
    BY <1>1
<1>4. \A a, b \in A : f[a] = f[b] => a = b
    BY <1>1
<1>5. \A b \in B : \E a \in A : f[a] = b
    BY <1>1
<1>6. Cardinality(A) = Cardinality(B)
    <2> HIDE DEF A, B, f
    <2> QED
        BY <1>2, <1>3, <1>4, <1>5, SameCount
<1> QED
    BY <1>6 DEF Within, e

(* The sorted set of Redis loses the expired hits and no other.            *)
LEMMA ExpiredFacts ==
    ASSUME NEW S, S \subseteq Int, NEW q \in Seq(S), NEW t \in Int, NEW V
    PROVE  /\ Expired(q, t) \in Seq(S)
           /\ Within(Expired(q, t), V) <= Within(q, V)
           /\ (\A v \in V : v > t) => Within(Expired(q, t), V) = Within(q, V)
<1> DEFINE D == {i \in DOMAIN q : q[i] > t}
           A == {d \in D : q[d] \in V}
           B == {i \in DOMAIN q : q[i] \in V}
<1>1. D \subseteq DOMAIN q /\ A \subseteq B
    OBVIOUS
<1>2. Expired(q, t) = Excerpt(q, D)
    BY DEF Expired
<1>3. Excerpt(q, D) \in Seq(S) /\ Within(Excerpt(q, D), V) = Cardinality(A)
    <2>1. Excerpt(q, D) \in Seq(S)
        <3> HIDE DEF D
        <3> QED
            BY <1>1, ExcerptFacts
    <2>2. Within(Excerpt(q, D), V) = Cardinality(A)
        <3> HIDE DEF D
        <3> QED
            BY <1>1, WithinExcerpt
    <2> QED
        BY <2>1, <2>2
<1>4. IsFiniteSet(B) /\ Within(q, V) = Cardinality(B)
    BY WithinFacts DEF Within
<1>5. A \in SUBSET B
    BY <1>1
<1>6. (\A v \in V : v > t) => A = B
    OBVIOUS
<1> HIDE DEF A, B, D
<1>7. Cardinality(A) <= Cardinality(B)
    BY <1>4, <1>5, FS_Subset
<1> QED
    BY <1>2, <1>3, <1>4, <1>6, <1>7

(* In memory only expired hits leave from the left, and a bucket that      *)
(* keeps a hit keeps its last one.                                         *)
LEMMA PrunedFacts ==
    ASSUME NEW S, S \subseteq Int, NEW q \in Seq(S), NEW t \in Int
    PROVE  LET p == Pruned(q, t) IN
           /\ p \in Seq(S) /\ \A i \in DOMAIN p : \E j \in DOMAIN q : p[i] = q[j]
           /\ p # <<>> => q # <<>> /\ p[Len(p)] = q[Len(q)]
           /\ \A V : (\A v \in V : v > t) => Within(p, V) = Within(q, V)
<1> DEFINE p == Pruned(q, t)
           live == {i \in DOMAIN q : q[i] > t}
           first == CHOOSE i \in live : \A j \in live : i <= j
<1>0. Len(q) \in Nat /\ DOMAIN q = 1..Len(q) /\ \A i \in DOMAIN q : q[i] \in Int
    <2>1. Len(q) \in Nat /\ DOMAIN q = 1..Len(q) /\ \A i \in DOMAIN q : q[i] \in S
        OBVIOUS
    <2> QED
        BY <2>1
<1>1. CASE live = {}
    <2>1. p = <<>>
        BY <1>1 DEF Pruned
    <2>2. ASSUME NEW V, \A v \in V : v > t PROVE Within(p, V) = Within(q, V)
        <3>1. \A i \in DOMAIN q : q[i] \notin V
            BY <1>1, <2>2
        <3>2. <<>> \in Seq(S) /\ \A i \in DOMAIN <<>> : <<>>[i] \notin V
            OBVIOUS
        <3>3. Within(<<>>, V) = 0
            BY <3>2, WithinFacts
        <3> QED
            BY <2>1, <3>1, <3>3, WithinFacts
    <2> QED
        BY <2>1, <2>2
<1>2. CASE live # {}
    <2>1. live \subseteq Nat
        BY <1>0
    <2>2. \E i \in live : \A j \in live : i <= j
        <3> HIDE DEF live
        <3> QED
            BY <1>2, <2>1, LeastNat
    <2>3. first \in live /\ \A j \in live : first <= j
        BY <2>2
    <2>4. first \in 1..Len(q)
        BY <1>0, <2>3
    <2>5. p = SubSeq(q, first, Len(q))
        BY <1>2 DEF Pruned
    <2>6. \A i \in first..Len(q) : q[i] \in S
        BY <1>0, <2>4
    <2> DEFINE n == Len(q) - first + 1
    <2>7. /\ p \in Seq(S) /\ Len(p) = n /\ n \in Nat /\ n > 0 /\ DOMAIN p = 1..n
          /\ \A i \in 1..n : p[i] = q[first + i - 1]
        <3>1. first \in Int /\ Len(q) \in Int /\ first <= Len(q)
            BY <1>0, <2>4
        <3> HIDE DEF first
        <3>2. /\ SubSeq(q, first, Len(q)) \in Seq(S)
              /\ Len(SubSeq(q, first, Len(q))) = n
              /\ \A i \in 1..n : SubSeq(q, first, Len(q))[i] = q[first + i - 1]
            BY <2>6, <3>1, SubSeqProperties
        <3>3. n \in Nat /\ n > 0
            BY <3>1
        <3> HIDE DEF p, n
        <3> QED
            BY <2>5, <3>2, <3>3
    <2> HIDE DEF p, first
    <2>8. ASSUME NEW i \in DOMAIN p
          PROVE  first + i - 1 \in DOMAIN q /\ p[i] = q[first + i - 1]
        BY <1>0, <2>4, <2>7
    <2>9. p[Len(p)] = q[Len(q)] /\ q # <<>>
        <3>1. n \in 1..n /\ first + n - 1 = Len(q)
            BY <1>0, <2>4, <2>7
        <3> QED
            BY <1>0, <2>4, <2>7, <3>1
    <2>10. ASSUME NEW V, \A v \in V : v > t PROVE Within(p, V) = Within(q, V)
        <3> DEFINE A == {i \in DOMAIN p : p[i] \in V}
                   B == {i \in DOMAIN q : q[i] \in V}
                   f == [i \in A |-> first + i - 1]
        <3>1. f \in [A -> B]
            BY <2>8
        <3>2. ASSUME NEW a \in A, NEW b \in A, f[a] = f[b] PROVE a = b
            <4>1. a \in Int /\ b \in Int /\ first \in Int
                BY <2>4, <2>7
            <4>2. first + a - 1 = first + b - 1
                BY <3>2
            <4> QED
                BY <4>1, <4>2
        <3>3. ASSUME NEW b \in B PROVE \E a \in A : f[a] = b
            <4>1. b \in DOMAIN q /\ q[b] > t
                BY <2>10
            <4>2. b \in live
                BY <4>1
            <4>3. first <= b /\ b \in 1..Len(q)
                BY <1>0, <2>3, <4>1, <4>2
            <4>4. b - first + 1 \in 1..n /\ first + (b - first + 1) - 1 = b
                BY <1>0, <2>4, <4>3
            <4>5. b - first + 1 \in A
                BY <2>7, <4>4
            <4> QED
                BY <4>4, <4>5
        <3>4. IsFiniteSet(B)
            BY WithinFacts
        <3>5. Cardinality(A) = Cardinality(B)
            <4> HIDE DEF A, B, f
            <4> QED
                BY <3>1, <3>2, <3>3, <3>4, SameCount
        <3> QED
            BY <3>5 DEF Within
    <2> QED
        BY <2>7, <2>8, <2>9, <2>10 DEF p
<1> QED
    BY <1>1, <1>2

(* The registry after an access: the key goes to the end.                  *)
LEMMA AccessedFacts ==
    ASSUME NEW S, NEW s \in Seq(S), NEW k \in S
    PROVE  LET o == Append(Without(s, k), k) IN
           /\ o \in Seq(S) /\ SetOf(o) = SetOf(s) \cup {k}
           /\ k \in SetOf(s) => Len(o) <= Len(s)
<1> DEFINE D == {i \in DOMAIN s : s[i] # k}
           w == Without(s, k)
<1>0. D \subseteq DOMAIN s /\ w = Excerpt(s, D) /\ Len(s) \in Nat /\ DOMAIN s = 1..Len(s)
    BY DEF Without
<1>1. /\ w \in Seq(S) /\ Len(w) = Cardinality(D) /\ Cardinality(D) <= Len(s)
      /\ DOMAIN w = 1..Len(w) /\ Cardinality(D) \in Nat
      /\ \A n \in DOMAIN w : Nth(D, n) \in D /\ w[n] = s[Nth(D, n)]
      /\ \A d \in D : \E n \in DOMAIN w : Nth(D, n) = d
    <2> HIDE DEF D, w
    <2> QED
        BY <1>0, ExcerptFacts
<1> DEFINE o == Append(w, k)
<1> HIDE DEF w
<1>2. /\ o \in Seq(S) /\ Len(o) = Len(w) + 1 /\ DOMAIN o = DOMAIN w \cup {Len(w) + 1}
      /\ o[Len(w) + 1] = k /\ \A n \in DOMAIN w : o[n] = w[n]
    <2>1. w \in Seq(S)
        BY <1>1
    <2> QED
        BY <2>1
<1>3. SetOf(o) = SetOf(s) \cup {k}
    <2>1. ASSUME NEW x \in SetOf(s), x # k PROVE \E n \in DOMAIN w : w[n] = x
        <3>1. PICK d \in DOMAIN s : s[d] = x
            BY DEF SetOf
        <3>2. PICK n \in DOMAIN w : Nth(D, n) = d
            BY <1>1, <2>1, <3>1
        <3> QED
            BY <1>1, <3>1, <3>2
    <2>2. \A n \in DOMAIN w : w[n] \in SetOf(s)
        BY <1>1 DEF SetOf
    <2> HIDE DEF o, D
    <2>3. \A x : x \in SetOf(o) <=> \E n \in DOMAIN o : o[n] = x
        BY DEF SetOf
    <2>4. \A x : x \in SetOf(o) <=> x \in SetOf(s) \cup {k}
        BY <1>2, <2>1, <2>2, <2>3
    <2> QED
        BY <2>4
<1>4. ASSUME k \in SetOf(s) PROVE Len(o) <= Len(s)
    <2>1. PICK i \in DOMAIN s : s[i] = k
        BY <1>4 DEF SetOf
    <2>2. D # DOMAIN s /\ D \in SUBSET DOMAIN s
        BY <2>1
    <2>3. IsFiniteSet(DOMAIN s) /\ Cardinality(DOMAIN s) = Len(s)
        <3>1. 1 \in Int /\ Len(s) \in Int
            BY <1>0
        <3>2. /\ IsFiniteSet(1..Len(s))
              /\ Cardinality(1..Len(s)) = IF 1 > Len(s) THEN 0 ELSE Len(s) - 1 + 1
            BY <3>1, FS_Interval
        <3> QED
            BY <1>0, <3>2
    <2>4. Cardinality(D) # Len(s)
        <3> HIDE DEF D
        <3> QED
            BY <2>2, <2>3, FS_Subset
    <2> HIDE DEF D
    <2> QED
        BY <1>0, <1>1, <1>2, <2>4
<1> QED
    BY <1>2, <1>3, <1>4 DEF w

(* ... and after a sweep and an eviction.                                  *)
LEMMA SweptFacts ==
    ASSUME NEW S, NEW order \in Seq(S), NEW h, NEW cutoff
    PROVE  LET left == Swept(h, order, cutoff) IN
           /\ left \in Seq(S)
           /\ SetOf(left) = {x \in SetOf(order) : ~ StaleKey(h[x], cutoff)}
<1> DEFINE D == {i \in DOMAIN order : ~ StaleKey(h[order[i]], cutoff)}
           left == Swept(h, order, cutoff)
<1>1. D \subseteq DOMAIN order /\ left = Excerpt(order, D)
    BY DEF Swept
<1>2. /\ left \in Seq(S)
      /\ \A n \in DOMAIN left : Nth(D, n) \in D /\ left[n] = order[Nth(D, n)]
      /\ \A d \in D : \E n \in DOMAIN left : Nth(D, n) = d
    <2> HIDE DEF D, left
    <2> QED
        BY <1>1, ExcerptFacts
<1> HIDE DEF left
<1>3. ASSUME NEW x \in SetOf(left) PROVE x \in SetOf(order) /\ ~ StaleKey(h[x], cutoff)
    <2>1. PICK n \in DOMAIN left : left[n] = x
        BY DEF SetOf
    <2>2. Nth(D, n) \in DOMAIN order /\ order[Nth(D, n)] = x
        BY <1>2, <2>1
    <2> QED
        BY <1>2, <2>1, <2>2 DEF SetOf
<1>4. ASSUME NEW x \in SetOf(order), ~ StaleKey(h[x], cutoff) PROVE x \in SetOf(left)
    <2>1. PICK d \in DOMAIN order : order[d] = x
        BY DEF SetOf
    <2>2. PICK n \in DOMAIN left : Nth(D, n) = d
        BY <1>2, <1>4, <2>1
    <2> QED
        BY <1>2, <2>1, <2>2 DEF SetOf
<1> QED
    BY <1>2, <1>3, <1>4 DEF left

(* Eviction leaves at most the capacity, of the keys there were.           *)
LEMMA KeptFacts ==
    ASSUME NEW S, NEW order \in Seq(S), limiter.capacity \in Nat \ {0}
    PROVE  /\ Kept(order) \in Seq(S) /\ Len(Kept(order)) <= limiter.capacity
           /\ SetOf(Kept(order)) \subseteq SetOf(order)
<1> DEFINE l == Len(order)
           from == IF l > limiter.capacity THEN l - limiter.capacity + 1 ELSE 1
           k == SubSeq(order, from, l)
<1>1. l \in Nat /\ from \in Nat /\ from > 0 /\ l - from + 1 <= limiter.capacity
    OBVIOUS
<1>2. k = Kept(order)
    BY DEF Kept
<1>3. \A i \in from..l : order[i] \in S /\ i \in DOMAIN order
    BY <1>1
<1>4. /\ k \in Seq(S) /\ Len(k) = (IF from <= l THEN l - from + 1 ELSE 0)
      /\ \A i \in 1..(l - from + 1) : k[i] = order[from + i - 1]
    <2>1. from \in Int /\ l \in Int
        BY <1>1
    <2> HIDE DEF from, l
    <2> QED
        BY <1>3, <2>1, SubSeqProperties
<1> HIDE DEF k, from, l
<1>5. Len(k) <= limiter.capacity
    BY <1>1, <1>4
<1>6. ASSUME NEW i \in DOMAIN k PROVE k[i] \in SetOf(order)
    <2>1. i \in 1..(l - from + 1)
        BY <1>1, <1>4
    <2>2. from + i - 1 \in from..l
        BY <1>1, <2>1
    <2> QED
        BY <1>3, <1>4, <2>1, <2>2 DEF SetOf
<1> QED
    BY <1>2, <1>4, <1>5, <1>6 DEF SetOf

(* Whatever a client writes in its header and whichever proxies it comes   *)
(* through, the key of its requests is its own address.                    *)
LEMMA KeyIsClient ==
    ASSUME NEW c \in Clients
    PROVE  KeysOf(c) = {c}
<1>0. c \notin Proxies /\ c # Unreadable
    BY RateLimiterAssumption
<1> DEFINE H == Addresses \cup {Unreadable}
<1>1. Forged \subseteq Seq(H) /\ <<>> \in Forged
    <2>1. <<>> \in Seq(H) /\ \A x \in H : <<x>> \in Seq(H)
        OBVIOUS
    <2> QED
        BY <2>1 DEF Forged
<1>2. ASSUME NEW peer, NEW hops, NEW n \in DOMAIN hops, hops[n] = c, hops # <<>>,
             DOMAIN hops \subseteq Nat, \A i \in DOMAIN hops : n < i => hops[i] \in Proxies,
             peer \in Proxies
      PROVE  ClientKey(peer, hops) = c
    <2> DEFINE stops == {i \in DOMAIN hops : hops[i] \notin Proxies}
               last == CHOOSE i \in stops : \A j \in stops : j <= i
    <2>1. n \in stops /\ \A j \in stops : j <= n
        BY <1>0, <1>2
    <2>2. last \in stops /\ \A j \in stops : j <= last
        BY <2>1
    <2>3. last = n
        BY <1>2, <2>1, <2>2
    <2> HIDE DEF last
    <2>4. stops # {} /\ hops[last] = c
        BY <1>2, <2>1, <2>3
    <2> QED
        BY <1>0, <1>2, <2>4 DEF ClientKey, last
<1>3. ASSUME NEW a \in Arrivals(c) PROVE ClientKey(a.peer, a.hops) = c
    <2> DEFINE direct == {[peer |-> c, hops |-> h] : h \in Forged}
               one == {[peer |-> p, hops |-> Append(h, c)] : p \in Proxies, h \in Forged}
               far(p, q, h) == [peer |-> p, hops |-> h \o <<c, q>>]
               two == {far(p, q, h) : p \in Proxies, q \in Proxies, h \in Forged}
    <2>1. CASE a \in direct
        BY <1>0, <2>1 DEF ClientKey
    <2>2. CASE a \in one
        <3>1. PICK p \in Proxies, h \in Forged : a = [peer |-> p, hops |-> Append(h, c)]
            BY <2>2
        <3>2. h \in Seq(H)
            BY <1>1
        <3>3. c \in H
            BY DEF Addresses
        <3> DEFINE hops == Append(h, c)
                   n == Len(h) + 1
        <3>4. /\ n \in DOMAIN hops /\ hops[n] = c /\ hops # <<>> /\ DOMAIN hops \subseteq Nat
              /\ \A i \in DOMAIN hops : ~ (n < i)
            BY <3>2, <3>3
        <3> HIDE DEF hops
        <3>5. ClientKey(p, hops) = c
            BY <1>2, <3>4
        <3> QED
            BY <3>1, <3>5 DEF hops
    <2>3. CASE a \in two
        <3>1. PICK p \in Proxies, r \in Proxies, h \in Forged : a = far(p, r, h)
            <4> HIDE DEF far
            <4> QED
                BY <2>3
        <3>2. h \in Seq(H)
            BY <1>1
        <3>3. c \in H /\ r \in H
            BY DEF Addresses
        <3> DEFINE hops == h \o <<c, r>>
                   n == Len(h) + 1
        <3>4. /\ Len(h) \in Nat /\ Len(hops) = Len(h) + 2 /\ DOMAIN hops = 1..(Len(h) + 2)
              /\ hops[Len(h) + 1] = c /\ hops[Len(h) + 2] = r
            BY <3>2, <3>3
        <3> HIDE DEF hops
        <3>5. hops # <<>>
            BY <3>4
        <3>6. \A i \in DOMAIN hops : n < i => i = Len(h) + 2
            BY <3>4
        <3>7. ClientKey(p, hops) = c
            BY <1>2, <3>4, <3>5, <3>6
        <3> QED
            BY <3>1, <3>7 DEF hops
    <2>4. Arrivals(c) = direct \cup one \cup two
        BY DEF Arrivals
    <2>5. a \in direct \/ a \in one \/ a \in two
        <3> HIDE DEF direct, one, two
        <3> QED
            BY <2>4
    <2> HIDE DEF direct, one, two
    <2> QED
        BY <2>1, <2>2, <2>3, <2>5
<1>4. [peer |-> c, hops |-> <<>>] \in Arrivals(c)
    BY <1>1 DEF Arrivals
<1>5. KeysOf(c) # {}
    BY <1>4 DEF KeysOf
<1>6. \A k \in KeysOf(c) : k = c
    BY <1>3 DEF KeysOf
<1> QED
    BY <1>5, <1>6

(* What the types and the assumption say of the numbers.                   *)
LEMMA LimiterNumbers ==
    ASSUME LimiterTypeOK
    PROVE  /\ tick \in Nat /\ tick <= LastTick /\ tick \in 0..LastTick /\ swept \in 0..LastTick
           /\ LastTick \in Nat /\ Window \in Nat /\ Window > 0 /\ MaxHits \in Nat /\ MaxHits > 0
           /\ limiter.backend \in {"memory", "redis"} /\ limiter.lag \in {0, 1}
           /\ limiter.capacity \in Nat \ {0} /\ 0..LastTick \subseteq Int
           /\ Clients \subseteq Addresses
           /\ hits \in [Addresses -> Seq(0..LastTick)] /\ recent \in Seq(Addresses)
           /\ granted \in [Clients -> Seq(0..LastTick)] /\ dropped \subseteq Clients
           /\ \A t \in Int : \A v \in After(t) : v > t
<1>1. LastTick \in Nat /\ Window \in Nat /\ Window > 0 /\ MaxHits \in Nat /\ MaxHits > 0
      /\ Capacities \subseteq Nat \ {0}
    BY RateLimiterAssumption
<1>2. limiter.backend \in {"memory", "redis"} /\ limiter.lag \in {0, 1}
      /\ limiter.capacity \in Capacities
    BY DEF LimiterTypeOK
<1>3. \A t \in Int : \A v \in After(t) : v > t
    BY <1>1 DEF After
<1>4. tick \in 0..LastTick /\ swept \in 0..LastTick
    BY DEF LimiterTypeOK
<1>5. tick \in Nat /\ tick <= LastTick /\ 0..LastTick \subseteq Int
    BY <1>1, <1>4
<1>6. /\ hits \in [Addresses -> Seq(0..LastTick)] /\ recent \in Seq(Addresses)
      /\ granted \in [Clients -> Seq(0..LastTick)] /\ dropped \subseteq Clients
    BY DEF LimiterTypeOK
<1>7. Clients \subseteq Addresses
    BY DEF Addresses
<1>8. limiter.capacity \in Nat \ {0}
    BY <1>1, <1>2
<1> QED
    BY <1>1, <1>2, <1>3, <1>4, <1>5, <1>6, <1>7, <1>8

(* A grant: in a window that holds it there are fewer than max_requests    *)
(* others, since all of them are in the bucket; windows that do not hold   *)
(* it count what they counted.                                             *)
LEMMA GrantCounts ==
    ASSUME LimiterTypeOK, NEW g \in Seq(0..LastTick), NEW b \in Seq(0..LastTick),
           NEW now \in 0..LastTick, NEW lag \in {0, 1}, tick - lag <= now, now <= tick,
           Len(b) < MaxHits,
           \A t \in (tick - Window)..LastTick : Within(g, After(t)) <= Within(b, After(t)),
           \A s \in 0..LastTick : Within(g, (s - Window + lag + 1)..s) <= MaxHits
    PROVE  LET n == Append(Expired(g, tick - Window - 1), now) IN
           /\ \A t \in (tick - Window)..LastTick :
                  Within(n, After(t)) <= Within(Append(b, now), After(t))
           /\ \A s \in 0..LastTick : Within(n, (s - Window + lag + 1)..s) <= MaxHits
<1> DEFINE e == Expired(g, tick - Window - 1)
           n == Append(e, now)
<1>0. /\ tick \in Nat /\ tick <= LastTick /\ LastTick \in Nat /\ Window \in Nat /\ Window > 0
      /\ MaxHits \in Nat /\ 0..LastTick \subseteq Int /\ now \in Nat /\ now <= LastTick
      /\ tick - Window - 1 \in Int /\ Len(b) \in Nat
    <2>1. /\ tick \in Nat /\ tick <= LastTick /\ LastTick \in Nat /\ Window \in Nat /\ Window > 0
          /\ MaxHits \in Nat /\ 0..LastTick \subseteq Int
        BY LimiterNumbers
    <2>2. Len(b) \in Nat
        OBVIOUS
    <2> QED
        BY <2>1, <2>2
<1>1. e \in Seq(0..LastTick) /\ \A V : Within(e, V) <= Within(g, V)
    BY <1>0, ExpiredFacts
<1> HIDE DEF e
<1>2. \A V : /\ Within(n, V) = Within(e, V) + (IF now \in V THEN 1 ELSE 0)
             /\ Within(Append(b, now), V) = Within(b, V) + (IF now \in V THEN 1 ELSE 0)
    BY <1>1, WithinAppend
<1>3. \A V : /\ Within(e, V) \in Nat /\ Within(g, V) \in Nat /\ Within(b, V) \in Nat
             /\ Within(b, V) <= Len(b)
    BY <1>1, WithinFacts
<1> HIDE DEF n
<1>4. ASSUME NEW t \in (tick - Window)..LastTick
      PROVE  Within(n, After(t)) <= Within(Append(b, now), After(t))
    <2>1. Within(e, After(t)) <= Within(b, After(t))
        BY <1>1, <1>3
    <2> QED
        BY <1>2, <1>3, <2>1
<1>5. ASSUME NEW s \in 0..LastTick PROVE Within(n, (s - Window + lag + 1)..s) <= MaxHits
    <2> DEFINE V == (s - Window + lag + 1)..s
               t == tick - Window
    <2>1. CASE now \in V
        <3>1. V \subseteq After(t)
            BY <1>0, <2>1 DEF After
        <3>2. t \in (tick - Window)..LastTick
            BY <1>0
        <3> HIDE DEF V, t
        <3>3. Within(g, V) <= Within(g, After(t))
            BY <3>1, WithinFacts
        <3>4. Within(g, After(t)) <= Within(b, After(t))
            BY <3>2
        <3>5. Within(e, V) < MaxHits
            BY <1>0, <1>1, <1>3, <3>3, <3>4
        <3>6. Within(n, V) = Within(e, V) + 1
            BY <1>2, <2>1
        <3>7. Within(n, V) <= MaxHits
            BY <1>0, <1>3, <3>5, <3>6
        <3> QED
            BY <3>7 DEF V
    <2>2. CASE now \notin V
        <3>1. Within(g, V) <= MaxHits
            OBVIOUS
        <3> HIDE DEF V
        <3>2. Within(n, V) = Within(e, V)
            BY <1>2, <1>3, <2>2
        <3>3. Within(n, V) <= MaxHits
            BY <1>0, <1>1, <1>3, <3>1, <3>2
        <3> QED
            BY <3>3 DEF V
    <2> QED
        BY <2>1, <2>2
<1> QED
    BY <1>4, <1>5 DEF n, e

(* A request answered by Redis keeps the invariant.                        *)
LEMMA RedisKeeps ==
    ASSUME LimiterIInv, NEW c \in Clients, NEW behind \in {0, 1}, behind <= limiter.lag,
           behind <= tick, limiter.backend = "redis", AllowInRedis(c, c, tick - behind),
           UNCHANGED <<tick, limiter>>
    PROVE  LimiterIInv'
<1>0. /\ LimiterTypeOK /\ HeldKeys /\ LastIsLatest /\ Counted
    BY DEF LimiterIInv
<1>1. /\ tick \in Nat /\ tick <= LastTick /\ LastTick \in Nat /\ Window \in Nat /\ Window > 0
      /\ MaxHits \in Nat /\ 0..LastTick \subseteq Int /\ limiter.lag \in {0, 1}
      /\ c \in Addresses /\ hits \in [Addresses -> Seq(0..LastTick)]
      /\ granted \in [Clients -> Seq(0..LastTick)]
      /\ \A t \in Int : \A v \in After(t) : v > t
    BY <1>0, LimiterNumbers
<1> DEFINE now == tick - behind
           b == Expired(hits[c], now - Window)
           g == Append(Expired(granted[c], tick - Window - 1), now)
<1>2. /\ now \in 0..LastTick /\ now - Window \in Int /\ tick - limiter.lag <= now /\ now <= tick
      /\ tick - Window - 1 \in Int
    BY <1>1
<1>3. hits[c] \in Seq(0..LastTick) /\ granted[c] \in Seq(0..LastTick)
    BY <1>1
<1>4. /\ b \in Seq(0..LastTick)
      /\ \A t \in (tick - Window)..LastTick : Within(b, After(t)) = Within(hits[c], After(t))
    <2>1. ASSUME NEW t \in (tick - Window)..LastTick
          PROVE  Within(b, After(t)) = Within(hits[c], After(t))
        <3>1. t \in Int /\ now - Window <= t
            BY <1>1, <1>2
        <3>2. \A v \in After(t) : v > now - Window
            BY <1>1, <1>2, <3>1 DEF After
        <3> HIDE DEF now
        <3> QED
            BY <1>1, <1>2, <1>3, <3>2, ExpiredFacts
    <2> HIDE DEF now
    <2>2. b \in Seq(0..LastTick)
        BY <1>1, <1>2, <1>3, ExpiredFacts
    <2> QED
        BY <2>1, <2>2
<1>5. Append(b, now) \in Seq(0..LastTick) /\ g \in Seq(0..LastTick)
    <2>1. Expired(granted[c], tick - Window - 1) \in Seq(0..LastTick)
        BY <1>1, <1>2, <1>3, ExpiredFacts
    <2> HIDE DEF b, now
    <2> QED
        BY <1>2, <1>4, <2>1
<1>6. /\ UNCHANGED <<recent, swept, dropped, tick, limiter>>
      /\ \/ /\ hits' = [hits EXCEPT ![c] = b] /\ granted' = granted
         \/ /\ ~ (Len(b) >= MaxHits) /\ hits' = [hits EXCEPT ![c] = Append(b, now)]
            /\ granted' = [granted EXCEPT ![c] = IF c \in dropped THEN <<>> ELSE g]
    BY DEF AllowInRedis, Remember
<1> HIDE DEF now, b, g
<1>7. /\ hits' \in [Addresses -> Seq(0..LastTick)] /\ granted' \in [Clients -> Seq(0..LastTick)]
      /\ \A d \in Clients : d # c => hits'[d] = hits[d] /\ granted'[d] = granted[d]
    <2>1. <<>> \in Seq(0..LastTick)
        OBVIOUS
    <2>2. \A d \in Clients : d \in Addresses
        BY DEF Addresses
    <2> QED
        BY <1>1, <1>4, <1>5, <1>6, <2>1, <2>2
<1>8. LimiterTypeOK'
    BY <1>0, <1>6, <1>7 DEF LimiterTypeOK
<1>9. HeldKeys' /\ LastIsLatest'
    BY <1>6 DEF HeldKeys, LastIsLatest
<1>10. ASSUME c \notin dropped
       PROVE  /\ \A t \in (tick - Window)..LastTick :
                     Within(granted'[c], After(t)) <= Within(hits'[c], After(t))
              /\ \A s \in 0..LastTick :
                     Within(granted'[c], (s - Window + limiter.lag + 1)..s) <= MaxHits
    <2>1. /\ \A t \in (tick - Window)..LastTick :
                 Within(granted[c], After(t)) <= Within(b, After(t))
          /\ \A s \in 0..LastTick :
                 Within(granted[c], (s - Window + limiter.lag + 1)..s) <= MaxHits
        BY <1>0, <1>4, <1>10 DEF Counted
    <2>2. CASE hits' = [hits EXCEPT ![c] = b] /\ granted' = granted
        <3>1. hits'[c] = b /\ granted'[c] = granted[c]
            BY <1>1, <2>2
        <3> QED
            BY <2>1, <3>1
    <2>3. CASE /\ ~ (Len(b) >= MaxHits) /\ hits' = [hits EXCEPT ![c] = Append(b, now)]
               /\ granted' = [granted EXCEPT ![c] = IF c \in dropped THEN <<>> ELSE g]
        <3>1. hits'[c] = Append(b, now) /\ granted'[c] = g
            BY <1>1, <1>10, <2>3
        <3>2. Len(b) < MaxHits
            <4>1. Len(b) \in Nat
                BY <1>4
            <4> QED
                BY <1>1, <2>3, <4>1
        <3>3. LET n == Append(Expired(granted[c], tick - Window - 1), now) IN
              /\ \A t \in (tick - Window)..LastTick :
                     Within(n, After(t)) <= Within(Append(b, now), After(t))
              /\ \A s \in 0..LastTick :
                     Within(n, (s - Window + limiter.lag + 1)..s) <= MaxHits
            BY <1>0, <1>1, <1>2, <1>3, <1>4, <2>1, <3>2, GrantCounts
        <3> QED
            BY <3>1, <3>3 DEF g
    <2> QED
        BY <1>6, <2>2, <2>3
<1>11. Counted'
    <2>1. ASSUME NEW d \in Clients \ dropped
          PROVE  /\ \A t \in (tick - Window)..LastTick :
                        Within(granted'[d], After(t)) <= Within(hits'[d], After(t))
                 /\ \A s \in 0..LastTick :
                        Within(granted'[d], (s - Window + limiter.lag + 1)..s) <= MaxHits
        <3>1. CASE d = c
            BY <1>10, <3>1
        <3>2. CASE d # c
            BY <1>0, <1>7, <3>2 DEF Counted
        <3> QED
            BY <3>1, <3>2
    <2>2. tick' = tick /\ dropped' = dropped /\ limiter' = limiter
        BY <1>6
    <2> QED
        BY <2>1, <2>2 DEF Counted
<1> QED
    BY <1>8, <1>9, <1>11 DEF LimiterIInv

(* In memory, a request that is refused.                                   *)
LEMMA RefusalKeeps ==
    ASSUME LimiterIInv, NEW c \in Clients, NEW behind \in {0, 1}, behind <= limiter.lag,
           behind <= tick, limiter.backend = "memory",
           Len(Pruned(hits[c], tick - behind - Window)) >= MaxHits,
           hits' = [hits EXCEPT ![c] = Pruned(hits[c], tick - behind - Window)],
           recent' = Append(Without(recent, c), c),
           UNCHANGED <<swept, granted, dropped, tick, limiter>>
    PROVE  LimiterIInv'
<1>0. LimiterTypeOK /\ HeldKeys /\ LastIsLatest /\ Counted
    BY DEF LimiterIInv
<1>1. /\ tick \in Nat /\ tick <= LastTick /\ LastTick \in Nat /\ Window \in Nat /\ Window > 0
      /\ MaxHits \in Nat /\ MaxHits > 0 /\ 0..LastTick \subseteq Int /\ limiter.lag \in {0, 1}
      /\ c \in Addresses /\ hits \in [Addresses -> Seq(0..LastTick)] /\ Clients \subseteq Addresses
      /\ recent \in Seq(Addresses) /\ Len(recent) <= limiter.capacity
      /\ \A t \in Int : \A v \in After(t) : v > t
    BY <1>0, LimiterNumbers DEF LimiterTypeOK
<1> DEFINE cutoff == tick - behind - Window
           b == Pruned(hits[c], cutoff)
           q == hits[c]
<1>2. cutoff \in Int /\ cutoff <= tick - Window /\ q \in Seq(0..LastTick)
    BY <1>1
<1>3. /\ b \in Seq(0..LastTick) /\ \A i \in DOMAIN b : \E j \in DOMAIN q : b[i] = q[j]
      /\ b # <<>> => q # <<>> /\ b[Len(b)] = q[Len(q)]
      /\ \A V : (\A v \in V : v > cutoff) => Within(b, V) = Within(q, V)
    <2> HIDE DEF cutoff, q
    <2> QED
        BY <1>1, <1>2, PrunedFacts, SMTT(30) DEF q
<1>4. q # <<>>
    <2>1. b # <<>>
        <3>1. Len(b) >= MaxHits
            OBVIOUS
        <3> QED
            BY <1>1, <3>1
    <2> QED
        BY <1>3, <2>1
<1>5. hits' = [hits EXCEPT ![c] = b]
    OBVIOUS
<1> HIDE DEF b, q, cutoff
<1>6. /\ hits' \in [Addresses -> Seq(0..LastTick)] /\ hits'[c] = b
      /\ \A x \in Addresses : x # c => hits'[x] = hits[x]
    BY <1>1, <1>3, <1>5
<1>7. /\ recent' \in Seq(Addresses) /\ SetOf(recent') = SetOf(recent) \cup {c}
      /\ Len(recent') <= limiter.capacity
    <2>1. c \in SetOf(recent)
        BY <1>0, <1>1, <1>4 DEF HeldKeys, q
    <2>2. /\ recent' \in Seq(Addresses) /\ SetOf(recent') = SetOf(recent) \cup {c}
          /\ Len(recent') <= Len(recent)
        BY <1>1, <2>1, AccessedFacts
    <2>3. Len(recent') \in Nat /\ Len(recent) \in Nat /\ limiter.capacity \in Nat
        BY <1>0, <1>1, <2>2, LimiterNumbers
    <2> QED
        BY <1>1, <2>2, <2>3
<1>8. LimiterTypeOK'
    BY <1>0, <1>6, <1>7 DEF LimiterTypeOK
<1>9. HeldKeys'
    BY <1>0, <1>1, <1>6, <1>7, <1>4 DEF HeldKeys, q
<1>10. LastIsLatest'
    <2> SUFFICES ASSUME limiter.lag = 0, NEW x \in Addresses, NEW i \in DOMAIN hits'[x]
                 PROVE  hits'[x][i] <= tick /\ hits'[x][i] <= hits'[x][Len(hits'[x])]
        BY DEF LastIsLatest
    <2>1. CASE x # c
        BY <1>0, <1>6, <2>1 DEF LastIsLatest
    <2>2. CASE x = c
        <3>1. i \in DOMAIN b /\ b # <<>>
            BY <1>6, <2>2
        <3>2. PICK j \in DOMAIN q : b[i] = q[j]
            BY <1>3, <3>1
        <3>3. q[j] <= tick /\ q[j] <= q[Len(q)]
            BY <1>0, <1>1 DEF LastIsLatest, q
        <3> QED
            BY <1>3, <1>6, <2>2, <3>1, <3>2, <3>3
    <2> QED
        BY <2>1, <2>2
<1>11. Counted'
    <2>1. ASSUME NEW t \in (tick - Window)..LastTick, NEW d \in Clients
          PROVE  Within(hits'[d], After(t)) = Within(hits[d], After(t))
        <3>1. CASE d # c
            BY <1>1, <1>6, <3>1
        <3>2. CASE d = c
            <4>1. t \in Int /\ cutoff <= t
                BY <1>1, <1>2
            <4>2. \A v \in After(t) : v > cutoff
                BY <1>1, <1>2, <4>1 DEF After
            <4> QED
                BY <1>3, <1>6, <3>2, <4>2 DEF q
        <3> QED
            BY <3>1, <3>2
    <2> QED
        BY <1>0, <2>1 DEF Counted
<1> QED
    BY <1>8, <1>9, <1>10, <1>11 DEF LimiterIInv

(* In memory, a request that is granted, with its sweep and its eviction.  *)
LEMMA GrantKeeps ==
    ASSUME LimiterIInv, NEW c \in Clients, NEW behind \in {0, 1}, behind <= limiter.lag,
           behind <= tick, limiter.backend = "memory",
           ~ (Len(Pruned(hits[c], tick - behind - Window)) >= MaxHits),
           AllowInMemory(c, c, tick - behind), UNCHANGED <<tick, limiter>>
    PROVE  LimiterIInv'
<1>0. LimiterTypeOK /\ HeldKeys /\ LastIsLatest /\ Counted
    BY DEF LimiterIInv
<1>1. /\ tick \in Nat /\ tick <= LastTick /\ LastTick \in Nat /\ Window \in Nat /\ Window > 0
      /\ MaxHits \in Nat /\ MaxHits > 0 /\ 0..LastTick \subseteq Int /\ limiter.lag \in {0, 1}
      /\ c \in Addresses /\ hits \in [Addresses -> Seq(0..LastTick)] /\ Clients \subseteq Addresses
      /\ recent \in Seq(Addresses) /\ limiter.capacity \in Nat \ {0}
      /\ granted \in [Clients -> Seq(0..LastTick)] /\ dropped \subseteq Clients
      /\ \A t \in Int : \A v \in After(t) : v > t
    BY <1>0, LimiterNumbers
<1> DEFINE now == tick - behind
           cutoff == now - Window
           q == hits[c]
           b == Pruned(q, cutoff)
           order == Append(Without(recent, c), c)
           added == [hits EXCEPT ![c] = Append(b, now)]
           sweep == now - swept >= Window
           left == IF sweep THEN Swept(added, order, cutoff) ELSE order
           g == Append(Expired(granted[c], tick - Window - 1), now)
<1>2. /\ ~ (Len(b) >= MaxHits)
      /\ recent' = Kept(left)
      /\ hits' = [x \in Addresses |-> IF x \in SetOf(Kept(left)) THEN added[x] ELSE <<>>]
      /\ swept' = IF sweep THEN now ELSE swept
      /\ dropped' = dropped \cup ((SetOf(left) \ SetOf(Kept(left))) \cap Clients)
      /\ granted' = [granted EXCEPT ![c] = IF c \in dropped THEN <<>> ELSE g]
      /\ UNCHANGED <<tick, limiter>>
    BY DEF AllowInMemory, Remember
<1>3. /\ now \in 0..LastTick /\ cutoff \in Int /\ cutoff <= tick - Window
      /\ tick - limiter.lag <= now /\ now <= tick /\ tick - Window - 1 \in Int /\ cutoff < now
      /\ q \in Seq(0..LastTick) /\ granted[c] \in Seq(0..LastTick)
    BY <1>1
<1> HIDE DEF now, sweep
<1>4. /\ b \in Seq(0..LastTick) /\ \A i \in DOMAIN b : \E j \in DOMAIN q : b[i] = q[j]
      /\ \A V : (\A v \in V : v > cutoff) => Within(b, V) = Within(q, V)
    <2> HIDE DEF cutoff, q
    <2>1. 0..LastTick \subseteq Int /\ q \in Seq(0..LastTick) /\ cutoff \in Int
        BY <1>1, <1>3
    <2>2. LET p == Pruned(q, cutoff) IN
          /\ p \in Seq(0..LastTick) /\ \A i \in DOMAIN p : \E j \in DOMAIN q : p[i] = q[j]
          /\ p # <<>> => q # <<>> /\ p[Len(p)] = q[Len(q)]
          /\ \A V : (\A v \in V : v > cutoff) => Within(p, V) = Within(q, V)
        BY <2>1, PrunedFacts
    <2> QED
        BY <2>2
<1> HIDE DEF b, q
<1>5. /\ Append(b, now) \in Seq(0..LastTick) /\ g \in Seq(0..LastTick)
      /\ Append(b, now) # <<>> /\ Append(b, now)[Len(Append(b, now))] = now
      /\ \A i \in DOMAIN Append(b, now) : Append(b, now)[i] = now \/
             \E j \in DOMAIN b : Append(b, now)[i] = b[j]
    <2>1. Expired(granted[c], tick - Window - 1) \in Seq(0..LastTick)
        BY <1>1, <1>3, ExpiredFacts
    <2>2. g \in Seq(0..LastTick)
        BY <1>3, <2>1
    <2>3. b \in Seq(0..LastTick) /\ now \in 0..LastTick
        BY <1>3, <1>4
    <2> QED
        BY <2>2, <2>3
<1> HIDE DEF g
<1>6. /\ added \in [Addresses -> Seq(0..LastTick)] /\ added[c] = Append(b, now)
      /\ \A x \in Addresses : x # c => added[x] = hits[x]
    BY <1>1, <1>5
<1>7. order \in Seq(Addresses) /\ SetOf(order) = SetOf(recent) \cup {c}
    BY <1>1, AccessedFacts
<1> HIDE DEF order, added
<1>8. /\ left \in Seq(Addresses)
      /\ \A x \in SetOf(order) : x \notin SetOf(left) => sweep /\ StaleKey(added[x], cutoff)
      /\ SetOf(left) \subseteq SetOf(order)
      /\ \A x \in SetOf(left) : sweep => ~ StaleKey(added[x], cutoff)
    <2>1. /\ Swept(added, order, cutoff) \in Seq(Addresses)
          /\ SetOf(Swept(added, order, cutoff)) =
                 {x \in SetOf(order) : ~ StaleKey(added[x], cutoff)}
        <3> HIDE DEF cutoff
        <3> QED
            BY <1>7, SweptFacts
    <2>2. CASE sweep
        <3>1. left = Swept(added, order, cutoff)
            BY <2>2
        <3> HIDE DEF left, cutoff
        <3> QED
            BY <2>1, <2>2, <3>1
    <2>3. CASE ~ sweep
        <3>1. left = order
            BY <2>3
        <3> HIDE DEF left
        <3> QED
            BY <1>7, <2>3, <3>1
    <2> QED
        BY <2>2, <2>3
<1> HIDE DEF left
<1>9. /\ Kept(left) \in Seq(Addresses) /\ Len(Kept(left)) <= limiter.capacity
      /\ SetOf(Kept(left)) \subseteq SetOf(left)
    BY <1>1, <1>8, KeptFacts
<1>10. /\ hits' \in [Addresses -> Seq(0..LastTick)]
       /\ \A x \in Addresses : /\ x \in SetOf(Kept(left)) => hits'[x] = added[x]
                               /\ x \notin SetOf(Kept(left)) => hits'[x] = <<>>
    <2>1. <<>> \in Seq(0..LastTick)
        OBVIOUS
    <2> QED
        BY <1>2, <1>6, <2>1
<1>11. /\ granted' \in [Clients -> Seq(0..LastTick)]
       /\ granted'[c] = (IF c \in dropped THEN <<>> ELSE g)
       /\ \A d \in Clients : d # c => granted'[d] = granted[d]
    <2>1. <<>> \in Seq(0..LastTick)
        OBVIOUS
    <2> QED
        BY <1>1, <1>2, <1>5, <2>1
<1>12. LimiterTypeOK'
    <2>1. swept' \in 0..LastTick
        BY <1>0, <1>2, <1>3 DEF LimiterTypeOK
    <2>2. dropped' \subseteq Clients
        BY <1>1, <1>2
    <2> QED
        BY <1>0, <1>2, <1>9, <1>10, <1>11, <2>1, <2>2 DEF LimiterTypeOK
<1>13. HeldKeys'
    BY <1>2, <1>10 DEF HeldKeys
<1>14. ASSUME limiter.lag = 0
       PROVE  /\ \A x \in Addresses : \A i \in DOMAIN added[x] :
                     added[x][i] <= tick /\ added[x][i] <= added[x][Len(added[x])]
              /\ ~ StaleKey(added[c], cutoff)
    <2>0. now = tick
        BY <1>1, <1>14 DEF now
    <2>1. \A x \in Addresses : \A i \in DOMAIN hits[x] :
              hits[x][i] <= tick /\ hits[x][i] <= hits[x][Len(hits[x])]
        BY <1>0, <1>14 DEF LastIsLatest
    <2>2. \A i \in DOMAIN Append(b, now) : Append(b, now)[i] <= tick
        <3>1. \A j \in DOMAIN b : b[j] <= tick
            BY <1>1, <1>4, <2>1 DEF q
        <3>2. ASSUME NEW i \in DOMAIN Append(b, now) PROVE Append(b, now)[i] <= tick
            <4>1. CASE Append(b, now)[i] = now
                BY <1>3, <4>1
            <4>2. CASE \E j \in DOMAIN b : Append(b, now)[i] = b[j]
                BY <3>1, <4>2
            <4> QED
                BY <1>5, <4>1, <4>2
        <3> QED
            BY <3>2
    <2>3. ~ StaleKey(added[c], cutoff)
        <3>1. added[c] # <<>> /\ added[c][Len(added[c])] = now
            BY <1>5, <1>6
        <3>2. now \in Int /\ ~ (now <= cutoff)
            BY <1>3
        <3> QED
            BY <3>1, <3>2 DEF StaleKey
    <2>4. ASSUME NEW x \in Addresses, NEW i \in DOMAIN added[x]
          PROVE  added[x][i] <= tick /\ added[x][i] <= added[x][Len(added[x])]
        <3>1. CASE x # c
            BY <1>6, <2>1, <3>1
        <3>2. CASE x = c
            BY <1>5, <1>6, <2>0, <2>2, <3>2
        <3> QED
            BY <3>1, <3>2
    <2> QED
        BY <2>3, <2>4
<1>15. LastIsLatest'
    <2> SUFFICES ASSUME limiter.lag = 0, NEW x \in Addresses, NEW i \in DOMAIN hits'[x]
                 PROVE  hits'[x][i] <= tick /\ hits'[x][i] <= hits'[x][Len(hits'[x])]
        BY <1>2 DEF LastIsLatest
    <2>1. hits'[x] = added[x]
        <3>1. DOMAIN <<>> = {}
            OBVIOUS
        <3> QED
            BY <1>10, <3>1
    <2> QED
        BY <1>14, <2>1
<1>16. Counted'
    <2> SUFFICES ASSUME limiter.lag = 0, NEW d \in Clients \ dropped'
                 PROVE  /\ \A t \in (tick - Window)..LastTick :
                               Within(granted'[d], After(t)) <= Within(hits'[d], After(t))
                        /\ \A s \in 0..LastTick :
                               Within(granted'[d], (s - Window + limiter.lag + 1)..s) <= MaxHits
        BY <1>2 DEF Counted
    <2>1. /\ d \notin dropped /\ d \in Clients /\ d \in Addresses
          /\ d \in SetOf(left) => d \in SetOf(Kept(left))
        BY <1>1, <1>2
    <2>2. /\ \A t \in (tick - Window)..LastTick :
                 Within(granted[d], After(t)) <= Within(hits[d], After(t))
          /\ \A s \in 0..LastTick :
                 Within(granted[d], (s - Window + limiter.lag + 1)..s) <= MaxHits
        BY <1>0, <2>1 DEF Counted
    <2>3. CASE d = c
        <3>1. hits'[c] = Append(b, now) /\ granted'[c] = g
            BY <1>6, <1>7, <1>8, <1>10, <1>11, <1>14, <2>1, <2>3
        <3>2. Len(b) < MaxHits
            <4>1. Len(b) \in Nat
                BY <1>4
            <4> QED
                BY <1>1, <1>2, <4>1
        <3>3. \A t \in (tick - Window)..LastTick :
                  Within(granted[c], After(t)) <= Within(b, After(t))
            <4>1. ASSUME NEW t \in (tick - Window)..LastTick
                  PROVE  Within(b, After(t)) = Within(hits[c], After(t))
                <5>1. t \in Int /\ cutoff <= t
                    BY <1>1, <1>3
                <5>2. \A v \in After(t) : v > cutoff
                    BY <1>1, <1>3, <5>1 DEF After
                <5> QED
                    BY <1>4, <5>2 DEF q
            <4> QED
                BY <2>2, <2>3, <4>1
        <3>4. LET n == Append(Expired(granted[c], tick - Window - 1), now) IN
              /\ \A t \in (tick - Window)..LastTick :
                     Within(n, After(t)) <= Within(Append(b, now), After(t))
              /\ \A s \in 0..LastTick :
                     Within(n, (s - Window + limiter.lag + 1)..s) <= MaxHits
            <4>1. \A s \in 0..LastTick :
                      Within(granted[c], (s - Window + limiter.lag + 1)..s) <= MaxHits
                BY <2>2, <2>3
            <4>2. limiter.lag \in {0, 1} /\ tick - limiter.lag <= now /\ now <= tick
                  /\ now \in 0..LastTick
                BY <1>1, <1>3
            <4>3. b \in Seq(0..LastTick) /\ granted[c] \in Seq(0..LastTick)
                BY <1>3, <1>4
            <4> QED
                BY <1>0, <3>2, <3>3, <4>1, <4>2, <4>3, GrantCounts
        <3> QED
            BY <2>3, <3>1, <3>4 DEF g
    <2>4. CASE d # c /\ d \in SetOf(Kept(left))
        <3>1. hits'[d] = hits[d] /\ granted'[d] = granted[d]
            BY <1>6, <1>10, <1>11, <2>1, <2>4
        <3> QED
            BY <2>2, <3>1
    <2>5. CASE d # c /\ d \notin SetOf(Kept(left))
        <3>1. hits'[d] = <<>> /\ granted'[d] = granted[d]
            BY <1>10, <1>11, <2>1, <2>5
        <3>2. \A i \in DOMAIN hits[d] : hits[d][i] <= cutoff
            <4>1. CASE d \notin SetOf(order)
                <5>1. hits[d] = <<>>
                    BY <1>0, <1>7, <2>1, <4>1 DEF HeldKeys
                <5>2. DOMAIN <<>> = {}
                    OBVIOUS
                <5> QED
                    BY <5>1, <5>2
            <4>2. CASE d \in SetOf(order)
                <5>1. StaleKey(hits[d], cutoff)
                    BY <1>6, <1>8, <2>1, <2>5, <4>2
                <5>2. hits[d] \in Seq(0..LastTick)
                    BY <1>1, <2>1
                <5>3. CASE hits[d] = <<>>
                    <6>1. DOMAIN <<>> = {}
                        OBVIOUS
                    <6> QED
                        BY <5>3, <6>1
                <5>4. CASE hits[d] # <<>>
                    <6>1. Len(hits[d]) \in DOMAIN hits[d] /\ hits[d][Len(hits[d])] <= cutoff
                        BY <5>1, <5>2, <5>4 DEF StaleKey
                    <6>2. \A i \in DOMAIN hits[d] : hits[d][i] <= hits[d][Len(hits[d])]
                        BY <1>0, <2>1 DEF LastIsLatest
                    <6>3. \A i \in DOMAIN hits[d] : hits[d][i] \in 0..LastTick
                        BY <5>2, ElementsOf
                    <6>4. \A i \in DOMAIN hits[d] : hits[d][i] \in Int
                        BY <1>1, <6>3
                    <6> HIDE DEF cutoff
                    <6> QED
                        BY <1>3, <6>1, <6>2, <6>4
                <5> QED
                    BY <5>3, <5>4
            <4> QED
                BY <4>1, <4>2
        <3>3. ASSUME NEW t \in (tick - Window)..LastTick
              PROVE  Within(granted[d], After(t)) <= Within(<<>>, After(t))
            <4>1. t \in Int /\ cutoff <= t /\ hits[d] \in Seq(0..LastTick)
                BY <1>1, <1>3, <2>1
            <4>2. \A i \in DOMAIN hits[d] : hits[d][i] \in Int
                <5>1. \A i \in DOMAIN hits[d] : hits[d][i] \in 0..LastTick
                    BY <4>1, ElementsOf
                <5> QED
                    BY <1>1, <5>1
            <4>3. \A i \in DOMAIN hits[d] : hits[d][i] \notin After(t)
                <5> HIDE DEF cutoff
                <5> QED
                    BY <1>1, <1>3, <3>2, <4>1, <4>2 DEF After
            <4>4. Within(hits[d], After(t)) = 0
                BY <4>1, <4>3, WithinFacts
            <4>5. <<>> \in Seq(0..LastTick) /\ \A i \in DOMAIN <<>> : <<>>[i] \notin After(t)
                OBVIOUS
            <4>6. Within(<<>>, After(t)) = 0
                BY <4>5, WithinFacts
            <4> QED
                BY <2>2, <4>4, <4>6
        <3> QED
            BY <2>2, <3>1, <3>3
    <2> QED
        BY <2>3, <2>4, <2>5
<1> QED
    BY <1>12, <1>13, <1>15, <1>16 DEF LimiterIInv

(* The limiter (core/ratelimit.py) behind the resolution of the address    *)
(* (core/client_ip.py): no client gets more than max_requests through in   *)
(* any window, whatever it writes in its header and whichever proxies it   *)
(* comes through, unless its bucket left for lack of room.  For any number *)
(* of clients and proxies, any limit, window and capacity.                 *)
THEOREM WindowsAreBounded == LimiterSpec => []LimiterInv
<1>1. ASSUME LimiterInit PROVE LimiterIInv
    <2>1. /\ 0 \in 0..LastTick /\ Window \in Nat /\ LastTick \in Nat /\ MaxHits \in Nat
          /\ <<>> \in Seq(0..LastTick) /\ <<>> \in Seq(Addresses)
        BY RateLimiterAssumption
    <2>2. limiter.capacity \in Nat \ {0}
        BY <1>1, RateLimiterAssumption DEF LimiterInit
    <2>3. LimiterTypeOK
        BY <1>1, <2>1, <2>2 DEF LimiterInit, LimiterTypeOK
    <2>4. HeldKeys /\ LastIsLatest
        <3>1. DOMAIN <<>> = {}
            OBVIOUS
        <3> QED
            BY <1>1, <3>1 DEF LimiterInit, HeldKeys, LastIsLatest
    <2>5. Counted
        <3>1. \A V : Within(<<>>, V) = 0
            <4>1. \A V : \A i \in DOMAIN <<>> : <<>>[i] \notin V
                OBVIOUS
            <4> QED
                BY <2>1, <4>1, WithinFacts
        <3>2. \A c \in Clients : hits[c] = <<>> /\ granted[c] = <<>>
            BY <1>1 DEF LimiterInit, Addresses
        <3> QED
            BY <2>1, <3>1, <3>2 DEF Counted
    <2> QED
        BY <2>3, <2>4, <2>5 DEF LimiterIInv
<1>2. LimiterIInv /\ [LimiterNext]_limiterVars => LimiterIInv'
    <2> SUFFICES ASSUME LimiterIInv, [LimiterNext]_limiterVars PROVE LimiterIInv'
        OBVIOUS
    <2>0. LimiterTypeOK /\ HeldKeys /\ LastIsLatest /\ Counted
        BY DEF LimiterIInv
    <2>1. ASSUME NEW c \in Clients, NEW behind \in {0, 1}, Request(c, c, behind)
          PROVE  LimiterIInv'
        <3>1. /\ behind <= limiter.lag /\ behind <= tick /\ UNCHANGED <<tick, limiter>>
              /\ \/ limiter.backend = "memory" /\ AllowInMemory(c, c, tick - behind)
                 \/ limiter.backend = "redis" /\ AllowInRedis(c, c, tick - behind)
            BY <2>0, <2>1, LimiterNumbers DEF Request
        <3>2. CASE limiter.backend = "redis" /\ AllowInRedis(c, c, tick - behind)
            BY <3>1, <3>2, RedisKeeps
        <3>3. CASE limiter.backend = "memory" /\ AllowInMemory(c, c, tick - behind)
            <4>1. CASE Len(Pruned(hits[c], tick - behind - Window)) >= MaxHits
                <5>1. /\ hits' = [hits EXCEPT ![c] = Pruned(hits[c], tick - behind - Window)]
                      /\ recent' = Append(Without(recent, c), c)
                      /\ UNCHANGED <<swept, granted, dropped>>
                    BY <3>3, <4>1 DEF AllowInMemory
                <5> QED
                    BY <3>1, <3>3, <4>1, <5>1, RefusalKeeps
            <4>2. CASE ~ (Len(Pruned(hits[c], tick - behind - Window)) >= MaxHits)
                BY <3>1, <3>3, <4>2, GrantKeeps
            <4> QED
                BY <4>1, <4>2
        <3> QED
            BY <3>1, <3>2, <3>3
    <2>2. CASE Tick
        <3>1. /\ tick < LastTick /\ tick' = tick + 1
              /\ UNCHANGED <<hits, recent, swept, limiter, granted, dropped>>
            BY <2>2 DEF Tick
        <3>2. tick \in Nat /\ LastTick \in Nat /\ Window \in Nat
            BY <2>0, LimiterNumbers
        <3>3. LimiterTypeOK' /\ HeldKeys'
            BY <2>0, <3>1, <3>2 DEF LimiterTypeOK, HeldKeys
        <3>4. LastIsLatest'
            <4>1. \A x \in Addresses : \A i \in DOMAIN hits[x] : hits[x][i] \in Nat
                <5>1. \A x \in Addresses : hits[x] \in Seq(0..LastTick)
                    BY <2>0, LimiterNumbers
                <5>2. \A x \in Addresses : \A i \in DOMAIN hits[x] : hits[x][i] \in 0..LastTick
                    BY <5>1, ElementsOf
                <5> QED
                    BY <5>2
            <4>2. \A x \in Addresses : \A i \in DOMAIN hits[x] :
                      hits[x][i] <= tick => hits[x][i] <= tick + 1
                BY <3>2, <4>1
            <4> QED
                BY <2>0, <3>1, <4>2 DEF LastIsLatest
        <3>5. Counted'
            <4>1. (tick' - Window)..LastTick \subseteq (tick - Window)..LastTick
                BY <3>1, <3>2
            <4> QED
                BY <2>0, <3>1, <4>1 DEF Counted
        <3> QED
            BY <3>3, <3>4, <3>5 DEF LimiterIInv
    <2>3. CASE UNCHANGED limiterVars
        BY <2>0, <2>3
        DEF limiterVars, LimiterIInv, LimiterTypeOK, HeldKeys, LastIsLatest, Counted
    <2> QED
        BY <2>1, <2>2, <2>3, KeyIsClient DEF LimiterNext
<1>3. LimiterIInv => LimiterInv
    BY DEF LimiterIInv, Counted, LimiterInv, Within
<1> QED
    BY <1>1, <1>2, <1>3, PTL DEF LimiterSpec

=============================================================================
