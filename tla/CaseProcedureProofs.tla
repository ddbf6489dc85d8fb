------------------------- MODULE CaseProcedureProofs -------------------------
(***************************************************************************)
(* Theorems about CaseProcedure, for any sets of processes, requests and   *)
(* workers and any bounds.                                                 *)
(***************************************************************************)
EXTENDS CaseProcedure, SequenceTheorems, TLAPS

-----------------------------------------------------------------------------
(* The operators that build rows and sessions build well-typed ones.       *)

(* A round nobody has answered is a round.                                 *)
LEMMA NewRoundType ==
  ASSUME NEW continue \in BOOLEAN
  PROVE  NewRound(continue) \in Round
BY DEF NewRound, Round, PositionKind, Answer

(* The row lock_manifest leaves is a row.                                  *)
LEMMA LockedRowType == LockedRow \in Row
BY DEF LockedRow, Row, Status, ProcessingStatus, Conclusion, Age

(* An idle slot is a session.                                              *)
LEMMA IdleType == Idle \in Session
BY LockedRowType DEF Idle, Session, Pc

(* A flush mixes columns of two rows (save_stage, release_processing).     *)
LEMMA FlushType ==
  ASSUME row \in Row, NEW view \in Row, NEW new \in Row
  PROVE  Flush(view, new) \in Row
BY DEF Flush, Row

(* So does a write of the rounds (write_json of conciliation_json).        *)
LEMMA WriteRoundsType ==
  ASSUME row \in Row, NEW view \in Row, NEW new \in Row
  PROVE  WriteRounds(view, new) \in Row
BY FlushType DEF WriteRounds, Row

(* An answer to an open round gives a row (respond_to_conciliation_...).   *)
LEMMA AnsweredType ==
  ASSUME NEW c \in Row, NEW p \in PARTIES, NEW k \in 1..Len(c.rounds),
         NEW answer \in Answer
  PROVE  Answered(c, p, k, answer) \in Row
<1> DEFINE silent  == answer = "refused" /\ c.rounds[k].position[p] = "none"
           round   == [c.rounds[k] EXCEPT !.response[p] = answer,
                                          !.position[p] = IF silent THEN "text" ELSE @]
           written == [c EXCEPT !.rounds[k] = round]
<1>1. c.rounds \in Seq(Round) /\ c.rounds[k] \in Round
  BY DEF Row
<1>2. round \in Round
  BY <1>1 DEF Round, PositionKind
<1>3. [c.rounds EXCEPT ![k] = round] \in Seq(Round)
  BY <1>1, <1>2, ExceptSeq
<1>4. written \in Row
  BY <1>3 DEF Row
<1> QED
  BY <1>4, ZenonT(40) DEF Answered, Row, Status

(* A position filed in an open round gives a row.                          *)
LEMMA PositionType ==
  ASSUME NEW c \in Row, NEW p \in PARTIES, NEW k \in 1..Len(c.rounds),
         NEW kind \in PositionKind
  PROVE  [c EXCEPT !.rounds[k].position[p] = kind] \in Row
<1> DEFINE round == [c.rounds[k] EXCEPT !.position[p] = kind]
<1>1. c.rounds \in Seq(Round) /\ c.rounds[k] \in Round
  BY DEF Row
<1>2. round \in Round
  BY <1>1 DEF Round
<1>3. [c.rounds EXCEPT ![k] = round] \in Seq(Round)
  BY <1>1, <1>2, ExceptSeq
<1> QED
  BY <1>3 DEF Row

(* Opening a round gives a row.                                            *)
LEMMA OpenedType ==
  ASSUME NEW c \in Row, NEW base \in Seq(Round), NEW continue \in BOOLEAN
  PROVE  [c EXCEPT !.rounds = Append(base, NewRound(continue)),
                   !.status = "conciliation"] \in Row
<1>1. Append(base, NewRound(continue)) \in Seq(Round)
  BY NewRoundType, AppendProperties
<1> QED
  BY <1>1 DEF Row, Status

-----------------------------------------------------------------------------
(* What the steps do to the sessions.                                      *)

(* Moving a session to another point keeps the types.                      *)
LEMMA GotoType ==
  ASSUME TypeOK, NEW s \in Sessions, NEW point \in Pc, NEW view \in Row,
         Goto(s, point, view)
  PROVE  sess' \in [Sessions -> Session] /\ registry' \in Registry
BY DEF Goto, TypeOK, Session

(* A session that ends gives its slot and registry entry back.             *)
LEMMA FinishType ==
  ASSUME TypeOK, NEW s \in Sessions, Finish(s)
  PROVE  sess' \in [Sessions -> Session] /\ registry' \in Registry
BY IdleType DEF Finish, TypeOK, Unregister, Registry

(* Submitting a job keeps the types (StageRunner.submit).                  *)
LEMMA SubmitType ==
  ASSUME TypeOK, NEW s \in Sessions, NEW stage \in Stage, NEW base \in Seq(Round),
         Submit(s, stage, base)
  PROVE  sess' \in [Sessions -> Session] /\ registry' \in Registry
<1>1. PICK w \in Workers :
        /\ sess' = [sess EXCEPT
             ![s] = Idle,
             ![w] = [Idle EXCEPT !.pc = "queued", !.node = sess[s].node,
                                 !.stage = stage, !.base = base]]
        /\ registry' = [Unregister(s) EXCEPT ![<<sess[s].node, stage>>] = w]
  BY DEF Submit
<1>2. sess[s].node \in Replicas \cup {NoReplica} /\ w \in Sessions
  BY DEF TypeOK, Session, Sessions
<1>3. [Idle EXCEPT !.pc = "queued", !.node = sess[s].node,
                   !.stage = stage, !.base = base] \in Session
  BY <1>2, IdleType DEF Session, Pc
<1>4. sess' \in [Sessions -> Session]
  BY <1>1, <1>2, <1>3, IdleType DEF TypeOK
<1>5. registry' \in Registry
  BY <1>1 DEF TypeOK, Unregister, Registry
<1> QED
  BY <1>4, <1>5

-----------------------------------------------------------------------------
(* Type correctness, one lemma per group of actions.                       *)

(* The requests of the parties keep the types.                             *)
LEMMA PartyRequestType ==
  ASSUME TypeOK, NEW s \in Requests, PartyRequest(s)
  PROVE  TypeOK'
<1>0. s \in Sessions /\ View(s) \in Row
  BY DEF Sessions, View, TypeOK, Session
<1>1. CASE LoadCase(s)
  <2>1. \A n \in Replicas :
          [Idle EXCEPT !.pc = "loaded", !.node = n, !.view = row] \in Session
    BY IdleType DEF TypeOK, Session, Pc, Passing
  <2>2. sess' \in [Sessions -> Session]
    BY <1>1, <1>0, <2>1 DEF LoadCase, TypeOK
  <2> QED
    BY <1>1, <2>2 DEF LoadCase, TypeOK, Registry
<1>2. CASE Refuse(s)
  BY <1>2, <1>0, FinishType DEF Refuse, TypeOK
<1>3. ASSUME NEW p \in PARTIES, NEW k \in 1..MaxRounds, NEW kind \in Positions,
             FilePosition(s, p, k, kind)
      PROVE  TypeOK'
  <2> DEFINE new == [View(s) EXCEPT !.rounds[k].position[p] = kind]
  <2>1. new \in Row
    <3>1. k \in 1..Len(View(s).rounds) /\ kind \in PositionKind
      BY <1>3, BoundsAssumption DEF FilePosition, RoundOpen
    <3> QED
      BY <1>0, <3>1, PositionType
  <2>2. row' = WriteRounds(View(s), new) /\ Goto(s, "conduct", new)
    BY <1>3 DEF FilePosition
  <2>3. row' \in Row
    BY <1>0, <2>1, <2>2, WriteRoundsType DEF TypeOK
  <2>4. sess' \in [Sessions -> Session] /\ registry' \in Registry
    BY <1>0, <2>1, <2>2, GotoType DEF Pc, Passing
  <2> QED
    BY <1>3, <2>3, <2>4 DEF FilePosition, TypeOK
<1>4. ASSUME NEW p \in PARTIES, NEW k \in 1..MaxRounds, NEW answer \in Answers,
             RespondAgreement(s, p, k, answer)
      PROVE  TypeOK'
  <2> DEFINE new == Answered(View(s), p, k, answer)
  <2>1. new \in Row
    <3>1. k \in 1..Len(View(s).rounds) /\ answer \in Answer
      BY <1>4, BoundsAssumption DEF RespondAgreement, RoundOpen
    <3> QED
      BY <1>0, <3>1, AnsweredType
  <2>2. /\ row' = WriteRounds(View(s), new)
        /\ Goto(s, "conduct", new) \/ Finish(s)
    BY <1>4 DEF RespondAgreement
  <2>3. row' \in Row
    BY <1>0, <2>1, <2>2, WriteRoundsType DEF TypeOK
  <2>4. sess' \in [Sessions -> Session] /\ registry' \in Registry
    BY <1>0, <2>1, <2>2, GotoType, FinishType DEF Pc, Passing
  <2> QED
    BY <1>4, <2>3, <2>4 DEF RespondAgreement, TypeOK
<1>5. CASE Withdraw(s)
  <2>1. row' \in Row
    BY <1>5 DEF Withdraw, TypeOK, Row, Status, Age
  <2> QED
    BY <1>5, <1>0, <2>1, FinishType DEF Withdraw, TypeOK
<1> QED
  BY <1>1, <1>2, <1>3, <1>4, <1>5 DEF PartyRequest

(* The steward and the stage routes keep the types.                        *)
LEMMA ConductType ==
  ASSUME TypeOK, NEW s \in Sessions, Conduct(s)
  PROVE  TypeOK'
<1>0. View(s) \in Row
  BY DEF View, TypeOK, Session
<1>1. CASE ChooseStage(s)
  <2>1. PICK action \in MODEL_ACTIONS :
          sess' = [sess EXCEPT ![s].pc = "invoke", ![s].stage = StageOf(action)]
    BY <1>1 DEF ChooseStage, Choices
  <2>2. StageOf(action) \in Stage
    BY DEF StageOf, MODEL_ACTIONS, Stage, ClaimedStage
  <2>3. [sess[s] EXCEPT !.pc = "invoke", !.stage = StageOf(action)] \in Session
    <3>1. sess[s] \in Session
      BY DEF TypeOK
    <3> QED
      BY <3>1, <2>2 DEF Session, Pc, Passing
  <2>4. sess' = [sess EXCEPT ![s] =
                   [sess[s] EXCEPT !.pc = "invoke", !.stage = StageOf(action)]]
    BY <2>1 DEF TypeOK
  <2>5. sess' \in [Sessions -> Session]
    BY <2>3, <2>4 DEF TypeOK
  <2> QED
    BY <1>1, <2>5 DEF ChooseStage, TypeOK, Age
<1>2. CASE WaitOrHold(s)
  BY <1>2, FinishType DEF WaitOrHold, TypeOK
<1>3. CASE OpenRound(s)
  <2>1. View(s).rounds \in Seq(Round) /\ "conciliation" \in Stage
    BY <1>0 DEF Row, Stage
  <2> QED
    BY <1>3, <2>1, SubmitType DEF OpenRound, TypeOK
<1>4. CASE OpenClaimed(s)
  <2>1. PICK stage \in ClaimedStage :
          /\ row' = [row EXCEPT !.status = Processing[stage], !.started = "fresh"]
          /\ Submit(s, stage, <<>>)
    BY <1>4 DEF OpenClaimed
  <2>2. Processing[stage] \in Status
    BY DEF Processing, ClaimedStage, Status, ProcessingStatus
  <2>3. row' \in Row
    BY <2>1, <2>2 DEF TypeOK, Row, Age
  <2>4. sess' \in [Sessions -> Session] /\ registry' \in Registry
    <3>1. stage \in Stage /\ <<>> \in Seq(Round)
      BY EmptySeq DEF Stage
    <3> QED
      BY <2>1, <3>1, SubmitType
  <2> QED
    BY <1>4, <2>3, <2>4 DEF OpenClaimed, TypeOK
<1>5. CASE StageRefused(s)
  BY <1>5, FinishType DEF StageRefused, TypeOK, Age
<1> QED
  BY <1>1, <1>2, <1>3, <1>4, <1>5 DEF Conduct

(* The background jobs keep the types.                                     *)
LEMMA JobType ==
  ASSUME TypeOK, NEW w \in Workers, Job(w) \/ FailJob(w)
  PROVE  TypeOK'
<1>0. /\ w \in Sessions
      /\ View(w) \in Row
      /\ sess[w].base \in Seq(Round)
      /\ {"work", "saved", "rebuilt", "conduct"} \subseteq Pc
  BY DEF Sessions, View, TypeOK, Session, Pc, Passing
<1>1. CASE StartJob(w)
  BY <1>1, <1>0, GotoType DEF StartJob, TypeOK
<1>2. CASE SaveRound(w)
  <2>1. PICK continue \in BOOLEAN :
          LET new == [View(w) EXCEPT !.rounds = Append(sess[w].base, NewRound(continue)),
                                     !.status = "conciliation"]
          IN  row' = WriteRounds(View(w), new) /\ Goto(w, "saved", new)
    BY <1>2 DEF SaveRound
  <2> DEFINE new == [View(w) EXCEPT !.rounds = Append(sess[w].base, NewRound(continue)),
                                    !.status = "conciliation"]
  <2>2. new \in Row
    BY <1>0, OpenedType
  <2>3. row' \in Row
    BY <1>0, <2>1, <2>2, WriteRoundsType DEF TypeOK
  <2>4. sess' \in [Sessions -> Session] /\ registry' \in Registry
    BY <1>0, <2>1, <2>2, GotoType
  <2> QED
    BY <1>2, <2>3, <2>4 DEF SaveRound, TypeOK
<1>3. CASE SaveOrganized(w)
  <2> DEFINE new == [View(w) EXCEPT !.organized = TRUE, !.status = "organized"]
  <2>1. new \in Row
    BY <1>0 DEF Row, Status
  <2>2. row' \in Row
    BY <1>0, <1>3, <2>1, FlushType DEF SaveOrganized, Save, TypeOK
  <2>3. sess' \in [Sessions -> Session] /\ registry' \in Registry
    BY <1>0, <1>3, <2>1, GotoType DEF SaveOrganized, Save
  <2> QED
    BY <1>3, <2>2, <2>3 DEF SaveOrganized, TypeOK
<1>4. ASSUME NEW c \in Conclusion, NEW new \in Row, NEW point \in Pc,
             SaveDecision(w, c, new, point),
             UNCHANGED <<armed, requests, crashes, failures>>
      PROVE  TypeOK'
  <2>1. row' \in Row
    BY <1>0, <1>4, FlushType DEF SaveDecision, TypeOK, Row
  <2>2. sess' \in [Sessions -> Session] /\ registry' \in Registry
    BY <1>0, <1>4, GotoType DEF SaveDecision
  <2> QED
    BY <1>4, <2>1, <2>2 DEF SaveDecision, TypeOK
<1>5. CASE Decide(w)
  <2>1. PICK c \in Conclusion :
          SaveDecision(w, c, [View(w) EXCEPT !.decision = c, !.conclusion = c,
                                             !.status = DecidedStatus(c)], "saved")
    BY <1>5 DEF Decide
  <2>2. [View(w) EXCEPT !.decision = c, !.conclusion = c,
                        !.status = DecidedStatus(c)] \in Row
    BY <1>0 DEF Row, Status, DecidedStatus
  <2> QED
    BY <1>0, <1>4, <1>5, <2>1, <2>2 DEF Decide
<1>6. CASE Reconstruct(w)
  <2>1. PICK c \in Conclusion :
          SaveDecision(w, c, [View(w) EXCEPT !.decision = c, !.status = DecidedStatus(c)],
                       "rebuilt")
    BY <1>6 DEF Reconstruct
  <2>2. [View(w) EXCEPT !.decision = c, !.status = DecidedStatus(c)] \in Row
    BY <1>0 DEF Row, Status, DecidedStatus
  <2> QED
    BY <1>0, <1>4, <1>6, <2>1, <2>2 DEF Reconstruct
<1>7. ASSUME NEW point \in {"work", "rebuilt"}, SaveReview(w, point)
      PROVE  TypeOK'
  <2>1. PICK c \in ReviewConclusion(point, View(w).decision) :
          Save(w, [View(w) EXCEPT !.review = TRUE, !.conclusion = c, !.status = "reviewed"],
               "saved")
    BY <1>7 DEF SaveReview
  <2> DEFINE new == [View(w) EXCEPT !.review = TRUE, !.conclusion = c, !.status = "reviewed"]
  <2>2. new \in Row
    BY <1>0 DEF Row, Status, ReviewConclusion, Conclusion
  <2>3. row' \in Row
    BY <1>0, <2>1, <2>2, FlushType DEF Save, TypeOK
  <2>4. sess' \in [Sessions -> Session] /\ registry' \in Registry
    BY <1>0, <2>1, <2>2, GotoType DEF Save
  <2> QED
    BY <1>7, <2>3, <2>4 DEF SaveReview, TypeOK
<1>8. CASE FailJob(w)
  <2>1. row' \in Row
    <3>1. \A stage \in ClaimedStage : OnErrorStatus[stage] \in Status
      BY DEF OnErrorStatus, ClaimedStage, Status
    <3> QED
      BY <1>8, <3>1 DEF FailJob, TypeOK, Row, Age
  <2>2. sess' \in [Sessions -> Session] /\ registry' \in Registry
    BY <1>0, <1>8, FinishType DEF FailJob
  <2> QED
    BY <1>8, <2>1, <2>2 DEF FailJob, TypeOK
<1>9. CASE TakeChain(w)
  <2>1. sess' \in [Sessions -> Session] /\ registry' \in Registry
    BY <1>0, <1>9, GotoType, FinishType DEF TakeChain
  <2> QED
    BY <1>9, <2>1 DEF TakeChain, TypeOK, Age
<1> QED
  BY <1>1, <1>2, <1>3, <1>5, <1>6, <1>7, <1>8, <1>9 DEF Job

(* The recovery of abandoned chains keeps the types.                       *)
LEMMA SweepType ==
  ASSUME TypeOK, NEW n \in Replicas, Sweep(n)
  PROVE  TypeOK'
<1>0. n \in Sessions /\ View(n) \in Row /\ {"restore", "conduct"} \subseteq Pc
  BY DEF Sessions, View, TypeOK, Session, Pc, Passing
<1>1. CASE SweepLoad(n)
  <2>1. [Idle EXCEPT !.pc = "taking", !.node = n, !.view = row] \in Session
    BY IdleType DEF TypeOK, Session, Pc, Passing
  <2>2. sess' \in [Sessions -> Session]
    BY <1>1, <1>0, <2>1 DEF SweepLoad, TypeOK
  <2> QED
    BY <1>1, <2>2 DEF SweepLoad, TypeOK, Registry
<1>2. CASE SweepTake(n)
  <2>1. sess' \in [Sessions -> Session] /\ registry' \in Registry
    BY <1>2, <1>0, GotoType, FinishType DEF SweepTake
  <2> QED
    BY <1>2, <2>1 DEF SweepTake, TypeOK, Age
<1>3. CASE SweepRestore(n)
  <2> DEFINE v   == View(n)
             new == IF v.status \in ProcessingStatus
                    THEN [v EXCEPT !.status = RestoreFromProcessing[v.status],
                                   !.started = "none"]
                    ELSE v
  <2>1. new \in Row
    <3>1. \A status \in ProcessingStatus : RestoreFromProcessing[status] \in Status
      BY DEF RestoreFromProcessing, ProcessingStatus, Status
    <3> QED
      BY <1>0, <3>1 DEF Row, Age
  <2>2. row' \in Row
    BY <1>0, <1>3, <2>1, FlushType DEF SweepRestore, Save, TypeOK
  <2>3. sess' \in [Sessions -> Session] /\ registry' \in Registry
    BY <1>0, <1>3, <2>1, GotoType DEF SweepRestore, Save
  <2> QED
    BY <1>3, <2>2, <2>3 DEF SweepRestore, TypeOK
<1> QED
  BY <1>1, <1>2, <1>3 DEF Sweep

(* Unstick, the clock and crashes keep the types.                          *)
LEMMA EnvironmentType ==
  ASSUME TypeOK, Unstick \/ TtlElapses \/ \E n \in Replicas : Crash(n)
  PROVE  TypeOK'
<1>1. CASE Unstick
  <2>1. \A status \in ProcessingStatus : RestoreFromProcessing[status] \in Status
    BY DEF RestoreFromProcessing, ProcessingStatus, Status
  <2>2. row' \in Row
    BY <1>1, <2>1 DEF Unstick, TypeOK, Row, Age
  <2> QED
    BY <1>1, <2>2 DEF Unstick, TypeOK, Registry
<1>2. CASE TtlElapses
  <2>1. row' \in Row /\ armed' \in Age
    BY <1>2 DEF TtlElapses, Older, TypeOK, Row, Age
  <2> QED
    BY <1>2, <2>1 DEF TtlElapses, TypeOK, Registry
<1>3. ASSUME NEW n \in Replicas, Crash(n)
      PROVE  TypeOK'
  <2>1. sess' \in [Sessions -> Session]
    BY <1>3, IdleType DEF Crash, TypeOK
  <2>2. registry' \in Registry
    BY <1>3 DEF Crash, TypeOK, Registry
  <2> QED
    BY <1>3, <2>1, <2>2 DEF Crash, TypeOK
<1> QED
  BY <1>1, <1>2, <1>3

(* An administrator's resume keeps the types.                              *)
LEMMA ResumeType ==
  ASSUME TypeOK, NEW s \in Requests, Resume(s)
  PROVE  TypeOK'
<1>1. s \in Sessions /\ View(s) \in Row /\ "conduct" \in Pc
  BY DEF Sessions, View, TypeOK, Session, Pc, Passing
<1>2. sess' \in [Sessions -> Session] /\ registry' \in Registry
  BY <1>1, GotoType DEF Resume
<1> QED
  BY <1>2 DEF Resume, TypeOK

(* The lock leaves a well-typed case.                                      *)
LEMMA InitType ==
  ASSUME Init
  PROVE  TypeOK
<1>1. sess \in [Sessions -> Session]
  <2>1. \A n \in Replicas : [Idle EXCEPT !.pc = "conduct", !.node = n] \in Session
    BY IdleType DEF Session, Pc, Passing
  <2> QED
    BY <2>1, IdleType DEF Init
<1> QED
  BY <1>1, LockedRowType DEF Init, TypeOK, Age, Registry

(* So does every step.                                                     *)
LEMMA NextType ==
  ASSUME TypeOK, [Next]_vars
  PROVE  TypeOK'
<1>1. CASE UNCHANGED vars
  BY <1>1 DEF vars, TypeOK, Registry
<1>2. CASE Next
  BY <1>2, PartyRequestType, ResumeType, ConductType, JobType, SweepType, EnvironmentType
     DEF Next
<1> QED
  BY <1>1, <1>2

(* Every column, session, mark and registry entry keeps its type in every  *)
(* behaviour, whatever the sets and the bounds.                            *)
THEOREM TypeCorrect == Spec => []TypeOK
<1>1. Init => TypeOK
  BY InitType
<1>2. TypeOK /\ [Next]_vars => TypeOK'
  BY NextType
<1> QED
  BY <1>1, <1>2, PTL DEF Spec

-----------------------------------------------------------------------------
(* Results appear in order.  A session writes from a view that may be old, *)
(* but a view never holds a result the row lacks, and results are never    *)
(* taken back; so whatever a session writes is backed by the row.          *)

(* Every result of `old` is in `new`.                                      *)
Behind(old, new) ==
  /\ old.rounds # <<>> => new.rounds # <<>>
  /\ old.organized => new.organized
  /\ old.decision # "none" => new.decision # "none"
  /\ old.review => new.review

(* The results a stage works from are there.                               *)
Ready(stage, c) ==
  /\ stage = "organize" => c.rounds # <<>>
  /\ stage = "decide" => c.organized
  /\ stage = "review" => c.decision # "none"

(* A job that has not yet saved its last result.                           *)
JobPc == {"queued", "work", "rebuilt"}

(* A session's view is in order and behind the row; a job's stage is ready *)
(* in the row and, once it has loaded the case, in its view.               *)
Sound(session, r) ==
  /\ InOrder(session.view)
  /\ Behind(session.view, r)
  /\ session.pc \in JobPc => Ready(session.stage, r)
  /\ session.pc \in {"work", "rebuilt"} => Ready(session.stage, session.view)

(* The inductive invariant.                                                *)
OrderInv ==
  /\ TypeOK
  /\ InOrder(row)
  /\ \A s \in Sessions : Sound(sess[s], row)

(* A session stays sound while the row only gains results.                 *)
LEMMA SoundMonotone ==
  ASSUME NEW session, NEW r1, NEW r2, Sound(session, r1), Behind(r1, r2)
  PROVE  Sound(session, r2)
BY DEF Sound, Behind, Ready

(* An idle slot is sound.                                                  *)
LEMMA SoundIdle ==
  ASSUME NEW r
  PROVE  Sound(Idle, r)
BY DEF Sound, Idle, LockedRow, InOrder, Behind, JobPc

(* A flush from a view behind the row keeps every result of the row, adds  *)
(* those of the assigned columns, and leaves the row in order.             *)
LEMMA FlushInOrder ==
  ASSUME row \in Row, NEW view \in Row, NEW new \in Row,
         InOrder(row), InOrder(new), Behind(view, row), Behind(view, new)
  PROVE  /\ InOrder(Flush(view, new))
         /\ Behind(row, Flush(view, new))
         /\ Behind(new, Flush(view, new))
<1> DEFINE r == Flush(view, new)
<1>1. Behind(row, r) /\ Behind(new, r)
  BY DEF Flush, Behind, Row
<1>2. /\ r.organized \in {row.organized, new.organized}
      /\ r.decision \in {row.decision, new.decision}
      /\ r.review \in {row.review, new.review}
      /\ r.status \in {row.status, new.status}
  BY DEF Flush
<1> QED
  BY <1>1, <1>2 DEF InOrder, Behind

(* The same of a write of the rounds, once a round is open.                *)
LEMMA WriteRoundsInOrder ==
  ASSUME row \in Row, NEW view \in Row, NEW new \in Row,
         InOrder(row), InOrder(new), Behind(view, row), Behind(view, new),
         new.rounds # <<>>
  PROVE  /\ InOrder(WriteRounds(view, new))
         /\ Behind(row, WriteRounds(view, new))
         /\ Behind(new, WriteRounds(view, new))
<1> DEFINE f == Flush(view, new)
           r == WriteRounds(view, new)
<1>1. InOrder(f) /\ Behind(row, f) /\ Behind(new, f)
  BY FlushInOrder
<1>2. /\ r.rounds # <<>>
      /\ r.organized = f.organized /\ r.decision = f.decision
      /\ r.review = f.review /\ r.status = f.status
  BY DEF WriteRounds, Flush
<1> QED
  BY <1>1, <1>2 DEF InOrder, Behind

(* A step that keeps the row's results and moves one session, to a sound   *)
(* state, or frees it, keeps the invariant.                                *)
LEMMA OneSessionMoves ==
  ASSUME OrderInv, TypeOK', InOrder(row'), Behind(row, row'),
         NEW s \in Sessions,
         \/ \E point \in Pc, view \in Row :
              /\ Goto(s, point, view)
              /\ InOrder(view) /\ Behind(view, row')
              /\ point \in JobPc => Ready(sess[s].stage, view)
         \/ Finish(s)
  PROVE  OrderInv'
<1>1. ASSUME NEW o \in Sessions
      PROVE  Sound(sess'[o], row')
  <2>1. CASE o # s
    <3>1. sess'[o] = sess[o]
      BY <2>1 DEF Goto, Finish, OrderInv, TypeOK
    <3> QED
      BY <3>1, SoundMonotone DEF OrderInv
  <2>2. CASE o = s /\ Finish(s)
    BY <2>2, SoundIdle DEF Finish, OrderInv, TypeOK
  <2>3. CASE o = s /\ ~Finish(s)
    <3>1. PICK point \in Pc, view \in Row :
            /\ Goto(s, point, view)
            /\ InOrder(view) /\ Behind(view, row')
            /\ point \in JobPc => Ready(sess[s].stage, view)
      BY <2>3
    <3>2. /\ sess'[o].pc = point /\ sess'[o].view = view
          /\ sess'[o].stage = sess[s].stage
      <4>1. /\ sess \in [Sessions -> Session] /\ sess[s] \in Session /\ o = s
            /\ sess' = [sess EXCEPT ![s].pc = point, ![s].view = view]
        BY <2>3, <3>1 DEF Goto, OrderInv, TypeOK
      <4>2. sess'[s] = [sess[s] EXCEPT !.pc = point, !.view = view]
        BY <4>1
      <4> QED
        BY <4>1, <4>2 DEF Session
    <3>3. point \in JobPc => Ready(sess[s].stage, row')
      BY <3>1 DEF Ready, Behind
    <3> QED
      BY <3>1, <3>2, <3>3 DEF Sound, JobPc
  <2> QED
    BY <2>1, <2>2, <2>3
<1> QED
  BY <1>1 DEF OrderInv

(* Positions, answers and withdrawals keep the order.                      *)
LEMMA PartyRequestInOrder ==
  ASSUME OrderInv, TypeOK', NEW s \in Requests, PartyRequest(s)
  PROVE  OrderInv'
<1>0. /\ s \in Sessions /\ row \in Row /\ sess[s] \in Session
      /\ View(s) \in Row /\ View(s).rounds \in Seq(Round)
      /\ InOrder(row) /\ InOrder(View(s)) /\ Behind(View(s), row)
  BY DEF OrderInv, TypeOK, Sessions, View, Session, Row, Sound
<1>1. CASE LoadCase(s)
  <2>1. PICK n \in Replicas :
          sess' = [sess EXCEPT ![s] = [Idle EXCEPT !.pc = "loaded", !.node = n, !.view = row]]
    BY <1>1 DEF LoadCase
  <2>2. row' = row
    BY <1>1 DEF LoadCase
  <2>3. Sound([Idle EXCEPT !.pc = "loaded", !.node = n, !.view = row], row)
    BY <1>0 DEF Sound, Idle, Behind, JobPc
  <2> QED
    BY <2>1, <2>2, <2>3 DEF OrderInv, TypeOK
<1>2. CASE Refuse(s)
  BY <1>2, <1>0, OneSessionMoves DEF Refuse, Behind
<1>3. ASSUME NEW new \in Row, new.rounds # <<>>, InOrder(new), Behind(View(s), new),
             row' = WriteRounds(View(s), new),
             Goto(s, "conduct", new) \/ Finish(s)
      PROVE  OrderInv'
  <2>1. InOrder(row') /\ Behind(row, row') /\ Behind(new, row')
    BY <1>0, <1>3, WriteRoundsInOrder
  <2> QED
    BY <1>0, <1>3, <2>1, OneSessionMoves DEF Pc, Passing, JobPc
<1>4. ASSUME NEW p \in PARTIES, NEW k \in 1..MaxRounds, NEW kind \in Positions,
             FilePosition(s, p, k, kind)
      PROVE  OrderInv'
  <2> DEFINE new == [View(s) EXCEPT !.rounds[k].position[p] = kind]
  <2>1. k \in 1..Len(View(s).rounds) /\ kind \in PositionKind
    BY <1>4, BoundsAssumption DEF FilePosition, RoundOpen
  <2>2. new \in Row
    BY <1>0, <2>1, PositionType
  <2>3. new.rounds # <<>> /\ View(s).rounds # <<>>
    BY <1>0, <2>1, <2>2, LenProperties DEF Row
  <2>4. InOrder(new) /\ Behind(View(s), new)
    BY <1>0, <2>3 DEF InOrder, Behind, Row
  <2> QED
    BY <1>3, <1>4, <2>2, <2>3, <2>4 DEF FilePosition
<1>5. ASSUME NEW p \in PARTIES, NEW k \in 1..MaxRounds, NEW answer \in Answers,
             RespondAgreement(s, p, k, answer)
      PROVE  OrderInv'
  <2> DEFINE new == Answered(View(s), p, k, answer)
  <2>1. k \in 1..Len(View(s).rounds) /\ answer \in Answer
    BY <1>5, BoundsAssumption DEF RespondAgreement, RoundOpen
  <2>2. new \in Row
    BY <1>0, <2>1, AnsweredType
  <2>3. new.rounds # <<>> /\ View(s).rounds # <<>>
    BY <1>0, <2>1, <2>2, LenProperties DEF Row, Answered
  <2>4. /\ new.organized = View(s).organized /\ new.decision = View(s).decision
        /\ new.review = View(s).review
        /\ new.status \in {View(s).status, "agreement"}
    BY <1>0 DEF Answered, Row
  <2>5. InOrder(new) /\ Behind(View(s), new)
    BY <1>0, <2>3, <2>4 DEF InOrder, Behind
  <2> QED
    BY <1>3, <1>5, <2>2, <2>3, <2>5 DEF RespondAgreement
<1>6. CASE Withdraw(s)
  <2>1. InOrder(row') /\ Behind(row, row')
    BY <1>0, <1>6 DEF Withdraw, InOrder, Behind, Row
  <2> QED
    BY <1>0, <1>6, <2>1, OneSessionMoves DEF Withdraw
<1> QED
  BY <1>1, <1>2, <1>4, <1>5, <1>6 DEF PartyRequest

(* Submitting a job whose stage is ready in the row keeps the invariant.   *)
LEMMA SubmitInOrder ==
  ASSUME OrderInv, TypeOK', InOrder(row'), Behind(row, row'),
         NEW s \in Sessions, NEW stage \in Stage, NEW base, Submit(s, stage, base),
         Ready(stage, row')
  PROVE  OrderInv'
<1>1. PICK w \in Workers :
        sess' = [sess EXCEPT
          ![s] = Idle,
          ![w] = [Idle EXCEPT !.pc = "queued", !.node = sess[s].node,
                              !.stage = stage, !.base = base]]
  BY DEF Submit
<1> DEFINE job == [Idle EXCEPT !.pc = "queued", !.node = sess[s].node,
                               !.stage = stage, !.base = base]
<1>2. Sound(job, row')
  BY SoundIdle DEF Sound, Idle, JobPc
<1>3. ASSUME NEW o \in Sessions
      PROVE  Sound(sess'[o], row')
  <2>1. sess'[o] \in {sess[o], Idle, job}
    BY <1>1 DEF OrderInv, TypeOK
  <2>2. Sound(sess[o], row')
    BY SoundMonotone DEF OrderInv
  <2> QED
    BY <1>2, <2>1, <2>2, SoundIdle
<1> QED
  BY <1>3 DEF OrderInv

(* The claim's status is backed by the view the route has checked.         *)
LEMMA ConductInOrder ==
  ASSUME OrderInv, TypeOK', NEW s \in Sessions, Conduct(s)
  PROVE  OrderInv'
<1>0. /\ row \in Row /\ sess[s] \in Session
      /\ InOrder(row) /\ InOrder(View(s)) /\ Behind(View(s), row) /\ Behind(row, row)
  BY DEF OrderInv, TypeOK, View, Sound, Behind
<1>1. CASE ChooseStage(s)
  <2>1. PICK action \in MODEL_ACTIONS :
          sess' = [sess EXCEPT ![s].pc = "invoke", ![s].stage = StageOf(action)]
    BY <1>1 DEF ChooseStage, Choices
  <2>2. row' = row
    BY <1>1 DEF ChooseStage
  <2> DEFINE chosen == [sess[s] EXCEPT !.pc = "invoke", !.stage = StageOf(action)]
  <2>3. Sound(chosen, row)
    BY <1>0 DEF Sound, View, JobPc, Session
  <2>4. \A o \in Sessions : sess'[o] \in {sess[o], chosen}
    BY <2>1 DEF OrderInv, TypeOK
  <2> QED
    BY <2>2, <2>3, <2>4 DEF OrderInv
<1>2. CASE WaitOrHold(s)
  BY <1>0, <1>2, OneSessionMoves DEF WaitOrHold
<1>3. CASE OpenRound(s)
  <2>1. row' = row /\ Ready("conciliation", row) /\ "conciliation" \in Stage
    BY <1>3 DEF OpenRound, Ready, Stage
  <2> QED
    BY <1>0, <1>3, <2>1, SubmitInOrder DEF OpenRound
<1>4. CASE OpenClaimed(s)
  <2>1. PICK stage \in ClaimedStage :
          /\ RoutePasses(s, stage)
          /\ row' = [row EXCEPT !.status = Processing[stage], !.started = "fresh"]
          /\ Submit(s, stage, <<>>)
    BY <1>4 DEF OpenClaimed
  <2>2. Ready(stage, View(s))
    BY <2>1 DEF RoutePasses, Ready
  <2>3. Ready(stage, row)
    BY <1>0, <2>2 DEF Ready, Behind
  <2>4. \/ stage = "organize" /\ row'.status = "processing_organize"
        \/ stage = "decide" /\ row'.status = "processing_decision"
        \/ stage = "review" /\ row'.status = "processing_review"
    BY <1>0, <2>1 DEF ClaimedStage, Processing, Row
  <2>5. /\ row'.rounds = row.rounds /\ row'.organized = row.organized
        /\ row'.decision = row.decision /\ row'.review = row.review
    BY <1>0, <2>1 DEF Row
  <2>6. InOrder(row') /\ Behind(row, row') /\ Ready(stage, row')
    BY <1>0, <2>3, <2>4, <2>5 DEF InOrder, Behind, Ready
  <2> QED
    BY <2>1, <2>6, SubmitInOrder DEF Stage
<1>5. CASE StageRefused(s)
  BY <1>0, <1>5, OneSessionMoves DEF StageRefused
<1> QED
  BY <1>1, <1>2, <1>3, <1>4, <1>5 DEF Conduct

(* A job saves a result whose premises were there when it was submitted.   *)
LEMMA JobInOrder ==
  ASSUME OrderInv, TypeOK', NEW w \in Workers, Job(w) \/ FailJob(w)
  PROVE  OrderInv'
<1>0. /\ w \in Sessions /\ row \in Row /\ sess[w] \in Session
      /\ View(w) \in Row /\ sess[w].base \in Seq(Round)
      /\ InOrder(row) /\ InOrder(View(w)) /\ Behind(View(w), row) /\ Behind(row, row)
  BY DEF OrderInv, TypeOK, Sessions, View, Session, Sound, Behind
<1>ready. /\ At(w, "queued") => Ready(sess[w].stage, row)
          /\ At(w, "work") \/ At(w, "rebuilt") =>
               Ready(sess[w].stage, row) /\ Ready(sess[w].stage, View(w))
  BY <1>0 DEF OrderInv, Sound, JobPc, At, View
<1>1. CASE StartJob(w)
  <2>1. row' = row /\ Ready(sess[w].stage, row) /\ Goto(w, "work", row)
    BY <1>1, <1>ready DEF StartJob
  <2> QED
    BY <1>0, <2>1, OneSessionMoves DEF Pc
<1>2. CASE SaveRound(w)
  <2>1. PICK continue \in BOOLEAN :
          LET new == [View(w) EXCEPT !.rounds = Append(sess[w].base, NewRound(continue)),
                                     !.status = "conciliation"]
          IN  row' = WriteRounds(View(w), new) /\ Goto(w, "saved", new)
    BY <1>2 DEF SaveRound
  <2> DEFINE new == [View(w) EXCEPT !.rounds = Append(sess[w].base, NewRound(continue)),
                                    !.status = "conciliation"]
  <2>2. new \in Row
    BY <1>0, OpenedType
  <2>3. Append(sess[w].base, NewRound(continue)) # <<>>
    BY <1>0, NewRoundType, AppendProperties
  <2>4. new.rounds # <<>> /\ InOrder(new) /\ Behind(View(w), new)
    BY <1>0, <2>3 DEF InOrder, Behind, Row
  <2>5. InOrder(row') /\ Behind(row, row') /\ Behind(new, row')
    BY <1>0, <2>1, <2>2, <2>4, WriteRoundsInOrder
  <2> QED
    BY <1>0, <2>1, <2>2, <2>4, <2>5, OneSessionMoves DEF Pc, Passing, JobPc
<1>3. ASSUME NEW new \in Row, NEW point \in {"saved", "conduct"}, Save(w, new, point),
             InOrder(new), Behind(View(w), new)
      PROVE  OrderInv'
  <2>1. InOrder(row') /\ Behind(row, row') /\ Behind(new, row')
    BY <1>0, <1>3, FlushInOrder DEF Save
  <2> QED
    BY <1>0, <1>3, <2>1, OneSessionMoves DEF Save, Pc, Passing, JobPc
<1>4. CASE SaveOrganized(w)
  <2> DEFINE new == [View(w) EXCEPT !.organized = TRUE, !.status = "organized"]
  <2>1. new \in Row
    BY <1>0 DEF Row, Status
  <2>2. View(w).rounds # <<>>
    BY <1>4, <1>ready DEF SaveOrganized, Ready
  <2>3. InOrder(new) /\ Behind(View(w), new)
    BY <1>0, <2>2 DEF InOrder, Behind, Row
  <2> QED
    BY <1>3, <1>4, <2>1, <2>3 DEF SaveOrganized
<1>5. ASSUME NEW c \in Conclusion, NEW new \in Row, NEW point \in {"saved", "rebuilt"},
             SaveDecision(w, c, new, point), new.decision = c,
             InOrder(new), Behind(View(w), new),
             point = "rebuilt" => sess[w].stage = "review"
      PROVE  OrderInv'
  <2> DEFINE f == Flush(View(w), new)
  <2>1. InOrder(f) /\ Behind(row, f) /\ Behind(new, f)
    BY <1>0, <1>5, FlushInOrder
  <2>2. /\ row'.decision = c /\ c # "none"
        /\ row'.rounds = f.rounds /\ row'.organized = f.organized
        /\ row'.review = f.review /\ row'.status = f.status
    BY <1>5 DEF SaveDecision, Flush, Conclusion
  <2>3. f.decision # "none" /\ f.organized
    BY <1>5, <2>1, <2>2 DEF InOrder, Behind
  <2>4. InOrder(row') /\ Behind(row, row') /\ Behind(new, row')
    BY <2>1, <2>2, <2>3 DEF InOrder, Behind
  <2>5. point \in JobPc => Ready(sess[w].stage, new)
    BY <1>5, <2>2 DEF JobPc, Ready
  <2> QED
    BY <1>0, <1>5, <2>4, <2>5, OneSessionMoves DEF SaveDecision, Pc, Passing
<1>6. CASE Decide(w)
  <2>1. PICK c \in Conclusion :
          SaveDecision(w, c, [View(w) EXCEPT !.decision = c, !.conclusion = c,
                                             !.status = DecidedStatus(c)], "saved")
    BY <1>6 DEF Decide
  <2> DEFINE new == [View(w) EXCEPT !.decision = c, !.conclusion = c,
                                    !.status = DecidedStatus(c)]
  <2>2. new \in Row /\ new.decision = c /\ c # "none"
    BY <1>0 DEF Row, Status, DecidedStatus, Conclusion
  <2>3. View(w).organized
    BY <1>6, <1>ready DEF Decide, Ready
  <2>4. /\ new.organized = View(w).organized /\ new.rounds = View(w).rounds
        /\ new.review = View(w).review /\ new.status \in {"decided", "invalidated"}
    BY <1>0 DEF Row, DecidedStatus
  <2>5. InOrder(new) /\ Behind(View(w), new)
    BY <1>0, <2>2, <2>3, <2>4 DEF InOrder, Behind
  <2> QED
    BY <1>5, <2>1, <2>2, <2>5
<1>7. CASE Reconstruct(w)
  <2>1. PICK c \in Conclusion :
          SaveDecision(w, c, [View(w) EXCEPT !.decision = c, !.status = DecidedStatus(c)],
                       "rebuilt")
    BY <1>7 DEF Reconstruct
  <2> DEFINE new == [View(w) EXCEPT !.decision = c, !.status = DecidedStatus(c)]
  <2>2. new \in Row /\ new.decision = c /\ c # "none"
    BY <1>0 DEF Row, Status, DecidedStatus, Conclusion
  <2>3. View(w).decision # "none" /\ View(w).organized
    BY <1>0, <1>7, <1>ready DEF Reconstruct, Ready, InOrder
  <2>4. /\ new.organized = View(w).organized /\ new.rounds = View(w).rounds
        /\ new.review = View(w).review /\ new.status \in {"decided", "invalidated"}
    BY <1>0 DEF Row, DecidedStatus
  <2>5. InOrder(new) /\ Behind(View(w), new)
    BY <1>0, <2>2, <2>3, <2>4 DEF InOrder, Behind
  <2> QED
    BY <1>5, <1>7, <2>1, <2>2, <2>5 DEF Reconstruct
<1>8. ASSUME NEW point \in {"work", "rebuilt"}, SaveReview(w, point)
      PROVE  OrderInv'
  <2>1. PICK c \in ReviewConclusion(point, View(w).decision) :
          Save(w, [View(w) EXCEPT !.review = TRUE, !.conclusion = c, !.status = "reviewed"],
               "saved")
    BY <1>8 DEF SaveReview
  <2> DEFINE new == [View(w) EXCEPT !.review = TRUE, !.conclusion = c, !.status = "reviewed"]
  <2>2. new \in Row
    BY <1>0 DEF Row, Status, ReviewConclusion, Conclusion
  <2>3. View(w).decision # "none"
    BY <1>8, <1>ready DEF SaveReview, Ready
  <2>4. InOrder(new) /\ Behind(View(w), new)
    BY <1>0, <2>3 DEF InOrder, Behind, Row
  <2> QED
    BY <1>3, <2>1, <2>2, <2>4
<1>9. CASE FailJob(w)
  <2>1. /\ row'.rounds = row.rounds /\ row'.organized = row.organized
        /\ row'.decision = row.decision /\ row'.review = row.review
    BY <1>0, <1>9 DEF FailJob, Row
  <2>2. Ready(sess[w].stage, row)
    BY <1>9, <1>ready DEF FailJob
  <2>3. \/ row'.status = row.status
        \/ sess[w].stage = "organize" /\ row'.status = "conciliation"
        \/ sess[w].stage = "decide" /\ row'.status = "organized"
        \/ sess[w].stage = "review" /\ row'.status = "decided"
    BY <1>0, <1>9 DEF FailJob, Row, OnErrorStatus, ClaimedStage
  <2>4. InOrder(row') /\ Behind(row, row')
    BY <1>0, <2>1, <2>2, <2>3 DEF InOrder, Behind, Ready
  <2> QED
    BY <1>0, <1>9, <2>4, OneSessionMoves DEF FailJob
<1>10. CASE TakeChain(w)
  <2>1. row' = row /\ (Goto(w, "conduct", View(w)) \/ Finish(w))
    BY <1>10 DEF TakeChain
  <2> QED
    BY <1>0, <2>1, OneSessionMoves DEF Pc, Passing, JobPc
<1> QED
  BY <1>1, <1>2, <1>4, <1>6, <1>7, <1>8, <1>9, <1>10 DEF Job

(* The sweep restores a status from its own view, which is in order.       *)
LEMMA SweepInOrder ==
  ASSUME OrderInv, TypeOK', NEW n \in Replicas, Sweep(n)
  PROVE  OrderInv'
<1>0. /\ n \in Sessions /\ row \in Row /\ sess[n] \in Session /\ View(n) \in Row
      /\ InOrder(row) /\ InOrder(View(n)) /\ Behind(View(n), row) /\ Behind(row, row)
  BY DEF OrderInv, TypeOK, Sessions, View, Session, Sound, Behind
<1>1. CASE SweepLoad(n)
  <2>1. /\ sess' = [sess EXCEPT ![n] = [Idle EXCEPT !.pc = "taking", !.node = n, !.view = row]]
        /\ row' = row
    BY <1>1 DEF SweepLoad
  <2>2. Sound([Idle EXCEPT !.pc = "taking", !.node = n, !.view = row], row)
    BY <1>0 DEF Sound, Idle, Behind, JobPc
  <2> QED
    BY <2>1, <2>2 DEF OrderInv, TypeOK
<1>2. CASE SweepTake(n)
  <2>1. row' = row /\ (Goto(n, "restore", View(n)) \/ Finish(n))
    BY <1>2 DEF SweepTake
  <2> QED
    BY <1>0, <2>1, OneSessionMoves DEF Pc, Passing, JobPc
<1>3. CASE SweepRestore(n)
  <2> DEFINE v   == View(n)
             new == IF v.status \in ProcessingStatus
                    THEN [v EXCEPT !.status = RestoreFromProcessing[v.status],
                                   !.started = "none"]
                    ELSE v
  <2>1. row' = Flush(v, new) /\ Goto(n, "conduct", new)
    BY <1>3 DEF SweepRestore, Save
  <2>2. new \in Row
    <3>1. \A status \in ProcessingStatus : RestoreFromProcessing[status] \in Status
      BY DEF RestoreFromProcessing, ProcessingStatus, Status
    <3> QED
      BY <1>0, <3>1 DEF Row, Age
  <2>3. /\ new.rounds = v.rounds /\ new.organized = v.organized
        /\ new.decision = v.decision /\ new.review = v.review
    BY <1>0 DEF Row
  <2>4. \/ new.status = v.status
        \/ v.status = "processing_organize" /\ new.status = "conciliation"
        \/ v.status = "processing_decision" /\ new.status = "organized"
        \/ v.status = "processing_review" /\ new.status = "decided"
    BY <1>0 DEF Row, RestoreFromProcessing, ProcessingStatus
  <2>5. InOrder(new) /\ Behind(v, new)
    BY <1>0, <2>3, <2>4 DEF InOrder, Behind
  <2>6. InOrder(row') /\ Behind(row, row') /\ Behind(new, row')
    BY <1>0, <2>1, <2>2, <2>5, FlushInOrder
  <2> QED
    BY <1>0, <2>1, <2>2, <2>5, <2>6, OneSessionMoves DEF Pc, Passing, JobPc
<1> QED
  BY <1>1, <1>2, <1>3 DEF Sweep

(* Operations, the clock and a crash give or take no result.               *)
LEMMA EnvironmentInOrder ==
  ASSUME OrderInv, TypeOK', Unstick \/ TtlElapses \/ \E n \in Replicas : Crash(n)
  PROVE  OrderInv'
<1>0. row \in Row /\ InOrder(row)
  BY DEF OrderInv, TypeOK
<1>1. CASE Unstick
  <2>1. /\ row'.rounds = row.rounds /\ row'.organized = row.organized
        /\ row'.decision = row.decision /\ row'.review = row.review
    BY <1>0, <1>1 DEF Unstick, Row
  <2>2. \/ row.status = "processing_organize" /\ row'.status = "conciliation"
        \/ row.status = "processing_decision" /\ row'.status = "organized"
        \/ row.status = "processing_review" /\ row'.status = "decided"
    BY <1>0, <1>1 DEF Unstick, Row, RestoreFromProcessing, ProcessingStatus
  <2>3. InOrder(row') /\ Behind(row, row')
    BY <1>0, <2>1, <2>2 DEF InOrder, Behind
  <2>4. sess' = sess
    BY <1>1 DEF Unstick
  <2> QED
    BY <2>3, <2>4, SoundMonotone DEF OrderInv
<1>2. CASE TtlElapses
  <2>1. /\ row'.rounds = row.rounds /\ row'.organized = row.organized
        /\ row'.decision = row.decision /\ row'.review = row.review
        /\ row'.status = row.status
    BY <1>0, <1>2 DEF TtlElapses, Row
  <2>2. InOrder(row') /\ Behind(row, row')
    BY <1>0, <2>1 DEF InOrder, Behind
  <2>3. sess' = sess
    BY <1>2 DEF TtlElapses
  <2> QED
    BY <2>2, <2>3, SoundMonotone DEF OrderInv
<1>3. ASSUME NEW n \in Replicas, Crash(n)
      PROVE  OrderInv'
  <2>1. row' = row /\ \A s \in Sessions : sess'[s] \in {sess[s], Idle}
    BY <1>3 DEF Crash
  <2> QED
    BY <2>1, SoundIdle DEF OrderInv
<1> QED
  BY <1>1, <1>2, <1>3

(* Operations resume a case from the view they loaded.                     *)
LEMMA ResumeInOrder ==
  ASSUME OrderInv, TypeOK', NEW s \in Requests, Resume(s)
  PROVE  OrderInv'
<1>1. /\ s \in Sessions /\ View(s) \in Row
      /\ InOrder(row) /\ InOrder(View(s)) /\ Behind(View(s), row) /\ Behind(row, row)
  BY DEF OrderInv, TypeOK, Sessions, View, Session, Sound, Behind
<1>2. row' = row /\ Goto(s, "conduct", View(s))
  BY DEF Resume
<1> QED
  BY <1>1, <1>2, OneSessionMoves DEF Pc, Passing, JobPc

(* The case opens in order.                                                *)
LEMMA InitInOrder ==
  ASSUME Init
  PROVE  OrderInv
<1>1. TypeOK
  BY InitType
<1>2. row = LockedRow /\ \A s \in Sessions :
        sess[s] = Idle \/ \E n \in Replicas : sess[s] = [Idle EXCEPT !.pc = "conduct", !.node = n]
  BY DEF Init
<1>3. InOrder(LockedRow)
  BY DEF InOrder, LockedRow
<1>4. \A s \in Sessions : Sound(sess[s], row)
  BY <1>2, <1>3, SoundIdle, ZenonT(40) DEF Sound, Idle, JobPc
<1> QED
  BY <1>1, <1>2, <1>3, <1>4 DEF OrderInv

(* Every step keeps the order.                                             *)
LEMMA OrderStep ==
  ASSUME OrderInv, [Next]_vars
  PROVE  OrderInv' /\ TypeOK'
<1>1. TypeOK'
  BY NextType DEF OrderInv
<1>2. CASE UNCHANGED vars
  BY <1>1, <1>2 DEF vars, OrderInv
<1>3. CASE Next
  BY <1>1, <1>3, PartyRequestInOrder, ResumeInOrder, ConductInOrder, JobInOrder,
     SweepInOrder, EnvironmentInOrder DEF Next
<1> QED
  BY <1>1, <1>2, <1>3

(* The status never claims a result the case lacks, and the results appear *)
(* in the order of the procedure, in every behaviour: interleaved          *)
(* requests, jobs, sweeps and crashes write from old views, and none takes *)
(* a result back or writes a status its results do not back.               *)
THEOREM OrderKept == Spec => []ArtefactsInOrder
<1>1. Init => OrderInv
  BY InitInOrder
<1>2. OrderInv /\ [Next]_vars => OrderInv'
  BY OrderStep
<1>3. OrderInv => ArtefactsInOrder
  BY DEF OrderInv, ArtefactsInOrder
<1> QED
  BY <1>1, <1>2, <1>3, PTL DEF Spec

-----------------------------------------------------------------------------
(* A withdrawn case is not put back to work.                               *)

(* An update from a view changes the status to the assigned one only.      *)
LEMMA FlushStatus ==
  ASSUME NEW view, NEW new
  PROVE  /\ Flush(view, new).status \in {row.status} \cup ({new.status} \ {view.status})
         /\ WriteRounds(view, new).status = Flush(view, new).status
BY DEF Flush, WriteRounds

(* An answer that changes the status completes the round it is filed in,   *)
(* which stays among the rounds.                                           *)
LEMMA AnsweredAgrees ==
  ASSUME NEW c \in Row, NEW p \in PARTIES, NEW k \in 1..Len(c.rounds), NEW answer,
         Answered(c, p, k, answer).status # c.status
  PROVE  /\ Answered(c, p, k, answer).status = "agreement"
         /\ HasAgreement(Answered(c, p, k, answer))
<1> DEFINE silent  == answer = "refused" /\ c.rounds[k].position[p] = "none"
           round   == [c.rounds[k] EXCEPT !.response[p] = answer,
                                          !.position[p] = IF silent THEN "text" ELSE @]
           written == [c EXCEPT !.rounds[k] = round]
           agreed  == [written EXCEPT !.status = "agreement", !.conclusion = "agreement"]
<1>1. /\ written.status = c.status /\ agreed.status = "agreement"
      /\ agreed.rounds = [c.rounds EXCEPT ![k] = round]
  BY DEF Row
<1>2. Answered(c, p, k, answer) = IF Complete(round) THEN agreed ELSE written
  BY DEF Answered
<1>3. Complete(round) /\ Answered(c, p, k, answer) = agreed
  BY <1>1, <1>2
<1>4. c.rounds \in Seq(Round)
  BY DEF Row
<1> HIDE DEF round, agreed
<1>5. k \in 1..Len(agreed.rounds) /\ agreed.rounds[k] = round
  BY <1>1, <1>4
<1> QED
  BY <1>1, <1>3, <1>5 DEF HasAgreement

(* The rounds are written whole.                                           *)
LEMMA WriteRoundsRounds ==
  ASSUME NEW view, NEW new
  PROVE  WriteRounds(view, new).rounds = new.rounds
BY DEF WriteRounds, Flush

(* What a stage leaves, gives back when it fails, or a withdrawal writes.   *)
ResultStatus == {"conciliation", "organized", "decided", "invalidated", "reviewed", "withdrawn"}

(* How the status can change: by the end of a stage or a withdrawal; by a  *)
(* claim, which matches no withdrawn case; and to an agreement only with   *)
(* two acceptances among the rounds that the same commit writes.           *)
LEMMA StatusChanges ==
  ASSUME TypeOK, Next
  PROVE  \/ row'.status \in {row.status} \cup ResultStatus
         \/ row'.status \in ProcessingStatus /\ row.status # "withdrawn"
         \/ row'.status = "agreement" /\ HasAgreement(row')
<1> DEFINE Legitimate == \/ row'.status \in {row.status} \cup ResultStatus
                         \/ row'.status \in ProcessingStatus /\ row.status # "withdrawn"
                         \/ row'.status = "agreement" /\ HasAgreement(row')
<1>0. row \in Row
  BY DEF TypeOK
<1>1. ASSUME NEW s \in Sessions, NEW new,
             new.status \in {View(s).status} \cup ResultStatus,
             row' \in {Flush(View(s), new), WriteRounds(View(s), new)}
      PROVE  Legitimate
  BY <1>1, FlushStatus
<1>2. ASSUME NEW s \in Requests, PartyRequest(s) \/ Resume(s)
      PROVE  Legitimate
  <2>0. s \in Sessions /\ View(s) \in Row
    BY DEF Sessions, View, TypeOK, Session
  <2>1. CASE LoadCase(s) \/ Refuse(s) \/ Resume(s)
    BY <1>0, <2>1 DEF LoadCase, Refuse, Resume
  <2>2. ASSUME NEW p \in PARTIES, NEW k \in 1..MaxRounds, NEW kind \in Positions,
               FilePosition(s, p, k, kind)
        PROVE  Legitimate
    <3> DEFINE new == [View(s) EXCEPT !.rounds[k].position[p] = kind]
    <3>1. new.status = View(s).status
      BY <2>0 DEF Row
    <3>2. row' = WriteRounds(View(s), new)
      BY <2>2 DEF FilePosition
    <3> QED
      BY <1>1, <2>0, <3>1, <3>2
  <2>3. ASSUME NEW p \in PARTIES, NEW k \in 1..MaxRounds, NEW answer \in Answers,
               RespondAgreement(s, p, k, answer)
        PROVE  Legitimate
    <3> DEFINE new == Answered(View(s), p, k, answer)
    <3>1. k \in 1..Len(View(s).rounds) /\ row' = WriteRounds(View(s), new)
      BY <2>3 DEF RespondAgreement, RoundOpen
    <3>2. CASE new.status = View(s).status
      BY <1>1, <2>0, <3>1, <3>2
    <3>3. CASE new.status # View(s).status
      <4>1. new.status = "agreement" /\ HasAgreement(new)
        BY <2>0, <3>1, <3>3, AnsweredAgrees
      <4>2. row'.rounds = new.rounds
        BY <3>1, WriteRoundsRounds
      <4>3. HasAgreement(row')
        BY <4>1, <4>2 DEF HasAgreement
      <4>4. row'.status \in {row.status, "agreement"}
        BY <3>1, <4>1, FlushStatus
      <4> QED
        BY <4>3, <4>4
    <3> QED
      BY <3>2, <3>3
  <2>4. CASE Withdraw(s)
    BY <1>0, <2>4 DEF Withdraw, Row, ResultStatus
  <2> QED
    BY <1>2, <2>1, <2>2, <2>3, <2>4 DEF PartyRequest
<1>3. ASSUME NEW s \in Sessions, Conduct(s)
      PROVE  Legitimate
  <2>1. CASE OpenClaimed(s)
    <3>1. PICK stage \in ClaimedStage :
            /\ ClaimMatches(s, stage)
            /\ row' = [row EXCEPT !.status = Processing[stage], !.started = "fresh"]
      BY <2>1 DEF OpenClaimed
    <3>2. row.status \in ClaimFrom[stage] \cup {Processing[stage]}
      BY <3>1 DEF ClaimMatches
    <3>3. row'.status = Processing[stage]
      BY <1>0, <3>1 DEF Row
    <3>4. Processing[stage] \in ProcessingStatus
      BY DEF Processing, ClaimedStage, ProcessingStatus
    <3>5. row.status # "withdrawn"
      BY <3>2 DEF ClaimFrom, Processing, ClaimedStage
    <3> QED
      BY <3>3, <3>4, <3>5
  <2> QED
    BY <1>0, <1>3, <2>1 DEF Conduct, ChooseStage, WaitOrHold, OpenRound, StageRefused
<1>4. ASSUME NEW w \in Workers, Job(w) \/ FailJob(w)
      PROVE  Legitimate
  <2>0. w \in Sessions /\ View(w) \in Row
    BY DEF Sessions, View, TypeOK, Session
  <2>1. CASE StartJob(w) \/ TakeChain(w)
    BY <1>0, <2>1 DEF StartJob, TakeChain
  <2>2. CASE SaveRound(w)
    <3>1. PICK continue \in BOOLEAN :
            row' = WriteRounds(View(w),
                     [View(w) EXCEPT !.rounds = Append(sess[w].base, NewRound(continue)),
                                     !.status = "conciliation"])
      BY <2>2 DEF SaveRound
    <3> DEFINE new == [View(w) EXCEPT !.rounds = Append(sess[w].base, NewRound(continue)),
                                      !.status = "conciliation"]
    <3>2. new.status \in ResultStatus
      BY <2>0 DEF Row, ResultStatus
    <3> QED
      BY <1>1, <2>0, <3>1, <3>2
  <2>3. CASE SaveOrganized(w)
    <3> DEFINE new == [View(w) EXCEPT !.organized = TRUE, !.status = "organized"]
    <3>1. new.status \in ResultStatus
      BY <2>0 DEF Row, ResultStatus
    <3> QED
      BY <1>1, <2>0, <2>3, <3>1 DEF SaveOrganized, Save
  <2>4. ASSUME NEW c, NEW new, NEW point, SaveDecision(w, c, new, point),
               new.status \in ResultStatus
        PROVE  Legitimate
    <3>1. row'.status = Flush(View(w), new).status
      BY <2>4 DEF SaveDecision, Flush
    <3> QED
      BY <2>4, <3>1, FlushStatus
  <2>5. CASE Decide(w)
    <3>1. PICK c \in Conclusion :
            SaveDecision(w, c, [View(w) EXCEPT !.decision = c, !.conclusion = c,
                                               !.status = DecidedStatus(c)], "saved")
      BY <2>5 DEF Decide
    <3>2. [View(w) EXCEPT !.decision = c, !.conclusion = c,
                          !.status = DecidedStatus(c)].status \in ResultStatus
      BY <2>0 DEF Row, DecidedStatus, ResultStatus
    <3> QED
      BY <2>4, <3>1, <3>2
  <2>6. CASE Reconstruct(w)
    <3>1. PICK c \in Conclusion :
            SaveDecision(w, c, [View(w) EXCEPT !.decision = c, !.status = DecidedStatus(c)],
                         "rebuilt")
      BY <2>6 DEF Reconstruct
    <3>2. [View(w) EXCEPT !.decision = c, !.status = DecidedStatus(c)].status \in ResultStatus
      BY <2>0 DEF Row, DecidedStatus, ResultStatus
    <3> QED
      BY <2>4, <3>1, <3>2
  <2>7. ASSUME NEW point \in {"work", "rebuilt"}, SaveReview(w, point)
        PROVE  Legitimate
    <3>1. PICK c \in ReviewConclusion(point, View(w).decision) :
            row' = Flush(View(w), [View(w) EXCEPT !.review = TRUE, !.conclusion = c,
                                                  !.status = "reviewed"])
      BY <2>7 DEF SaveReview, Save
    <3> DEFINE new == [View(w) EXCEPT !.review = TRUE, !.conclusion = c, !.status = "reviewed"]
    <3>2. new.status \in ResultStatus
      BY <2>0 DEF Row, ResultStatus
    <3> QED
      BY <1>1, <2>0, <3>1, <3>2
  <2>8. CASE FailJob(w)
    BY <1>0, <2>8 DEF FailJob, Row, OnErrorStatus, ClaimedStage, ResultStatus
  <2> QED
    BY <1>4, <2>1, <2>2, <2>3, <2>5, <2>6, <2>7, <2>8 DEF Job
<1>5. ASSUME NEW n \in Replicas, Sweep(n) \/ Crash(n)
      PROVE  Legitimate
  <2>1. CASE SweepRestore(n)
    <3> DEFINE v   == View(n)
               new == IF v.status \in ProcessingStatus
                      THEN [v EXCEPT !.status = RestoreFromProcessing[v.status],
                                     !.started = "none"]
                      ELSE v
    <3>0. n \in Sessions /\ v \in Row
      BY DEF Sessions, View, TypeOK, Session
    <3>1. new.status \in {v.status} \cup ResultStatus
      BY <3>0 DEF Row, RestoreFromProcessing, ProcessingStatus, ResultStatus
    <3> QED
      BY <1>1, <2>1, <3>0, <3>1 DEF SweepRestore, Save
  <2> QED
    BY <1>0, <1>5, <2>1 DEF Sweep, SweepLoad, SweepTake, Crash
<1>6. CASE Unstick
  BY <1>0, <1>6 DEF Unstick, Row, RestoreFromProcessing, ProcessingStatus, ResultStatus
<1>7. CASE TtlElapses
  BY <1>0, <1>7 DEF TtlElapses, Row
<1> QED
  BY <1>2, <1>3, <1>4, <1>5, <1>6, <1>7 DEF Next

(* Whoever conducts a case from a view older than a withdrawal, no step    *)
(* takes the withdrawn case to a processing status: the conditional UPDATE *)
(* of claim_case_stage is enough for any number of processes.              *)
THEOREM WithdrawalBarsClaims == Spec => WithdrawnNeverClaimed
<1>1. TypeOK /\ [Next]_vars =>
        [row.status = "withdrawn" => row'.status \notin ProcessingStatus]_vars
  BY StatusChanges DEF ResultStatus, ProcessingStatus
<1> QED
  BY <1>1, TypeCorrect, PTL DEF Spec, WithdrawnNeverClaimed

(* A case becomes an agreement only by two acceptances of one proposal, in *)
(* the rounds of the same commit, although two answers at once overwrite   *)
(* each other's rounds and a refusal may come between (stages.py:245).     *)
THEOREM AgreementsHaveTwo == Spec => AgreementNeedsTwo
<1>1. TypeOK /\ [Next]_vars =>
        [row.status # "agreement" /\ row'.status = "agreement" => HasAgreement(row')]_vars
  BY StatusChanges DEF ResultStatus, ProcessingStatus
<1> QED
  BY <1>1, TypeCorrect, PTL DEF Spec, AgreementNeedsTwo

-----------------------------------------------------------------------------
(* One replica at a time conducts a case that was abandoned.               *)

Sweeping(n) == sess[n].pc \in {"restore", "conduct", "invoke"}

(* A replica past the take has cleared the mark it saw; a mark put since   *)
(* is fresh, and cannot grow old while the replica is under way.           *)
SweepInv ==
  /\ TypeOK
  /\ OneSweep
  /\ \A n \in Replicas : Sweeping(n) => armed # "stale"

(* A step in which no replica starts and no mark ages keeps that.          *)
LEMMA Calm ==
  ASSUME SweepInv, TypeOK', armed' = "stale" => armed = "stale",
         \A n \in Replicas : Sweeping(n)' => Sweeping(n)
  PROVE  SweepInv'
<1>1. \A n \in Replicas : Sweeping(n)' => armed' # "stale"
  BY DEF SweepInv
<1>2. OneSweep'
  <2> SUFFICES ASSUME NEW m \in Replicas, NEW n \in Replicas,
                      Sweeping(m)', Sweeping(n)'
               PROVE  m = n
    BY DEF OneSweep, Sweeping
  <2>1. Sweeping(m) /\ Sweeping(n)
    OBVIOUS
  <2> QED
    BY <2>1 DEF SweepInv, OneSweep, Sweeping
<1> QED
  BY <1>1, <1>2 DEF SweepInv

(* A session that moves or ends leaves the others alone.                   *)
LEMMA OthersStay ==
  ASSUME TypeOK, NEW s \in Sessions, NEW o \in Sessions \ {s},
         Finish(s) \/ \E point, view : Goto(s, point, view)
  PROVE  sess'[o] = sess[o]
BY DEF Finish, Goto, TypeOK

(* Every step keeps it.                                                    *)
LEMMA SweepStep ==
  ASSUME SweepInv, [Next]_vars
  PROVE  SweepInv'
<1>0. TypeOK /\ TypeOK' /\ sess \in [Sessions -> Session]
      /\ \A n \in Replicas : n \in Sessions \ (Requests \cup Workers)
  BY NextType, SessionsAssumption DEF SweepInv, TypeOK, Sessions
<1>1. CASE UNCHANGED vars
  BY <1>0, <1>1, Calm DEF vars, Sweeping
<1>2. ASSUME NEW s \in Requests, PartyRequest(s) \/ Resume(s)
      PROVE  SweepInv'
  <2>1. s \in Sessions /\ armed' = armed
    BY <1>2 DEF Sessions, PartyRequest, LoadCase, Refuse, FilePosition, RespondAgreement,
                Withdraw, Resume
  <2>2. \A n \in Replicas : sess'[n] = sess[n]
    <3>1. CASE LoadCase(s)
      BY <1>0, <2>1, <3>1 DEF LoadCase
    <3>2. CASE ~LoadCase(s)
      <4>1. Finish(s) \/ \E point, view : Goto(s, point, view)
        BY <1>2, <3>2 DEF PartyRequest, Refuse, FilePosition, RespondAgreement, Withdraw, Resume
      <4> QED
        BY <1>0, <2>1, <4>1, OthersStay
    <3> QED
      BY <3>1, <3>2
  <2> QED
    BY <1>0, <2>1, <2>2, Calm DEF Sweeping
<1>3. ASSUME NEW s \in Sessions, Conduct(s)
      PROVE  SweepInv'
  <2>1. armed' \in {armed, "none", "fresh"}
    BY <1>3 DEF Conduct, ChooseStage, WaitOrHold, OpenRound, OpenClaimed, StageRefused
  <2>2. ASSUME NEW n \in Replicas, Sweeping(n)'
        PROVE  Sweeping(n)
    <3>1. CASE ChooseStage(s)
      BY <1>0, <2>2, <3>1 DEF ChooseStage, At, Sweeping
    <3>2. CASE WaitOrHold(s) \/ StageRefused(s)
      BY <1>0, <2>2, <3>2 DEF WaitOrHold, StageRefused, Finish, Sweeping, Idle
    <3>3. ASSUME NEW stage, NEW base, Submit(s, stage, base)
          PROVE  Sweeping(n)
      <4>1. sess'[n] \in {sess[n], Idle}
        BY <1>0, <3>3 DEF Submit
      <4> QED
        BY <2>2, <4>1 DEF Sweeping, Idle
    <3> QED
      BY <1>3, <3>1, <3>2, <3>3 DEF Conduct, OpenRound, OpenClaimed
  <2> QED
    BY <1>0, <2>1, <2>2, Calm
<1>4. ASSUME NEW w \in Workers, Job(w) \/ FailJob(w)
      PROVE  SweepInv'
  <2>1. w \in Sessions /\ armed' \in {armed, "none"}
    BY <1>4 DEF Sessions, Job, StartJob, SaveRound, SaveOrganized, Decide, Reconstruct,
                SaveReview, TakeChain, FailJob
  <2>2. Finish(w) \/ \E point, view : Goto(w, point, view)
    BY <1>4 DEF Job, StartJob, SaveRound, SaveOrganized, Decide, Reconstruct, SaveReview,
                TakeChain, FailJob, Save, SaveDecision
  <2>3. \A n \in Replicas : sess'[n] = sess[n]
    BY <1>0, <2>1, <2>2, OthersStay
  <2> QED
    BY <1>0, <2>1, <2>3, Calm DEF Sweeping
<1>5. ASSUME NEW n \in Replicas, Sweep(n)
      PROVE  SweepInv'
  <2>0. n \in Sessions
    BY <1>0
  <2>1. CASE SweepLoad(n)
    <3>1. armed' = armed
          /\ sess' = [sess EXCEPT ![n] = [Idle EXCEPT !.pc = "taking", !.node = n, !.view = row]]
      BY <2>1 DEF SweepLoad
    <3>2. \A m \in Replicas : Sweeping(m)' => Sweeping(m)
      BY <1>0, <3>1 DEF Sweeping, Idle
    <3> QED
      BY <1>0, <3>1, <3>2, Calm
  <2>2. CASE SweepTake(n) /\ armed # "stale"
    <3>1. armed' = armed /\ Finish(n)
      BY <2>2 DEF SweepTake
    <3>2. \A m \in Replicas : Sweeping(m)' => Sweeping(m)
      BY <1>0, <3>1 DEF Sweeping, Finish, Idle
    <3> QED
      BY <1>0, <3>1, <3>2, Calm
  <2>3. CASE SweepTake(n) /\ armed = "stale"
    <3>1. armed' = "none" /\ Goto(n, "restore", View(n))
      BY <2>3 DEF SweepTake
    <3>2. \A m \in Replicas \ {n} : ~Sweeping(m)'
      <4>1. \A m \in Replicas : ~Sweeping(m)
        BY <2>3 DEF SweepInv
      <4> QED
        BY <1>0, <2>0, <3>1, <4>1, OthersStay DEF Sweeping
    <3>3. OneSweep'
      BY <3>2 DEF OneSweep, Sweeping
    <3> QED
      BY <1>0, <3>1, <3>3 DEF SweepInv
  <2>4. CASE SweepRestore(n)
    <3>1. armed' = armed /\ Sweeping(n)
      BY <2>4 DEF SweepRestore, At, Sweeping
    <3>2. \E point, view : Goto(n, point, view)
      BY <2>4 DEF SweepRestore, Save
    <3>3. \A m \in Replicas : Sweeping(m)' => Sweeping(m)
      BY <1>0, <2>0, <3>1, <3>2, OthersStay DEF Sweeping
    <3> QED
      BY <1>0, <3>1, <3>3, Calm
  <2> QED
    BY <1>5, <2>1, <2>2, <2>3, <2>4 DEF Sweep
<1>6. ASSUME NEW n \in Replicas, Crash(n)
      PROVE  SweepInv'
  <2>1. armed' = armed /\ \A s \in Sessions : sess'[s] \in {sess[s], Idle}
    BY <1>6 DEF Crash
  <2>2. \A m \in Replicas : Sweeping(m)' => Sweeping(m)
    BY <1>0, <2>1 DEF Sweeping, Idle
  <2> QED
    BY <1>0, <2>1, <2>2, Calm
<1>7. CASE Unstick
  BY <1>0, <1>7, Calm DEF Unstick, Sweeping
<1>8. CASE TtlElapses
  <2>1. \A n \in Replicas : ~Sweeping(n)'
    BY <1>0, <1>8, SessionsAssumption DEF TtlElapses, Overruns, Sweeping, Sessions
  <2>2. OneSweep'
    BY <2>1 DEF OneSweep, Sweeping
  <2> QED
    BY <1>0, <2>1, <2>2 DEF SweepInv
<1> QED
  BY <1>1, <1>2, <1>3, <1>4, <1>5, <1>6, <1>7, <1>8 DEF Next

(* However many replicas sweep, one conducts an abandoned case at a time.  *)
THEOREM OneReplicaSweeps == Spec => []OneSweep
<1>1. Init => SweepInv
  <2> SUFFICES ASSUME Init PROVE SweepInv
    OBVIOUS
  <2>1. \A n \in Replicas : ~Sweeping(n)
    BY SessionsAssumption DEF Init, Sweeping, Idle, Sessions
  <2>2. OneSweep
    BY <2>1 DEF OneSweep, Sweeping
  <2> QED
    BY <2>1, <2>2, InitType DEF SweepInv
<1>2. SweepInv /\ [Next]_vars => SweepInv'
  BY SweepStep
<1>3. SweepInv => OneSweep
  BY DEF SweepInv
<1> QED
  BY <1>1, <1>2, <1>3, PTL DEF Spec

-----------------------------------------------------------------------------
(* One actor at a time.                                                    *)

(* Requests and conductors do not interleave, the parties wait for a job   *)
(* in flight, a job ends within the TTL, and a process dies only while a   *)
(* job has yet to save.                                                    *)
Calmly == Serial /\ PartiesWait /\ ~SlowJobs /\ CrashPoints \subseteq {"queued", "work"}

(* The case is still as it was when the stage was chosen or claimed.       *)
Prepared(job, r) ==
  /\ job.stage \in Stage
  /\ job.stage = "conciliation" => Legal(r, "conciliate") /\ job.base = r.rounds
  /\ job.stage = "organize" =>
       r.status = "processing_organize" /\ ~r.organized /\ BothAnswered(LatestRound(r))
  /\ job.stage = "decide" =>
       r.status = "processing_decision" /\ r.organized /\ r.decision = "none"
  /\ job.stage = "review" => r.decision # "none" /\ ~r.review
  /\ job.stage = "review" /\ job.pc # "rebuilt" => r.status = "processing_review"
  /\ job.stage \in ClaimedStage /\ job.pc # "rebuilt" => r.started = "fresh"
  /\ job.pc = "rebuilt" => job.stage = "review" /\ r.status \in {"decided", "invalidated"}

(* A session sees the row as it is; the mark of the chain it goes through  *)
(* is fresh, so that no sweep comes in between.                            *)
Steady(s, session, r, mark) ==
  /\ session.pc \notin {"idle", "queued"} => session.view = r
  /\ session.pc = "invoke" =>
       mark = "fresh" /\ \E a \in MODEL_ACTIONS : Legal(r, a) /\ session.stage = StageOf(a)
  /\ session.pc \in JobPc => s \in Workers /\ mark = "fresh" /\ Prepared(session, r)

Alone == \A s, t \in Sessions : ~At(s, "idle") /\ ~At(t, "idle") => s = t

AllSteady == \A s \in Sessions : Steady(s, sess[s], row, armed)

(* The runs are those of the results: a reconstruction that is saved is    *)
(* followed by its review before anything else.                            *)
RunsCounted ==
  /\ runs <= 2
  /\ row.review => row.status = "reviewed"
  /\ row.decision = "none" => runs = 0
  /\ row.decision # "none" /\ ~row.review =>
       runs = 1 \/ \E w \in Workers : At(w, "rebuilt")

CalmInv == OrderInv /\ Alone /\ AllSteady /\ RunsCounted

(* The phase of a case and who has been heard, of any row.                 *)
PhaseOf(c) ==
  CASE c.status = "withdrawn" -> "withdrawn"
    [] c.status = "agreement" -> "agreed"
    [] c.status \notin {"withdrawn", "agreement"} /\ c.review -> "closed"
    [] OTHER -> IF c.decision # "none" THEN "decided"
                ELSE IF c.organized THEN "judgment" ELSE "composition"

HeardOf(c) ==
  IF PhaseOf(c) = "composition"
  THEN {p \in PARTIES : LatestRound(c).position[p] # "none"}
  ELSE {}

(* A step of the case's life, or none.                                     *)
Lives(c, d) ==
  \/ PhaseOf(d) = PhaseOf(c) /\ HeardOf(d) = HeardOf(c)
  \/ /\ PhaseOf(c) = "composition" /\ PhaseOf(d) = "composition"
     /\ \/ \E p \in PARTIES : HeardOf(d) = HeardOf(c) \cup {p}
        \/ HeardOf(c) = PARTIES /\ HeardOf(d) = {}
  \/ PhaseOf(c) = "composition" /\ PhaseOf(d) = "agreed"
  \/ PhaseOf(c) = "composition" /\ HeardOf(c) = PARTIES /\ PhaseOf(d) = "judgment"
  \/ PhaseOf(c) = "judgment" /\ PhaseOf(d) = "decided"
  \/ PhaseOf(c) = "decided" /\ PhaseOf(d) = "closed"
  \/ PhaseOf(c) \in {"composition", "judgment", "decided"} /\ PhaseOf(d) = "withdrawn"

(* What every step of a calm case does.                                    *)
CalmStep == Alone' /\ AllSteady' /\ RunsCounted' /\ Lives(row, row')

-----------------------------------------------------------------------------
(* The phases.                                                             *)

(* Only composition hears.                                                 *)
LEMMA HeardInComposition ==
  ASSUME NEW c, PhaseOf(c) # "composition"
  PROVE  HeardOf(c) = {}
BY DEF HeardOf

(* The phase is read off the results, unless a party left or both agreed.  *)
LEMMA PhaseOfResults ==
  ASSUME NEW c \in Row, InOrder(c), c.status \notin {"withdrawn", "agreement"}
  PROVE  /\ c.review => PhaseOf(c) = "closed"
         /\ ~c.review /\ c.decision # "none" => PhaseOf(c) = "decided"
         /\ c.organized /\ c.decision = "none" => PhaseOf(c) = "judgment"
         /\ ~c.organized => PhaseOf(c) = "composition"
<1>1. /\ c.review => c.decision # "none"
      /\ c.decision # "none" => c.organized
  BY DEF InOrder
<1>2. c.review \in BOOLEAN /\ c.organized \in BOOLEAN
  BY DEF Row
<1> QED
  BY <1>1, <1>2 DEF PhaseOf

(* Where only the status or the age of the claim changes, the life of the  *)
(* case stands still.                                                      *)
LEMMA StatusAlone ==
  ASSUME NEW c, NEW d,
         d.rounds = c.rounds, d.organized = c.organized, d.decision = c.decision,
         d.review = c.review,
         \/ d.status = c.status
         \/ {c.status, d.status} \cap {"withdrawn", "agreement"} = {}
  PROVE  Lives(c, d)
<1>1. /\ d.status = "withdrawn" <=> c.status = "withdrawn"
      /\ d.status = "agreement" <=> c.status = "agreement"
  OBVIOUS
<1>2. PhaseOf(d) = PhaseOf(c)
  BY <1>1 DEF PhaseOf
<1>3. LatestRound(d) = LatestRound(c)
  BY DEF LatestRound
<1> QED
  BY <1>2, <1>3 DEF Lives, HeardOf

(* What is written of one party in a round of a case in composition is at  *)
(* most that it was heard, or the agreement.                               *)
LEMMA PartyWrites ==
  ASSUME NEW c \in Row, NEW d \in Row, InOrder(c), NEW k \in 1..Len(c.rounds),
         NEW round \in Round, NEW p \in PARTIES,
         c.status # "withdrawn", ~c.organized, c.decision = "none",
         d.rounds = [c.rounds EXCEPT ![k] = round],
         d.organized = c.organized, d.decision = c.decision, d.review = c.review,
         d.status \in {c.status, "agreement"},
         \A q \in PARTIES \ {p} : round.position[q] = c.rounds[k].position[q],
         round.position[p] # c.rounds[k].position[p] => round.position[p] # "none"
  PROVE  Lives(c, d)
<1>1. CASE c.status = "agreement"
  <2>1. PhaseOf(c) = "agreed" /\ PhaseOf(d) = "agreed"
    BY <1>1 DEF PhaseOf
  <2> QED
    BY <2>1, HeardInComposition DEF Lives
<1>2. CASE c.status # "agreement"
  <2>1. PhaseOf(c) = "composition"
    BY <1>2, PhaseOfResults
  <2>2. CASE d.status = "agreement"
    <3>1. PhaseOf(d) = "agreed"
      BY <2>2 DEF PhaseOf
    <3> QED
      BY <2>1, <3>1 DEF Lives
  <2>3. CASE d.status # "agreement"
    <3>2. PhaseOf(d) = "composition"
      <4>1. ~c.review
        BY DEF InOrder
      <4> QED
        BY <1>2, <2>3, <4>1 DEF PhaseOf
    <3>3. c.rounds \in Seq(Round) /\ c.rounds # <<>> /\ d.rounds # <<>>
          /\ Len(d.rounds) = Len(c.rounds)
      BY DEF Row
    <3>4. LatestRound(c) = c.rounds[Len(c.rounds)] /\ LatestRound(d) = d.rounds[Len(c.rounds)]
      BY <3>3 DEF LatestRound
    <3>5. CASE k # Len(c.rounds)
      <4>1. LatestRound(d) = LatestRound(c)
        BY <3>3, <3>4, <3>5
      <4> QED
        BY <2>1, <3>2, <4>1 DEF Lives, HeardOf
    <3>6. CASE k = Len(c.rounds)
      <4>1. LatestRound(d) = round /\ LatestRound(c) = c.rounds[k]
        BY <3>3, <3>4, <3>6
      <4>2. /\ HeardOf(c) = {q \in PARTIES : c.rounds[k].position[q] # "none"}
            /\ HeardOf(d) = {q \in PARTIES : round.position[q] # "none"}
        BY <2>1, <3>2, <4>1 DEF HeardOf
      <4>3. HeardOf(d) = HeardOf(c) \/ HeardOf(d) = HeardOf(c) \cup {p}
        BY <4>2
      <4> QED
        BY <2>1, <3>2, <4>3 DEF Lives
    <3> QED
      BY <3>5, <3>6
  <2> QED
    BY <2>2, <2>3
<1> QED
  BY <1>1, <1>2

-----------------------------------------------------------------------------
(* What a step does to the sessions when one actor moves.                  *)

(* A session that sees the row as it is writes what it assigns.            *)
LEMMA FlushNow ==
  ASSUME row \in Row, NEW new \in Row
  PROVE  Flush(row, new) = new /\ WriteRounds(row, new) = new
<1>1. Flush(row, new) = [status |-> new.status, rounds |-> new.rounds,
                         organized |-> new.organized, decision |-> new.decision,
                         review |-> new.review, conclusion |-> new.conclusion,
                         started |-> new.started]
  BY DEF Flush
<1>2. Flush(row, new) = new
  BY <1>1 DEF Row
<1> QED
  BY <1>2 DEF WriteRounds, Row

(* An idle slot owes nothing.                                              *)
LEMMA SteadyIdle ==
  ASSUME NEW s, NEW session, session.pc = "idle", NEW r, NEW mark
  PROVE  Steady(s, session, r, mark)
BY DEF Steady, JobPc

(* The types that the steps need.                                          *)
LEMMA CalmTypes ==
  ASSUME CalmInv
  PROVE  /\ row \in Row /\ InOrder(row) /\ TypeOK
         /\ Requests \cup Workers \cup Replicas = Sessions
         /\ \A s \in Sessions : /\ sess[s] \in Session
                                /\ Steady(s, sess[s], row, armed)
                                /\ ~At(s, "idle") /\ ~At(s, "queued") => View(s) = row
BY DEF CalmInv, OrderInv, TypeOK, Sessions, AllSteady, Steady, At, View

(* While a session is under way the others are idle.                       *)
LEMMA OthersIdle ==
  ASSUME Alone, NEW s \in Sessions, ~At(s, "idle")
  PROVE  \A o \in Sessions \ {s} : At(o, "idle")
BY DEF Alone

(* One session moves while the others are idle.                            *)
LEMMA LoneMove ==
  ASSUME TypeOK, NEW s \in Sessions, \A o \in Sessions \ {s} : At(o, "idle"),
         NEW x, sess' = [sess EXCEPT ![s] = x], Steady(s, x, row', armed')
  PROVE  Alone' /\ AllSteady'
<1>1. sess'[s] = x /\ \A o \in Sessions \ {s} : sess'[o] = sess[o]
  BY DEF TypeOK
<1>2. \A o \in Sessions \ {s} : sess'[o].pc = "idle"
  BY <1>1 DEF At
<1>3. Alone'
  BY <1>2 DEF Alone, At
<1>4. \A o \in Sessions : Steady(o, sess'[o], row', armed')
  BY <1>1, <1>2, SteadyIdle
<1> QED
  BY <1>3, <1>4 DEF AllSteady

(* It goes on with what it has written, ...                                *)
LEMMA LoneGoto ==
  ASSUME CalmInv, NEW s \in Sessions, \A o \in Sessions \ {s} : At(o, "idle"),
         NEW point \in Pc \ {"idle", "queued", "invoke"}, Goto(s, point, row'),
         point \in JobPc => /\ s \in Workers /\ armed' = "fresh"
                            /\ Prepared([sess[s] EXCEPT !.pc = point, !.view = row'], row')
  PROVE  Alone' /\ AllSteady'
<1> DEFINE x == [sess[s] EXCEPT !.pc = point, !.view = row']
<1>1. sess[s] \in Session /\ TypeOK
  BY CalmTypes
<1>2. x.pc = point /\ x.view = row'
  BY <1>1 DEF Session
<1>3. Steady(s, x, row', armed')
  BY <1>2 DEF Steady
<1>4. sess' = [sess EXCEPT ![s] = x]
  BY DEF Goto
<1> HIDE DEF x
<1> QED
  BY <1>1, <1>3, <1>4, LoneMove

(* ... or ends, ...                                                        *)
LEMMA LoneFinish ==
  ASSUME CalmInv, NEW s \in Sessions, \A o \in Sessions \ {s} : At(o, "idle"), Finish(s)
  PROVE  Alone' /\ AllSteady'
<1>1. sess' = [sess EXCEPT ![s] = Idle] /\ Idle.pc = "idle" /\ TypeOK
  BY CalmTypes DEF Finish, Idle
<1> QED
  BY <1>1, LoneMove, SteadyIdle

(* ... or ends and leaves a job behind.                                    *)
LEMMA LoneSubmit ==
  ASSUME CalmInv, NEW s \in Sessions, \A o \in Sessions \ {s} : At(o, "idle"),
         NEW stage, NEW base, Submit(s, stage, base), armed' = "fresh",
         \A node \in Replicas \cup {NoReplica} :
           Prepared([Idle EXCEPT !.pc = "queued", !.node = node, !.stage = stage, !.base = base],
                    row')
  PROVE  Alone' /\ AllSteady'
<1>1. PICK w \in Workers :
        /\ sess[w].pc = "idle"
        /\ sess' = [sess EXCEPT
             ![s] = Idle,
             ![w] = [Idle EXCEPT !.pc = "queued", !.node = sess[s].node,
                                 !.stage = stage, !.base = base]]
  BY DEF Submit
<1> DEFINE job == [Idle EXCEPT !.pc = "queued", !.node = sess[s].node,
                               !.stage = stage, !.base = base]
<1>2. w \in Sessions /\ TypeOK /\ sess[s].node \in Replicas \cup {NoReplica}
  BY CalmTypes DEF Session, Sessions
<1>3. job.pc = "queued" /\ Idle.pc = "idle"
  BY DEF Idle
<1>4. Prepared(job, row')
  BY <1>2
<1>5. sess' = [sess EXCEPT ![s] = Idle, ![w] = job]
  BY <1>1
<1> HIDE DEF job
<1>6. sess'[w] = job /\ \A o \in Sessions \ {w} : sess'[o].pc = "idle"
  BY <1>2, <1>3, <1>5 DEF TypeOK, At
<1>7. Steady(w, job, row', armed')
  BY <1>3, <1>4 DEF Steady
<1>8. Alone'
  BY <1>6 DEF Alone, At
<1>9. \A o \in Sessions : Steady(o, sess'[o], row', armed')
  BY <1>6, <1>7, SteadyIdle
<1> QED
  BY <1>8, <1>9 DEF AllSteady

(* A step that makes no run and no result leaves the account of the runs.  *)
LEMMA NoRun ==
  ASSUME RunsCounted, \A w \in Workers : ~At(w, "rebuilt"), runs' = runs,
         row'.decision = row.decision, row'.review = row.review,
         row'.status = row.status \/ ~row.review
  PROVE  RunsCounted'
BY DEF RunsCounted

(* The results stay and the status moves among those of an open case.      *)
LEMMA StatusStep ==
  ASSUME CalmInv, Alone', AllSteady', \A w \in Workers : ~At(w, "rebuilt"), runs' = runs,
         row'.rounds = row.rounds, row'.organized = row.organized,
         row'.decision = row.decision, row'.review = row.review,
         \/ row'.status = row.status
         \/ /\ {row.status, row'.status} \cap {"withdrawn", "agreement"} = {}
            /\ row.status # "reviewed"
  PROVE  CalmStep
<1>1. RunsCounted'
  BY NoRun DEF CalmInv, RunsCounted
<1>2. Lives(row, row')
  BY StatusAlone
<1> QED
  BY <1>1, <1>2 DEF CalmStep

(* While another point is reached no reconstruction is half way.           *)
LEMMA NoneRebuilt ==
  ASSUME NEW s \in Sessions, \A o \in Sessions \ {s} : At(o, "idle"), ~At(s, "rebuilt")
  PROVE  \A w \in Workers : ~At(w, "rebuilt")
BY DEF At, Sessions

-----------------------------------------------------------------------------
(* The steps, one lemma per group of actions.                              *)

(* What a choice of the steward was made of, and a claimed stage is named  *)
(* as its action is.                                                       *)
LEMMA Chosen ==
  ASSUME CalmInv, NEW s \in Sessions, At(s, "invoke")
  PROVE  /\ armed = "fresh" /\ row.status \notin TERMINAL_STATUSES \cup ProcessingStatus
         /\ sess[s].stage = "conciliation" => Legal(row, "conciliate")
         /\ sess[s].stage \in ClaimedStage => Legal(row, sess[s].stage)
<1>1. PICK a \in MODEL_ACTIONS : Legal(row, a) /\ sess[s].stage = StageOf(a)
  BY CalmTypes DEF Steady, At
<1>2. armed = "fresh"
  BY CalmTypes DEF Steady, At
<1>3. row.status \notin TERMINAL_STATUSES \cup ProcessingStatus
  BY <1>1 DEF Legal, Conductible
<1> QED
  BY <1>1, <1>2, <1>3 DEF StageOf, MODEL_ACTIONS, ClaimedStage

(* The requests of the parties, and operations resuming a case.            *)
LEMMA PartyRequestCalm ==
  ASSUME Calmly, CalmInv, TypeOK', NEW s \in Requests, PartyRequest(s) \/ Resume(s)
  PROVE  CalmStep
<1>0. s \in Sessions /\ row \in Row /\ InOrder(row) /\ sess[s] \in Session
  BY CalmTypes
<1>1. CASE LoadCase(s)
  <2>1. PICK n \in Replicas :
          sess' = [sess EXCEPT ![s] = [Idle EXCEPT !.pc = "loaded", !.node = n, !.view = row]]
    BY <1>1 DEF LoadCase
  <2>2. ~JobInFlight /\ At(s, "idle") /\ \A o \in Sessions \ {s} : sess[o].pc \notin Passing
    BY <1>1 DEF LoadCase, Turn, Calmly
  <2>3. ASSUME NEW o \in Sessions \ {s} PROVE At(o, "idle")
    <3>1. sess[o] \in Session /\ Steady(o, sess[o], row, armed)
      BY CalmTypes
    <3>2. sess[o].pc \in {"idle", "queued", "work"}
      BY <2>2, <3>1 DEF Session, Pc
    <3>3. sess[o].pc \in {"queued", "work"} => o \in Workers
      BY <3>1 DEF Steady, JobPc
    <3> QED
      BY <2>2, <3>2, <3>3 DEF JobInFlight, At
  <2> DEFINE x == [Idle EXCEPT !.pc = "loaded", !.node = n, !.view = row]
  <2>4. x.pc = "loaded" /\ x.view = row
    BY DEF Idle
  <2>5. Steady(s, x, row, armed) /\ row' = row /\ armed' = armed /\ runs' = runs
    BY <1>1, <2>4 DEF LoadCase, Steady, JobPc
  <2>6. Alone' /\ AllSteady'
    <3> HIDE DEF x
    <3> QED
      BY <1>0, <2>1, <2>3, <2>5, LoneMove, CalmTypes DEF x
  <2>7. \A w \in Workers : ~At(w, "rebuilt")
    BY <2>2, <2>3 DEF At, Sessions
  <2> QED
    BY <2>5, <2>6, <2>7, StatusStep
<1>2. CASE ~LoadCase(s)
  <2>1. At(s, "loaded") /\ View(s) = row /\ runs' = runs /\ armed' = armed
    <3>1. At(s, "loaded") /\ runs' = runs /\ armed' = armed
      BY <1>2 DEF PartyRequest, Refuse, FilePosition, RespondAgreement, Withdraw, Resume
    <3> QED
      BY <1>0, <3>1, CalmTypes DEF At
  <2>2. \A o \in Sessions \ {s} : At(o, "idle")
    BY <1>0, <2>1, OthersIdle DEF CalmInv, At
  <2>3. \A w \in Workers : ~At(w, "rebuilt")
    BY <1>0, <2>1, <2>2, NoneRebuilt DEF At
  <2>4. "conduct" \in Pc \ {"idle", "queued", "invoke"} /\ "conduct" \notin JobPc
    BY DEF Pc, Passing, JobPc
  <2>5. Goto(s, "conduct", row') \/ Finish(s) => Alone' /\ AllSteady'
    BY <1>0, <2>2, <2>4, LoneGoto, LoneFinish
  <2>6. CASE Refuse(s) \/ Resume(s)
    BY <2>1, <2>3, <2>5, <2>6, StatusStep DEF Refuse, Resume
  <2>7. ASSUME NEW k \in 1..Len(row.rounds), NEW round \in Round, NEW p \in PARTIES,
               NEW new \in Row, row' = WriteRounds(row, new),
               Goto(s, "conduct", new) \/ Finish(s),
               RoundOpen(row, k), new.rounds = [row.rounds EXCEPT ![k] = round],
               new.organized = row.organized, new.decision = row.decision,
               new.review = row.review, new.status \in {row.status, "agreement"},
               \A q \in PARTIES \ {p} : round.position[q] = row.rounds[k].position[q],
               round.position[p] # row.rounds[k].position[p] => round.position[p] # "none"
        PROVE  CalmStep
    <3>1. row' = new
      BY <1>0, <2>7, FlushNow
    <3>2. Lives(row, row')
      BY <1>0, <2>7, <3>1, PartyWrites DEF RoundOpen
    <3>3. ~row.review
      BY <1>0, <2>7 DEF RoundOpen, InOrder
    <3>4. RunsCounted'
      BY <2>1, <2>3, <2>7, <3>1, <3>3, NoRun DEF CalmInv
    <3> QED
      BY <2>5, <2>7, <3>1, <3>2, <3>4 DEF CalmStep
  <2>8. ASSUME NEW p \in PARTIES, NEW k \in 1..MaxRounds, NEW kind \in Positions,
               FilePosition(s, p, k, kind)
        PROVE  CalmStep
    <3> DEFINE new   == [row EXCEPT !.rounds[k].position[p] = kind]
               round == [row.rounds[k] EXCEPT !.position[p] = kind]
    <3>1. /\ RoundOpen(row, k) /\ row' = WriteRounds(row, new) /\ Goto(s, "conduct", new)
          /\ k \in 1..Len(row.rounds) /\ kind \in PositionKind /\ kind # "none"
      BY <2>1, <2>8, BoundsAssumption DEF FilePosition, RoundOpen
    <3>2. new \in Row
      BY <1>0, <3>1, PositionType
    <3>3. row.rounds[k] \in Round
      BY <1>0, <3>1 DEF Row
    <3>4. /\ round \in Round /\ round.position[p] = kind
          /\ \A q \in PARTIES \ {p} : round.position[q] = row.rounds[k].position[q]
      BY <3>1, <3>3 DEF Round
    <3>5. /\ new.rounds = [row.rounds EXCEPT ![k] = round] /\ new.status = row.status
          /\ new.organized = row.organized /\ new.decision = row.decision
          /\ new.review = row.review
      BY <1>0 DEF Row
    <3> HIDE DEF new, round
    <3> QED
      BY <2>7, <3>1, <3>2, <3>4, <3>5
  <2>9. ASSUME NEW p \in PARTIES, NEW k \in 1..MaxRounds, NEW answer \in Answers,
               RespondAgreement(s, p, k, answer)
        PROVE  CalmStep
    <3> DEFINE silent == answer = "refused" /\ row.rounds[k].position[p] = "none"
               round  == [row.rounds[k] EXCEPT !.response[p] = answer,
                                               !.position[p] = IF silent THEN "text" ELSE @]
               written == [row EXCEPT !.rounds[k] = round]
               agreed == [written EXCEPT !.status = "agreement", !.conclusion = "agreement"]
               new    == Answered(row, p, k, answer)
    <3>1. /\ RoundOpen(row, k) /\ row' = WriteRounds(row, new)
          /\ Goto(s, "conduct", new) \/ Finish(s)
          /\ k \in 1..Len(row.rounds) /\ answer \in Answer
      BY <2>1, <2>9, BoundsAssumption DEF RespondAgreement, RoundOpen
    <3>2. new \in Row
      BY <1>0, <3>1, AnsweredType
    <3>3. row.rounds[k] \in Round
      BY <1>0, <3>1 DEF Row
    <3>4. /\ round \in Round
          /\ \A q \in PARTIES \ {p} : round.position[q] = row.rounds[k].position[q]
          /\ round.position[p] # row.rounds[k].position[p] => round.position[p] # "none"
      BY <3>1, <3>3 DEF Round, PositionKind
    <3>5. new \in {written, agreed}
      BY DEF Answered
    <3>6. /\ new.rounds = [row.rounds EXCEPT ![k] = round]
          /\ new.status \in {row.status, "agreement"}
          /\ new.organized = row.organized /\ new.decision = row.decision
          /\ new.review = row.review
      <4> HIDE DEF round, new
      <4> QED
        BY <1>0, <3>5 DEF Row
    <3> HIDE DEF new, round
    <3> QED
      BY <2>7, <3>1, <3>2, <3>4, <3>6
  <2>10. CASE Withdraw(s)
    <3>1. /\ row.status \notin ProcessingStatus \cup ClosedStatus \cup {"agreement"}
          /\ row' = [row EXCEPT !.status = "withdrawn", !.conclusion = "withdrawn",
                                !.started = "none"]
          /\ Finish(s)
      BY <2>1, <2>10 DEF Withdraw
    <3>2. /\ row'.status = "withdrawn" /\ row'.decision = row.decision
          /\ row'.review = row.review /\ row'.organized = row.organized
      BY <1>0, <3>1 DEF Row
    <3>3. ~row.review /\ row.status \notin {"withdrawn", "agreement"}
      BY <3>1 DEF CalmInv, RunsCounted, ClosedStatus
    <3>4. RunsCounted'
      BY <2>1, <2>3, <3>2, <3>3, NoRun DEF CalmInv
    <3>5. PhaseOf(row) \in {"composition", "judgment", "decided"}
      BY <1>0, <3>3, PhaseOfResults DEF Row
    <3>6. PhaseOf(row') = "withdrawn"
      BY <3>2 DEF PhaseOf
    <3> QED
      BY <2>5, <3>1, <3>4, <3>5, <3>6 DEF CalmStep, Lives
  <2> QED
    BY <1>2, <2>6, <2>8, <2>9, <2>10 DEF PartyRequest
<1> QED
  BY <1>1, <1>2

(* The steward: a stage is chosen, then opened, of the same case.          *)
LEMMA ConductCalm ==
  ASSUME Calmly, CalmInv, TypeOK', NEW s \in Sessions, Conduct(s)
  PROVE  CalmStep
<1>0. /\ row \in Row /\ InOrder(row) /\ sess[s] \in Session
      /\ sess[s].pc \in {"conduct", "invoke"} /\ View(s) = row /\ runs' = runs
  <2>1. sess[s].pc \in {"conduct", "invoke"} /\ runs' = runs
    BY DEF Conduct, ChooseStage, WaitOrHold, OpenRound, OpenClaimed, StageRefused, At
  <2> QED
    BY <2>1, CalmTypes DEF At
<1>1. /\ \A o \in Sessions \ {s} : At(o, "idle")
      /\ \A w \in Workers : ~At(w, "rebuilt")
  <2>1. \A o \in Sessions \ {s} : At(o, "idle")
    BY <1>0, OthersIdle DEF CalmInv, At
  <2> QED
    BY <1>0, <2>1, NoneRebuilt DEF At
<1>2. CASE ChooseStage(s)
  <2>1. PICK action \in MODEL_ACTIONS :
          /\ Legal(row, action)
          /\ sess' = [sess EXCEPT ![s].pc = "invoke", ![s].stage = StageOf(action)]
    BY <1>0, <1>2 DEF ChooseStage, Choices
  <2>2. row' = row /\ armed' = "fresh"
    BY <1>2 DEF ChooseStage
  <2> DEFINE x == [sess[s] EXCEPT !.pc = "invoke", !.stage = StageOf(action)]
  <2>3. x.pc = "invoke" /\ x.stage = StageOf(action) /\ x.view = row
    BY <1>0 DEF Session, View
  <2>4. Steady(s, x, row', armed')
    BY <2>1, <2>2, <2>3 DEF Steady, JobPc
  <2>5. sess' = [sess EXCEPT ![s] = x]
    BY <2>1
  <2> HIDE DEF x
  <2>6. Alone' /\ AllSteady'
    BY <1>1, <2>4, <2>5, LoneMove, CalmTypes
  <2> QED
    BY <1>0, <1>1, <2>2, <2>6, StatusStep
<1>3. CASE WaitOrHold(s) \/ StageRefused(s)
  <2>1. row' = row /\ Finish(s)
    BY <1>3 DEF WaitOrHold, StageRefused
  <2> QED
    BY <1>0, <1>1, <2>1, LoneFinish, StatusStep
<1>4. CASE OpenRound(s)
  <2>1. /\ At(s, "invoke") /\ sess[s].stage = "conciliation" /\ row' = row /\ armed' = armed
        /\ Submit(s, "conciliation", row.rounds)
    BY <1>0, <1>4 DEF OpenRound
  <2>2. armed = "fresh" /\ Legal(row, "conciliate")
    BY <2>1, Chosen
  <2>3. ASSUME NEW node \in Replicas \cup {NoReplica}
        PROVE  Prepared([Idle EXCEPT !.pc = "queued", !.node = node, !.stage = "conciliation",
                                     !.base = row.rounds], row')
    BY <2>1, <2>2 DEF Prepared, Idle, Stage, ClaimedStage
  <2>4. Alone' /\ AllSteady'
    BY <1>1, <2>1, <2>2, <2>3, LoneSubmit
  <2> QED
    BY <1>0, <1>1, <2>1, <2>4, StatusStep
<1>5. CASE OpenClaimed(s)
  <2>1. PICK stage \in ClaimedStage :
          /\ sess[s].stage = stage
          /\ row' = [row EXCEPT !.status = Processing[stage], !.started = "fresh"]
          /\ Submit(s, stage, <<>>)
    BY <1>5 DEF OpenClaimed
  <2>2. At(s, "invoke") /\ armed' = armed
    BY <1>5 DEF OpenClaimed
  <2>3. /\ armed = "fresh" /\ Legal(row, stage)
        /\ row.status \notin TERMINAL_STATUSES \cup ProcessingStatus
    BY <2>1, <2>2, Chosen
  <2>4. /\ row'.rounds = row.rounds /\ row'.organized = row.organized
        /\ row'.decision = row.decision /\ row'.review = row.review
        /\ row'.status = Processing[stage] /\ row'.started = "fresh"
    BY <1>0, <2>1 DEF Row
  <2>5. ASSUME NEW node \in Replicas \cup {NoReplica}
        PROVE  Prepared([Idle EXCEPT !.pc = "queued", !.node = node, !.stage = stage,
                                     !.base = <<>>], row')
    <3> DEFINE job == [Idle EXCEPT !.pc = "queued", !.node = node, !.stage = stage,
                                   !.base = <<>>]
    <3>1. job.pc = "queued" /\ job.stage = stage
      BY DEF Idle
    <3>2. LatestRound(row') = LatestRound(row)
      BY <2>4 DEF LatestRound
    <3>3. CASE stage = "organize"
      BY <2>3, <2>4, <3>1, <3>2, <3>3 DEF Prepared, Legal, Processing, Stage, ClaimedStage
    <3>4. CASE stage = "decide"
      BY <2>3, <2>4, <3>1, <3>4 DEF Prepared, Legal, Processing, Stage, ClaimedStage
    <3>5. CASE stage = "review"
      BY <2>3, <2>4, <3>1, <3>5 DEF Prepared, Legal, Processing, Stage, ClaimedStage
    <3> QED
      BY <3>3, <3>4, <3>5 DEF ClaimedStage
  <2>6. Alone' /\ AllSteady'
    BY <1>1, <2>1, <2>2, <2>3, <2>5, LoneSubmit
  <2>7. Processing[stage] \in ProcessingStatus
    BY DEF Processing, ProcessingStatus, ClaimedStage
  <2>8. /\ {row.status, row'.status} \cap {"withdrawn", "agreement"} = {}
        /\ row.status # "reviewed"
    BY <2>3, <2>4, <2>7 DEF TERMINAL_STATUSES, ProcessingStatus
  <2> QED
    BY <1>0, <1>1, <2>4, <2>6, <2>8, StatusStep
<1> QED
  BY <1>2, <1>3, <1>4, <1>5 DEF Conduct

(* A job loads the case it was submitted for, saves over it, or gives it   *)
(* back.                                                                   *)
LEMMA JobCalm ==
  ASSUME Calmly, CalmInv, TypeOK', NEW w \in Workers, Job(w) \/ FailJob(w)
  PROVE  CalmStep
<1>0. /\ w \in Sessions /\ row \in Row /\ InOrder(row) /\ sess[w] \in Session
      /\ ~At(w, "idle")
  BY CalmTypes DEF Job, StartJob, SaveRound, SaveOrganized, Decide, Reconstruct, SaveReview,
                   TakeChain, FailJob, At
<1>1. \A o \in Sessions \ {w} : At(o, "idle")
  BY <1>0, OthersIdle DEF CalmInv
<1>2. At(w, "queued") \/ View(w) = row
  BY <1>0, CalmTypes
<1>3. sess[w].pc \in JobPc => armed = "fresh" /\ Prepared(sess[w], row)
  BY <1>0, CalmTypes DEF Steady
<1>4. ~At(w, "rebuilt") => \A o \in Workers : ~At(o, "rebuilt")
  BY <1>0, <1>1, NoneRebuilt
<1>5. "saved" \in Pc \ {"idle", "queued", "invoke"} /\ "saved" \notin JobPc
  BY DEF Pc, Passing, JobPc
<1>6. Goto(w, "saved", row') \/ Finish(w) => Alone' /\ AllSteady'
  BY <1>0, <1>1, <1>5, LoneGoto, LoneFinish
<1>7. CASE StartJob(w)
  <2>1. At(w, "queued") /\ row' = row /\ armed' = armed /\ runs' = runs /\ Goto(w, "work", row)
    BY <1>7 DEF StartJob
  <2>2. armed = "fresh" /\ Prepared(sess[w], row)
    BY <1>3, <2>1 DEF At, JobPc
  <2> DEFINE x == [sess[w] EXCEPT !.pc = "work", !.view = row]
  <2>3. x.pc = "work" /\ x.stage = sess[w].stage /\ x.base = sess[w].base
    BY <1>0 DEF Session
  <2>4. sess[w].pc = "queued"
    BY <2>1 DEF At
  <2>5. Prepared(x, row)
    <3> HIDE DEF x
    <3> QED
      BY <2>2, <2>3, <2>4 DEF Prepared
  <2>6. Alone' /\ AllSteady'
    BY <1>0, <1>1, <2>1, <2>2, <2>5, LoneGoto DEF Pc, Passing
  <2> QED
    BY <1>4, <2>1, <2>6, StatusStep DEF At
<1>8. CASE SaveRound(w)
  <2>1. /\ sess[w].pc = "work" /\ sess[w].stage = "conciliation" /\ View(w) = row
        /\ runs' = runs
    BY <1>2, <1>8 DEF SaveRound, At
  <2>2. Legal(row, "conciliate") /\ sess[w].base = row.rounds
    BY <1>3, <2>1 DEF Prepared, JobPc
  <2>3. PICK continue \in BOOLEAN :
          LET new == [row EXCEPT !.rounds = Append(row.rounds, NewRound(continue)),
                                 !.status = "conciliation"]
          IN  row' = WriteRounds(row, new) /\ Goto(w, "saved", new)
    BY <1>8, <2>1, <2>2 DEF SaveRound
  <2> DEFINE new == [row EXCEPT !.rounds = Append(row.rounds, NewRound(continue)),
                                !.status = "conciliation"]
  <2>4. row.rounds \in Seq(Round) /\ NewRound(continue) \in Round
    BY <1>0, NewRoundType DEF Row
  <2>5. new \in Row
    BY <1>0, <2>4, OpenedType
  <2>6. row' = new /\ Goto(w, "saved", row')
    BY <1>0, <2>3, <2>5, FlushNow
  <2>7. /\ row'.rounds = Append(row.rounds, NewRound(continue))
        /\ row'.status = "conciliation" /\ row'.organized = row.organized
        /\ row'.decision = row.decision /\ row'.review = row.review
    BY <1>0, <2>6 DEF Row
  <2>8. ~row.organized /\ row.decision = "none" /\ ~row.review
        /\ row.status \notin {"withdrawn", "agreement"}
    BY <1>0, <2>2 DEF Legal, Conductible, TERMINAL_STATUSES, InOrder
  <2>9. RunsCounted'
    BY <1>4, <2>1, <2>7, <2>8, NoRun DEF CalmInv, At
  <2>10. PhaseOf(row) = "composition" /\ PhaseOf(row') = "composition"
    BY <1>0, <2>7, <2>8, PhaseOfResults DEF PhaseOf
  <2>11. HeardOf(row') = {}
    <3>1. LatestRound(row') = NewRound(continue)
      <4> HIDE DEF new
      <4> DEFINE opened == Append(row.rounds, NewRound(continue))
      <4>1. Len(opened) = Len(row.rounds) + 1 /\ opened[Len(row.rounds) + 1] = NewRound(continue)
        BY <2>4, AppendProperties
      <4>2. opened # <<>>
        BY <2>4, AppendProperties
      <4>3. row'.rounds = opened
        BY <2>7
      <4> HIDE DEF opened
      <4> QED
        BY <4>1, <4>2, <4>3 DEF LatestRound
    <3> QED
      BY <3>1 DEF HeardOf, NewRound
  <2>12. HeardOf(row) \in {{}, PARTIES}
    <3>1. CASE row.rounds = <<>>
      BY <3>1 DEF HeardOf, LatestRound, NewRound
    <3>2. CASE row.rounds # <<>>
      <4>1. BothAnswered(LatestRound(row))
        BY <2>2, <3>2 DEF Legal, AnotherRound
      <4> QED
        BY <2>10, <4>1 DEF HeardOf, BothAnswered
    <3> QED
      BY <3>1, <3>2
  <2> QED
    BY <1>6, <2>6, <2>9, <2>10, <2>11, <2>12 DEF CalmStep, Lives
<1>9. CASE SaveOrganized(w)
  <2>1. sess[w].pc = "work" /\ sess[w].stage = "organize" /\ View(w) = row /\ runs' = runs
    BY <1>2, <1>9 DEF SaveOrganized, At
  <2>2. row.status = "processing_organize" /\ ~row.organized /\ BothAnswered(LatestRound(row))
    BY <1>3, <2>1 DEF Prepared, JobPc
  <2> DEFINE new == [row EXCEPT !.organized = TRUE, !.status = "organized"]
  <2>3. new \in Row
    BY <1>0 DEF Row, Status
  <2>4. row' = Flush(row, new) /\ Goto(w, "saved", new)
    BY <1>9, <2>1 DEF SaveOrganized, Save
  <2>5. row' = new
    BY <1>0, <2>3, <2>4, FlushNow
  <2>6. /\ row'.status = "organized" /\ row'.organized = TRUE
        /\ row'.decision = row.decision /\ row'.review = row.review
    BY <1>0, <2>5 DEF Row
  <2>7. row.decision = "none" /\ ~row.review
    BY <1>0, <2>2 DEF InOrder
  <2>8. RunsCounted'
    BY <1>4, <2>1, <2>6, <2>7, NoRun DEF CalmInv, At
  <2>9. PhaseOf(row) = "composition" /\ PhaseOf(row') = "judgment"
    BY <2>2, <2>6, <2>7 DEF PhaseOf
  <2>10. HeardOf(row) = PARTIES
    BY <2>2, <2>9 DEF HeardOf, BothAnswered
  <2> QED
    BY <1>6, <2>4, <2>5, <2>8, <2>9, <2>10 DEF CalmStep, Lives
<1>10. CASE Decide(w)
  <2>1. sess[w].pc = "work" /\ sess[w].stage = "decide" /\ View(w) = row
    BY <1>2, <1>10 DEF Decide, At
  <2>2. row.status = "processing_decision" /\ row.organized /\ row.decision = "none"
    BY <1>3, <2>1 DEF Prepared, JobPc
  <2>3. PICK c \in Conclusion :
          SaveDecision(w, c, [row EXCEPT !.decision = c, !.conclusion = c,
                                         !.status = DecidedStatus(c)], "saved")
    BY <1>10, <2>1 DEF Decide
  <2> DEFINE new == [row EXCEPT !.decision = c, !.conclusion = c, !.status = DecidedStatus(c)]
  <2>4. new \in Row
    BY <1>0 DEF Row, Status, DecidedStatus
  <2>5. row' = [Flush(row, new) EXCEPT !.decision = c] /\ runs' = runs + 1
        /\ Goto(w, "saved", new)
    BY <2>1, <2>3 DEF SaveDecision
  <2>6. row' = new
    BY <1>0, <2>4, <2>5, FlushNow DEF Row
  <2>7. /\ row'.status \in {"decided", "invalidated"} /\ row'.organized = row.organized
        /\ row'.decision = c /\ row'.review = row.review /\ c # "none"
    BY <1>0, <2>6 DEF Row, DecidedStatus, Conclusion
  <2>8. ~row.review
    BY <1>0, <2>2 DEF InOrder
  <2>9. RunsCounted'
    <3>1. runs = 0
      BY <2>2 DEF CalmInv, RunsCounted
    <3> QED
      BY <2>5, <2>7, <2>8, <3>1 DEF RunsCounted
  <2>10. PhaseOf(row) = "judgment" /\ PhaseOf(row') = "decided"
    BY <2>2, <2>7, <2>8 DEF PhaseOf
  <2> QED
    BY <1>6, <2>5, <2>6, <2>9, <2>10 DEF CalmStep, Lives
<1>11. CASE Reconstruct(w)
  <2>1. sess[w].pc = "work" /\ sess[w].stage = "review" /\ View(w) = row
    <3>1. At(w, "work") /\ sess[w].stage = "review"
      BY <1>11 DEF Reconstruct
    <3> QED
      BY <1>2, <3>1 DEF At
  <2>2. /\ row.status = "processing_review" /\ row.decision # "none" /\ ~row.review
        /\ armed = "fresh"
    BY <1>3, <2>1 DEF Prepared, JobPc
  <2>3. PICK c \in Conclusion :
          SaveDecision(w, c, [row EXCEPT !.decision = c, !.status = DecidedStatus(c)], "rebuilt")
    BY <1>11, <2>1 DEF Reconstruct
  <2> DEFINE new == [row EXCEPT !.decision = c, !.status = DecidedStatus(c)]
  <2>4. new \in Row
    BY <1>0 DEF Row, Status, DecidedStatus
  <2>5. /\ row' = [Flush(row, new) EXCEPT !.decision = c] /\ runs' = runs + 1
        /\ Goto(w, "rebuilt", new) /\ armed' = armed
    BY <1>11, <2>1, <2>3 DEF SaveDecision, Reconstruct
  <2>6. row' = new
    BY <1>0, <2>4, <2>5, FlushNow DEF Row
  <2>7. /\ row'.status \in {"decided", "invalidated"} /\ row'.organized = row.organized
        /\ row'.decision = c /\ row'.review = row.review /\ c # "none"
    BY <1>0, <2>6 DEF Row, DecidedStatus, Conclusion
  <2> DEFINE x == [sess[w] EXCEPT !.pc = "rebuilt", !.view = row']
  <2>8. Prepared(x, row')
    <3>1. x.pc = "rebuilt" /\ x.stage = "review"
      BY <1>0, <2>1 DEF Session
    <3> HIDE DEF x
    <3> QED
      BY <2>2, <2>7, <3>1 DEF Prepared, Stage, ClaimedStage
  <2>9. Alone' /\ AllSteady'
    BY <1>0, <1>1, <2>2, <2>5, <2>6, <2>8, LoneGoto DEF Pc, Passing
  <2>10. sess'[w].pc = "rebuilt"
    BY <1>0, <2>5 DEF Goto, CalmInv, OrderInv, TypeOK, Session
  <2>11. RunsCounted'
    <3>1. runs = 1
      BY <1>4, <2>1, <2>2 DEF CalmInv, RunsCounted, At
    <3> QED
      BY <2>2, <2>5, <2>7, <2>10, <3>1 DEF RunsCounted, At
  <2>12. PhaseOf(row) = "decided" /\ PhaseOf(row') = "decided"
    BY <2>2, <2>7 DEF PhaseOf
  <2> QED
    BY <2>9, <2>11, <2>12, HeardInComposition DEF CalmStep, Lives
<1>12. ASSUME NEW point \in {"work", "rebuilt"}, SaveReview(w, point)
       PROVE  CalmStep
  <2>1. sess[w].pc = point /\ sess[w].stage = "review" /\ View(w) = row /\ runs' = runs
    BY <1>2, <1>12 DEF SaveReview, At
  <2>2. /\ row.status \in {"processing_review", "decided", "invalidated"}
        /\ row.decision # "none" /\ ~row.review
    BY <1>3, <2>1 DEF Prepared, JobPc
  <2>3. PICK c \in ReviewConclusion(point, row.decision) :
          Save(w, [row EXCEPT !.review = TRUE, !.conclusion = c, !.status = "reviewed"], "saved")
    BY <1>12, <2>1 DEF SaveReview
  <2> DEFINE new == [row EXCEPT !.review = TRUE, !.conclusion = c, !.status = "reviewed"]
  <2>4. new \in Row
    <3>1. c \in Conclusion \cup {"none", "agreement", "withdrawn"}
      BY <1>0 DEF ReviewConclusion, Row, Conclusion
    <3> QED
      BY <1>0, <3>1 DEF Row, Status
  <2>5. row' = Flush(row, new) /\ Goto(w, "saved", new)
    BY <2>1, <2>3 DEF Save
  <2>6. row' = new
    BY <1>0, <2>4, <2>5, FlushNow
  <2>7. row'.status = "reviewed" /\ row'.review = TRUE /\ row'.decision = row.decision
    BY <1>0, <2>6 DEF Row
  <2>8. RunsCounted'
    BY <2>1, <2>2, <2>7 DEF CalmInv, RunsCounted
  <2>9. PhaseOf(row) = "decided" /\ PhaseOf(row') = "closed"
    BY <2>2, <2>7 DEF PhaseOf
  <2> QED
    BY <1>6, <2>5, <2>6, <2>8, <2>9 DEF CalmStep, Lives
<1>13. CASE TakeChain(w)
  <2>1. At(w, "saved") /\ row' = row /\ runs' = runs
        /\ (Goto(w, "conduct", row') \/ Finish(w))
    BY <1>2, <1>13 DEF TakeChain, At
  <2>2. Alone' /\ AllSteady'
    BY <1>0, <1>1, <2>1, LoneGoto, LoneFinish DEF Pc, Passing, JobPc
  <2> QED
    BY <1>4, <2>1, <2>2, StatusStep DEF At
<1>14. CASE FailJob(w)
  <2>1. sess[w].pc = "work" /\ runs' = runs /\ Finish(w)
    BY <1>14 DEF FailJob, At
  <2>2. Prepared(sess[w], row)
    BY <1>3, <2>1 DEF JobPc
  <2>3. CASE sess[w].stage \notin ClaimedStage
    <3>1. row' = row
      BY <1>14, <2>3 DEF FailJob
    <3> QED
      BY <1>4, <1>6, <2>1, <3>1, StatusStep DEF At
  <2>4. CASE sess[w].stage \in ClaimedStage
    <3>1. row' = [row EXCEPT !.status = OnErrorStatus[sess[w].stage], !.started = "none"]
      BY <1>14, <2>4 DEF FailJob
    <3>2. row.status \in ProcessingStatus
      BY <2>1, <2>2, <2>4 DEF Prepared, ProcessingStatus, ClaimedStage
    <3>3. OnErrorStatus[sess[w].stage] \in {"conciliation", "organized", "decided"}
      BY <2>4 DEF OnErrorStatus, ClaimedStage
    <3>4. /\ row'.rounds = row.rounds /\ row'.organized = row.organized
          /\ row'.decision = row.decision /\ row'.review = row.review
          /\ row'.status = OnErrorStatus[sess[w].stage]
      BY <1>0, <3>1 DEF Row
    <3>5. /\ {row.status, row'.status} \cap {"withdrawn", "agreement"} = {}
          /\ row.status # "reviewed"
      BY <3>2, <3>3, <3>4 DEF ProcessingStatus
    <3> QED
      BY <1>4, <1>6, <2>1, <3>4, <3>5, StatusStep DEF At
  <2> QED
    BY <2>3, <2>4
<1> QED
  BY <1>7, <1>8, <1>9, <1>10, <1>11, <1>12, <1>13, <1>14 DEF Job

(* While no mark is fresh no job is under way, so a session whose turn it  *)
(* is and that sees no other one passing is alone.                         *)
LEMMA NobodyElse ==
  ASSUME CalmInv, \A s \in Sessions : sess[s].pc \notin JobPc, NEW n \in Sessions,
         \A o \in Sessions \ {n} : sess[o].pc \notin Passing
  PROVE  \A o \in Sessions \ {n} : At(o, "idle")
<1> SUFFICES ASSUME NEW o \in Sessions \ {n} PROVE At(o, "idle")
  OBVIOUS
<1>1. sess[o] \in Session
  BY CalmTypes
<1> QED
  BY <1>1 DEF Session, Pc, JobPc, At

(* The sweep waits until every mark is old, and then nobody else is there. *)
LEMMA SweepCalm ==
  ASSUME Calmly, CalmInv, TypeOK', NEW n \in Replicas, Sweep(n)
  PROVE  CalmStep
<1>0. n \in Sessions /\ row \in Row /\ InOrder(row) /\ sess[n] \in Session /\ runs' = runs
  BY CalmTypes DEF Sessions, Sweep, SweepLoad, SweepTake, SweepRestore
<1>1. CASE SweepLoad(n)
  <2>1. /\ At(n, "idle") /\ armed = "stale" /\ row' = row /\ armed' = armed
        /\ sess' = [sess EXCEPT ![n] = [Idle EXCEPT !.pc = "taking", !.node = n, !.view = row]]
    BY <1>1 DEF SweepLoad
  <2>2. \A s \in Sessions : sess[s].pc \notin JobPc
    BY <2>1, CalmTypes DEF Steady
  <2>3. \A o \in Sessions \ {n} : sess[o].pc \notin Passing
    BY <1>1 DEF SweepLoad, Turn, Calmly
  <2>4. \A o \in Sessions \ {n} : At(o, "idle")
    BY <1>0, <2>2, <2>3, NobodyElse
  <2> DEFINE x == [Idle EXCEPT !.pc = "taking", !.node = n, !.view = row]
  <2>5. x.pc = "taking" /\ x.view = row
    BY DEF Idle
  <2>6. Steady(n, x, row', armed')
    BY <2>1, <2>5 DEF Steady, JobPc
  <2>7. sess' = [sess EXCEPT ![n] = x]
    BY <2>1
  <2> HIDE DEF x
  <2>8. Alone' /\ AllSteady'
    BY <1>0, <2>4, <2>6, <2>7, LoneMove, CalmTypes
  <2>9. \A w \in Workers : ~At(w, "rebuilt")
    BY <2>2 DEF At, JobPc, Sessions
  <2> QED
    BY <1>0, <2>1, <2>8, <2>9, StatusStep
<1>2. CASE ~SweepLoad(n)
  <2>1. /\ sess[n].pc \in {"taking", "restore"}
        /\ SweepTake(n) \/ SweepRestore(n)
    BY <1>2 DEF Sweep, SweepTake, SweepRestore, At
  <2>2. View(n) = row
    BY <1>0, <2>1, CalmTypes DEF At
  <2>3. \A o \in Sessions \ {n} : At(o, "idle")
    BY <1>0, <2>1, OthersIdle DEF CalmInv, At
  <2>4. \A w \in Workers : ~At(w, "rebuilt")
    BY <1>0, <2>1, <2>3, NoneRebuilt DEF At
  <2>5. /\ {"restore", "conduct"} \subseteq Pc \ {"idle", "queued", "invoke"}
        /\ {"restore", "conduct"} \cap JobPc = {}
    BY DEF Pc, Passing, JobPc
  <2>6. Goto(n, "restore", row') \/ Goto(n, "conduct", row') \/ Finish(n)
          => Alone' /\ AllSteady'
    BY <1>0, <2>3, <2>5, LoneGoto, LoneFinish
  <2>7. CASE SweepTake(n)
    <3>1. row' = row /\ (Goto(n, "restore", row') \/ Finish(n))
      BY <2>2, <2>7 DEF SweepTake
    <3> QED
      BY <1>0, <2>4, <2>6, <3>1, StatusStep
  <2>8. CASE SweepRestore(n)
    <3> DEFINE new == IF row.status \in ProcessingStatus
                      THEN [row EXCEPT !.status = RestoreFromProcessing[row.status],
                                       !.started = "none"]
                      ELSE row
    <3>1. row' = Flush(row, new) /\ Goto(n, "conduct", new)
      BY <2>2, <2>8 DEF SweepRestore, Save
    <3>2. \A st \in ProcessingStatus :
            /\ RestoreFromProcessing[st] \in {"conciliation", "organized", "decided"}
            /\ RestoreFromProcessing[st] \in Status
      BY DEF RestoreFromProcessing, ProcessingStatus, Status
    <3>3. new \in Row
      BY <1>0, <3>2 DEF Row, Age
    <3>4. row' = new
      BY <1>0, <3>1, <3>3, FlushNow
    <3>5. /\ row'.rounds = row.rounds /\ row'.organized = row.organized
          /\ row'.decision = row.decision /\ row'.review = row.review
          /\ \/ row'.status = row.status
             \/ /\ row.status \in ProcessingStatus
                /\ row'.status \in {"conciliation", "organized", "decided"}
      BY <1>0, <3>2, <3>4 DEF Row
    <3>6. \/ row'.status = row.status
          \/ /\ {row.status, row'.status} \cap {"withdrawn", "agreement"} = {}
             /\ row.status # "reviewed"
      BY <3>5 DEF ProcessingStatus
    <3>7. Alone' /\ AllSteady'
      BY <2>6, <3>1, <3>4
    <3> QED
      BY <1>0, <2>4, <3>5, <3>6, <3>7, StatusStep
  <2> QED
    BY <2>1, <2>7, <2>8
<1> QED
  BY <1>1, <1>2

(* Where nobody is there, a step of operations or of the clock finds and   *)
(* leaves nobody.                                                          *)
LEMMA AllIdle ==
  ASSUME \A s \in Sessions : At(s, "idle"), sess' = sess
  PROVE  /\ Alone' /\ AllSteady'
         /\ \A w \in Workers : ~At(w, "rebuilt")
<1>1. \A s \in Sessions : Steady(s, sess'[s], row', armed')
  BY SteadyIdle DEF At
<1>2. Alone'
  BY DEF Alone, At
<1>3. \A w \in Workers : ~At(w, "rebuilt")
  BY DEF At, Sessions
<1> QED
  BY <1>1, <1>2, <1>3 DEF AllSteady

(* Operations restore a claim that nobody works on, the clock runs while   *)
(* nobody works, and a crash leaves a job that has saved alone.            *)
LEMMA EnvironmentCalm ==
  ASSUME Calmly, CalmInv, TypeOK', Unstick \/ TtlElapses \/ \E n \in Replicas : Crash(n)
  PROVE  CalmStep
<1>0. row \in Row /\ InOrder(row) /\ runs' = runs
  BY CalmTypes DEF Unstick, TtlElapses, Crash
<1>1. CASE Unstick
  <2>1. /\ row.status \in ProcessingStatus /\ row.started # "fresh" /\ sess' = sess
        /\ row' = [row EXCEPT !.status = RestoreFromProcessing[row.status], !.started = "none"]
        /\ \A o \in Sessions : sess[o].pc \notin Passing
    BY <1>1 DEF Unstick, Calmly
  <2>2. ASSUME NEW s \in Sessions PROVE At(s, "idle")
    <3>1. sess[s] \in Session /\ Steady(s, sess[s], row, armed)
      BY CalmTypes
    <3>2. sess[s].pc \in {"idle", "queued", "work"}
      BY <2>1, <3>1 DEF Session, Pc
    <3>3. ASSUME sess[s].pc \in {"queued", "work"} PROVE FALSE
      <4>1. Prepared(sess[s], row)
        BY <3>1, <3>3 DEF Steady, JobPc
      <4>2. row.status \notin ProcessingStatus \/ row.started = "fresh"
        BY <3>3, <4>1 DEF Prepared, Stage, ClaimedStage, Legal, Conductible
      <4> QED
        BY <2>1, <4>2
    <3> QED
      BY <3>2, <3>3 DEF At
  <2>3. RestoreFromProcessing[row.status] \in {"conciliation", "organized", "decided"}
    BY <2>1 DEF RestoreFromProcessing, ProcessingStatus
  <2>4. /\ row'.rounds = row.rounds /\ row'.organized = row.organized
        /\ row'.decision = row.decision /\ row'.review = row.review
        /\ {row.status, row'.status} \cap {"withdrawn", "agreement"} = {}
        /\ row.status # "reviewed"
    BY <1>0, <2>1, <2>3 DEF Row, ProcessingStatus
  <2> QED
    BY <1>0, <2>1, <2>2, <2>4, AllIdle, StatusStep
<1>2. CASE TtlElapses
  <2>1. sess' = sess /\ \A s \in Sessions : At(s, "idle")
    BY <1>2 DEF TtlElapses, Overruns, Calmly, At
  <2>2. /\ row'.rounds = row.rounds /\ row'.organized = row.organized
        /\ row'.decision = row.decision /\ row'.review = row.review
        /\ row'.status = row.status
    BY <1>0, <1>2 DEF TtlElapses, Row
  <2> QED
    BY <1>0, <2>1, <2>2, AllIdle, StatusStep
<1>3. ASSUME NEW n \in Replicas, Crash(n)
      PROVE  CalmStep
  <2>1. row' = row /\ armed' = armed
    BY <1>3 DEF Crash
  <2>2. ASSUME NEW s \in Sessions
        PROVE  \/ sess'[s] = sess[s]
               \/ sess'[s].pc = "idle" /\ sess[s].pc \in {"queued", "work"}
    BY <1>3 DEF Crash, Calmly, Idle
  <2>3. Alone'
    BY <2>2 DEF CalmInv, Alone, At
  <2>4. AllSteady'
    BY <2>1, <2>2, SteadyIdle DEF CalmInv, AllSteady
  <2>5. ASSUME NEW w \in Workers, At(w, "rebuilt") PROVE At(w, "rebuilt")'
    BY <2>2, <2>5 DEF At, Sessions
  <2>6. RunsCounted'
    BY <1>0, <2>1, <2>5 DEF CalmInv, RunsCounted
  <2>7. Lives(row, row')
    BY <2>1, StatusAlone
  <2> QED
    BY <2>3, <2>4, <2>6, <2>7 DEF CalmStep
<1> QED
  BY <1>1, <1>2, <1>3

-----------------------------------------------------------------------------
(* The calm case begins so and stays so.                                   *)

(* The request that locked the manifest is alone with the case it locked.  *)
LEMMA CalmInit ==
  ASSUME Init
  PROVE  CalmInv
<1>1. OrderInv /\ row = LockedRow /\ runs = 0
  BY InitInOrder DEF Init
<1>2. PICK s \in Requests, n \in Replicas :
        sess = [o \in Sessions |-> IF o = s THEN [Idle EXCEPT !.pc = "conduct", !.node = n]
                                   ELSE Idle]
  BY DEF Init
<1>3. /\ s \in Sessions /\ sess[s].pc = "conduct" /\ sess[s].view = row
      /\ \A o \in Sessions \ {s} : sess[o].pc = "idle"
  BY <1>1, <1>2 DEF Idle, Sessions
<1>4. Alone
  BY <1>3 DEF Alone, At
<1>5. AllSteady
  BY <1>3, SteadyIdle DEF AllSteady, Steady, JobPc
<1>6. RunsCounted
  BY <1>1 DEF RunsCounted, LockedRow
<1> QED
  BY <1>1, <1>4, <1>5, <1>6 DEF CalmInv

(* Every step of a calm case leaves it calm and is a step of its life.     *)
LEMMA CalmNext ==
  ASSUME Calmly, CalmInv, [Next]_vars
  PROVE  CalmInv' /\ Lives(row, row')
<1>1. OrderInv' /\ TypeOK'
  BY OrderStep DEF CalmInv, OrderInv
<1>2. CASE UNCHANGED vars
  <2>1. Alone' /\ AllSteady' /\ RunsCounted'
    BY <1>2 DEF vars, CalmInv, Alone, AllSteady, RunsCounted, At
  <2>2. Lives(row, row')
    BY <1>2, StatusAlone DEF vars
  <2> QED
    BY <1>1, <2>1, <2>2 DEF CalmInv
<1>3. CASE Next
  <2>1. CalmStep
    BY <1>1, <1>3, PartyRequestCalm, ConductCalm, JobCalm, SweepCalm, EnvironmentCalm DEF Next
  <2> QED
    BY <1>1, <2>1 DEF CalmInv, CalmStep
<1> QED
  BY <1>2, <1>3

(* One decision and at most one reconstruction: a decision is made once    *)
(* while none stands, and a reconstruction is followed by the review that  *)
(* closes the case, whatever fails, is retried or is swept in between.     *)
THEOREM OneReconstructionWhenCalm ==
  ASSUME Calmly
  PROVE  Spec => []OneReconstruction
<1>1. Init => CalmInv
  BY CalmInit
<1>2. CalmInv /\ [Next]_vars => CalmInv'
  BY CalmNext
<1>3. CalmInv => OneReconstruction
  BY DEF CalmInv, RunsCounted, OneReconstruction
<1> QED
  BY <1>1, <1>2, <1>3, PTL DEF Spec

(* The phase and the hearing of the specification are those of its row.    *)
LEMMA LifeOfRow ==
  /\ LifePhase = PhaseOf(row) /\ LifeHeard = HeardOf(row)
  /\ LifePhase' = PhaseOf(row') /\ LifeHeard' = HeardOf(row')
BY DEF LifePhase, LifeHeard, PhaseOf, HeardOf

(* A step that Lives is a step of the life, or a stutter.                  *)
LEMMA LivesRefines ==
  ASSUME Lives(row, row')
  PROVE  [Life!Next]_<<LifePhase, LifeHeard>>
<1>1. CASE LifePhase' = LifePhase /\ LifeHeard' = LifeHeard
  BY <1>1
<1>2. CASE LifePhase = "composition" /\ LifePhase' = "composition"
  <2>1. \/ LifeHeard' = LifeHeard
        \/ \E p \in PARTIES : LifeHeard' = LifeHeard \cup {p}
        \/ LifeHeard = PARTIES /\ LifeHeard' = {}
    BY <1>2, LifeOfRow DEF Lives
  <2> QED
    BY <1>2, <2>1 DEF Life!Next, Life!Hear, Life!Propose
<1>3. CASE LifePhase' # "composition" /\ ~(LifePhase' = LifePhase /\ LifeHeard' = LifeHeard)
  <2>1. LifeHeard' = {}
    BY <1>3, LifeOfRow, HeardInComposition
  <2>2. \/ LifePhase = "composition" /\ LifePhase' = "agreed"
        \/ LifePhase = "composition" /\ LifeHeard = PARTIES /\ LifePhase' = "judgment"
        \/ LifePhase = "judgment" /\ LifePhase' = "decided"
        \/ LifePhase = "decided" /\ LifePhase' = "closed"
        \/ LifePhase \in {"composition", "judgment", "decided"} /\ LifePhase' = "withdrawn"
    BY <1>3, LifeOfRow DEF Lives
  <2> QED
    BY <2>1, <2>2 DEF Life!Next, Life!Agree, Life!Judge, Life!Decide, Life!Close,
                      Life!Withdraw, Life!Enter
<1> QED
  BY <1>1, <1>2, <1>3, LifeOfRow DEF Lives

(* Sessions, jobs, marks, failures and recoveries implement the life of    *)
(* the case: both parties are heard on the last proposal before the        *)
(* judgment, each phase follows the one before, and the ends are ends.     *)
THEOREM CaseLivesWhenCalm ==
  ASSUME Calmly
  PROVE  Spec => LifeSpec
<1>1. Init => CalmInv
  BY CalmInit
<1>2. Init => Life!Init
  <2> SUFFICES ASSUME Init PROVE Life!Init
    OBVIOUS
  <2>1. row = LockedRow
    BY DEF Init
  <2>2. PhaseOf(row) = "composition"
    BY <2>1 DEF PhaseOf, LockedRow
  <2>3. HeardOf(row) = {}
    BY <2>1, <2>2 DEF HeardOf, LockedRow, LatestRound, NewRound
  <2> QED
    BY <2>2, <2>3, LifeOfRow DEF Life!Init
<1>3. CalmInv /\ [Next]_vars => CalmInv'
  BY CalmNext
<1>4. CalmInv /\ [Next]_vars => [Life!Next]_<<LifePhase, LifeHeard>>
  BY CalmNext, LivesRefines
<1> QED
  BY <1>1, <1>2, <1>3, <1>4, PTL DEF Spec, LifeSpec, Life!Spec

=============================================================================
