----------------------- MODULE ReleaseWorkflow_proofs -----------------------
(***************************************************************************)
(* Proofs about ReleaseWorkflow, for any releases, handlers, checks,       *)
(* verdicts, number of rounds and faults.                                  *)
(***************************************************************************)
EXTENDS ReleaseWorkflowProperties, TLAPS

(* Policies, retries and reuse give every check a well-formed result. *)
LEMMA EvaluateType ==
    ASSUME NEW previous \in Results(Verdicts),
           NEW rerun, NEW exhausted,
           NEW history \in Seq(Verdicts),
           NEW round \in Nat, round # 0
    PROVE  Evaluate(previous, rerun, history, exhausted, round) \in Results(Verdicts)
<1>1. Execute(history, exhausted) \in Results(Verdicts)
  BY DEF Execute, Results, Executed, MissingEvidence, TransientFailure
<1>2. Reuse(previous, round) \in Results(Verdicts)
  <2>1. Passed \in Verdicts
    BY ConstantsAssumption
  <2>2. round - 1 \in Nat
    OBVIOUS
  <2> QED
    BY <2>1, <2>2 DEF Reuse, Results
<1> QED
  BY <1>1, <1>2 DEF Evaluate

LEMMA NoJobType == NoJob \in Jobs
<1>1. (CHOOSE r \in Releases : TRUE) \in Releases
  BY ConstantsAssumption
<1>2. NoResponse \in Responses
  BY DEF NoResponse, Responses
<1>3. NoResult \in Results(Verdicts)
  BY DEF NoResult, Results, Executed
<1> QED
  BY <1>1, <1>2, <1>3 DEF NoJob, Jobs, NoResults, NoEvidence

LEMMA NoReleaseType == NoRelease \in Rows
<1>1. NoResponse \in Responses
  BY DEF NoResponse, Responses
<1>2. NoWait \in Waits
  BY DEF NoWait, Wait, Waits
<1> QED
  BY <1>1, <1>2 DEF NoRelease, Rows, Phases
-----------------------------------------------------------------------------
(* Type correctness.                                                       *)

LEMMA RowType ==
    ASSUME TypeOK, NEW h \in Handlers
    PROVE  /\ job[h] \in Jobs
           /\ job[h].release \in Releases
           /\ Row(h) \in Rows
           /\ db[job[h].release] = Row(h)
BY DEF TypeOK, Jobs, Row

LEMMA GotoType ==
    ASSUME TypeOK, NEW h \in Handlers, NEW step \in Steps, Goto(h, step)
    PROVE  pc' \in [Handlers -> Steps]
BY DEF TypeOK, Goto

LEMMA ThrowType ==
    ASSUME TypeOK, NEW h \in Handlers, Throw(h)
    PROVE  /\ db' \in [Releases -> Rows]
           /\ pc' \in [Handlers -> Steps]
           /\ tracked' \in [Handlers -> SUBSET Rows]
<1>1. "failing" \in Steps
  BY DEF Steps, TurnSteps
<1> QED
  BY <1>1, GotoType DEF Throw, TypeOK

LEMMA ReplayedType ==
    ASSUME TypeOK, NEW h \in Handlers, NEW step \in Steps, Replayed(h, step)
    PROVE  /\ db' \in [Releases -> Rows]
           /\ pc' \in [Handlers -> Steps]
           /\ tracked' \in [Handlers -> SUBSET Rows]
BY GotoType DEF Replayed, TypeOK

LEMMA CommitType ==
    ASSUME TypeOK, NEW h \in Handlers, NEW row \in Rows, NEW step \in Steps,
           Commit(h, row, step)
    PROVE  /\ db' \in [Releases -> Rows]
           /\ pc' \in [Handlers -> Steps]
           /\ tracked' \in [Handlers -> SUBSET Rows]
<1>1. "failing" \in Steps
  BY DEF Steps, TurnSteps
<1>2. job[h].release \in Releases
  BY RowType
<1> QED
  BY <1>1, <1>2, GotoType DEF Commit, TypeOK

LEMMA LeaveType ==
    ASSUME TypeOK, NEW h \in Handlers, NEW answer \in Replies, Leave(h, answer)
    PROVE  /\ gate' \in Handlers \cup {Nobody}
           /\ pc' \in [Handlers -> Steps]
           /\ job' \in [Handlers -> Jobs]
           /\ tracked' \in [Handlers -> SUBSET Rows]
           /\ reply' \in [Handlers -> Replies]
<1>1. "idle" \in Steps
  BY DEF Steps
<1>2. pc' \in [Handlers -> Steps]
  BY <1>1, GotoType DEF Leave
<1> QED
  BY <1>2, NoJobType DEF Leave, TypeOK

LEMMA AnswerType ==
    ASSUME TypeOK, NEW h \in Handlers, NEW answer \in Replies, Answer(h, answer)
    PROVE  TypeOK'
BY DEF Answer, TypeOK

LEMMA BeginType ==
    ASSUME TypeOK, NEW h \in Handlers, NEW step \in Steps, NEW request \in Jobs,
           Begin(h, step, request)
    PROVE  TypeOK'
BY GotoType DEF Begin, TypeOK

(* The rows each commit writes are rows. *)
LEMMA SubmissionRowType ==
    ASSUME TypeOK, NEW h \in Handlers
    PROVE  Answered(h) \in Rows
<1>1. Row(h) \in Rows /\ job[h] \in Jobs
  BY RowType
<1>2. NoWait \in Waits
  BY DEF NoWait, Wait, Waits
<1>3. \A c \in Checks : job[h].fill[c] # NoEvidence => job[h].fill[c] \in Verdicts
  BY <1>1 DEF Jobs
<1>4. [c \in Checks |-> IF job[h].fill[c] = NoEvidence
                        THEN Row(h).evidence[c]
                        ELSE Append(Row(h).evidence[c], job[h].fill[c])]
          \in [Checks -> Seq(Verdicts)]
  BY <1>1, <1>3 DEF Rows
<1>5. Row(h).submissions \cup {job[h].round} \in SUBSET Nat
  BY <1>1 DEF Rows, Jobs
<1>6. Append(Row(h).timeline, "RemediationSubmitted") \in Seq(TimelineKinds)
  BY <1>1 DEF Rows, TimelineKinds
<1> QED
  BY <1>1, <1>2, <1>4, <1>5, <1>6 DEF Answered, Rows, Phases

LEMMA RoundRowType ==
    ASSUME TypeOK, NEW h \in Handlers
    PROVE  Evaluated(h) \in Rows
<1>1. Row(h) \in Rows /\ job[h] \in Jobs
  BY RowType
<1>2. Append(Row(h).rounds, job[h].results) \in Seq([Checks -> Results(Verdicts)])
  BY <1>1 DEF Rows, Jobs
<1>3. Append(Row(h).timeline, "EvaluationCompleted") \in Seq(TimelineKinds)
  BY <1>1 DEF Rows, TimelineKinds
<1> QED
  BY <1>1, <1>2, <1>3 DEF Evaluated, Rows

LEMMA DecisionRowType ==
    ASSUME TypeOK, NEW h \in Handlers
    PROVE  Decided(h) \in Rows
<1>0. Row(h) \in Rows /\ job[h] \in Jobs
  BY RowType
<1>1. Row(h).active.round \in Nat
  BY <1>0 DEF Rows, Waits
<1>2. [job[h].response EXCEPT !.round = Row(h).active.round] \in Responses
  BY <1>0, <1>1 DEF Jobs, Responses
<1>3. NoWait \in Waits
  BY DEF NoWait, Wait, Waits
<1>4. Append(Row(h).timeline, "HumanResponseAccepted") \in Seq(TimelineKinds)
  BY <1>0 DEF Rows, TimelineKinds
<1>5. (IF job[h].response.decision = "Approve" THEN "Approved" ELSE "Rejected") \in Phases
  BY DEF Phases, Ended, Terminal
<1> QED
  BY <1>0, <1>2, <1>3, <1>4, <1>5 DEF Decided, Rows

LEMMA AskType ==
    ASSUME TypeOK, NEW h \in Handlers, NEW kind \in {"Remediation", "Approval"},
           NEW phase \in Phases, NEW entry \in TimelineKinds,
           Ask(h, kind, phase, entry)
    PROVE  /\ db' \in [Releases -> Rows]
           /\ pc' \in [Handlers -> Steps]
           /\ tracked' \in [Handlers -> SUBSET Rows]
<1> DEFINE wait == Wait(kind, NextRound(h))
           row == Asked(h, kind, phase, entry)
<1>1. Row(h) \in Rows /\ job[h] \in Jobs
  BY RowType
<1>2. wait \in Waits
  BY <1>1 DEF Jobs, NextRound, Wait, Waits
<1>3. row \in Rows
  <2>1. Row(h).requests \cup {wait} \in SUBSET Waits
    BY <1>1, <1>2 DEF Rows
  <2>2. Append(Row(h).timeline, entry) \in Seq(TimelineKinds)
    BY <1>1 DEF Rows
  <2> QED
    BY <1>1, <1>2, <2>1, <2>2 DEF Asked, Rows
<1>4. "suspending" \in Steps
  BY DEF Steps, TurnSteps
<1>5. CASE Commit(h, row, "suspending")
  BY <1>3, <1>4, <1>5, CommitType
<1>6. CASE Throw(h)
  BY <1>6, ThrowType
<1>7. CASE Replayed(h, "suspending")
  BY <1>4, <1>7, ReplayedType
<1> QED
  BY <1>5, <1>6, <1>7 DEF Ask
-----------------------------------------------------------------------------
LEMMA TypeInit == Init => TypeOK
<1> SUFFICES ASSUME Init PROVE TypeOK
  OBVIOUS
<1>1. db \in [Releases -> Rows]
  BY NoReleaseType DEF Init
<1>2. checkpoint \in [Releases -> Checkpoints]
  BY DEF Init, NoCheckpoint, NoWait, Wait, Checkpoints
<1>3. job \in [Handlers -> Jobs]
  BY NoJobType DEF Init
<1>4. pc \in [Handlers -> Steps] /\ reply \in [Handlers -> Replies]
  BY DEF Init, Steps, Replies
<1> QED
  BY <1>1, <1>2, <1>3, <1>4 DEF Init, TypeOK

LEMMA PostType ==
    ASSUME TypeOK, NEW h \in Handlers, Post(h)
    PROVE  TypeOK'
<1>0. /\ "ok" \in Replies /\ "no" \in Replies /\ "conflict" \in Replies
      /\ "inserting" \in Steps /\ "posting" \in Steps /\ "queued" \in Steps
  BY DEF Replies, Steps
<1>1. ASSUME NEW r \in Releases, NEW fill \in Fills, PostNew(h, r, fill)
      PROVE  TypeOK'
  <2>1. [NoJob EXCEPT !.kind = "submit", !.release = r, !.fill = fill] \in Jobs
    BY NoJobType DEF Jobs, Fills
  <2> QED
    BY <1>0, <1>1, <2>1, AnswerType, BeginType DEF PostNew
<1>2. ASSUME NEW r \in Releases, NEW round \in 1 .. MaxRounds, NEW fill \in Fills,
             NEW rerun \in SUBSET Checks, PostRemediation(h, r, round, fill, rerun)
      PROVE  TypeOK'
  <2>1. [c \in Checks |-> Len(db[r].evidence[c])] \in [Checks -> Nat]
    BY DEF TypeOK, Rows
  <2>2. round \in Nat
    BY ConstantsAssumption
  <2>3. [NoJob EXCEPT !.kind = "remediate",
                      !.release = r,
                      !.round = round,
                      !.fill = fill,
                      !.base = [c \in Checks |-> Len(db[r].evidence[c])],
                      !.rerun = rerun] \in Jobs
    BY <2>1, <2>2, NoJobType DEF Jobs, Fills
  <2> QED
    BY <1>0, <1>2, <2>3, AnswerType, BeginType DEF PostRemediation
<1>3. ASSUME NEW r \in Releases, NEW id \in ResponseIds, NEW decision \in Decisions,
             PostDecision(h, r, id, decision)
      PROVE  TypeOK'
  <2> DEFINE response == [id |-> id, decision |-> decision, round |-> 0]
  <2>1. response \in Responses
    BY DEF Responses
  <2>2. [NoJob EXCEPT !.kind = "decide", !.release = r, !.response = response] \in Jobs
    BY <2>1, NoJobType DEF Jobs
  <2>3. (IF SameDecision(db[r].response, response) THEN "ok" ELSE "no") \in Replies
    BY <1>0
  <2> QED
    BY <1>0, <1>3, <2>2, <2>3, AnswerType, BeginType DEF PostDecision
<1>4. ASSUME NEW r \in Releases, ViewDecision(h, r)
      PROVE  TypeOK'
  <2>1. [NoJob EXCEPT !.kind = "view", !.release = r] \in Jobs
    BY NoJobType DEF Jobs
  <2> QED
    BY <1>0, <1>4, <2>1, AnswerType, BeginType DEF ViewDecision
<1> QED
  BY <1>1, <1>2, <1>3, <1>4 DEF Post

LEMMA PlanType ==
    ASSUME TypeOK, NEW h \in Handlers, PlanRound(h)
    PROVE  TypeOK'
<1>1. job[h].release \in Releases /\ Row(h) \in Rows /\ job[h] \in Jobs
  BY RowType
<1>2. "saving" \in Steps
  BY DEF Steps, TurnSteps
<1>3. CASE PlanAccepted(h)
  <2>1. PICK exhausted \in SUBSET Checks :
           job' = [job EXCEPT ![h].results =
                       [c \in Checks |->
                           Evaluate(Previous(h, c), c \in job[h].rerun,
                                    Row(h).evidence[c], c \in exhausted,
                                    NextRound(h))]]
    BY <1>3 DEF PlanRound
  <2>2. NextRound(h) \in Nat /\ NextRound(h) # 0
    BY <1>1 DEF NextRound, Jobs
  <2>3. ASSUME NEW c \in Checks
        PROVE  Previous(h, c) \in Results(Verdicts)
    <3>1. NoResult \in Results(Verdicts)
      BY DEF NoResult, Results, Executed
    <3>2. Row(h).rounds \in Seq([Checks -> Results(Verdicts)])
      BY <1>1 DEF Rows
    <3>3. Row(h).rounds # <<>> => Latest(Row(h)) \in [Checks -> Results(Verdicts)]
      BY <3>2 DEF Latest
    <3> QED
      BY <3>1, <3>3 DEF Previous
  <2>4. \A c \in Checks :
            Evaluate(Previous(h, c), c \in job[h].rerun, Row(h).evidence[c],
                     c \in exhausted, NextRound(h)) \in Results(Verdicts)
    <3> TAKE c \in Checks
    <3>1. Row(h).evidence[c] \in Seq(Verdicts)
      BY <1>1 DEF Rows
    <3> QED
      BY <2>2, <2>3, <3>1, EvaluateType
  <2>5. job' \in [Handlers -> Jobs]
    <3> DEFINE new == [c \in Checks |->
                           Evaluate(Previous(h, c), c \in job[h].rerun,
                                    Row(h).evidence[c], c \in exhausted,
                                    NextRound(h))]
    <3>1. new \in [Checks -> Results(Verdicts)]
      BY <2>4
    <3>2. job' = [job EXCEPT ![h].results = new]
      BY <2>1
    <3> HIDE DEF new
    <3>3. [job[h] EXCEPT !.results = new] \in Jobs
      BY <1>1, <3>1 DEF Jobs
    <3> QED
      BY <3>2, <3>3 DEF TypeOK
  <2>6. Running(NextRound(h)) \in Checkpoints
    BY <2>2 DEF Running, Wait, Checkpoints
  <2>7. checkpoint' \in [Releases -> Checkpoints]
    BY <1>1, <1>3, <2>6 DEF PlanRound, TypeOK
  <2>8. pc' \in [Handlers -> Steps]
    BY <1>2, <1>3, GotoType DEF PlanRound
  <2> QED
    BY <1>3, <2>5, <2>7, <2>8 DEF PlanRound, TypeOK
<1>4. CASE ~PlanAccepted(h)
  <2>1. Throw(h) /\ UNCHANGED <<job, checkpoint, gate, reply>>
    BY <1>4 DEF PlanRound
  <2> QED
    BY <2>1, ThrowType DEF TypeOK
<1> QED
  BY <1>3, <1>4

LEMMA MarkFailedType ==
    ASSUME TypeOK, NEW h \in Handlers, MarkFailed(h)
    PROVE  TypeOK'
<1>1. job[h].release \in Releases /\ Row(h) \in Rows
  BY RowType
<1>2. Loaded(h) = Row(h)
  BY DEF Loaded, ClearTracker
<1>3. db' \in [Releases -> Rows]
  <2>1. Append(Row(h).timeline, "WorkflowFailed") \in Seq(TimelineKinds)
    BY <1>1 DEF Rows, TimelineKinds
  <2>2. FailedRow(h) \in Rows
    BY <1>1, <1>2, <2>1 DEF FailedRow, Rows, Phases, Ended
  <2> QED
    BY <1>1, <1>2, <2>2 DEF MarkFailed, TypeOK
<1>4. CASE /\ Goto(h, "rereading") /\ gate' = Nobody /\ UNCHANGED <<job, reply>>
           /\ tracked' = [tracked EXCEPT ![h] = {}]
  <2>1. "rereading" \in Steps
    BY DEF Steps
  <2>2. pc' \in [Handlers -> Steps]
    BY <1>4, <2>1, GotoType
  <2> QED
    BY <1>3, <1>4, <2>2 DEF MarkFailed, TypeOK
<1>5. CASE Leave(h, "error")
  <2>1. "error" \in Replies
    BY DEF Replies
  <2> QED
    BY <1>3, <1>5, <2>1, LeaveType DEF MarkFailed, TypeOK
<1> QED
  BY <1>4, <1>5 DEF MarkFailed

(* Work, one step per action. *)
LEMMA WorkType ==
    ASSUME TypeOK, NEW h \in Handlers, Work(h)
    PROVE  TypeOK'
<1>0. /\ job[h] \in Jobs /\ job[h].release \in Releases /\ Row(h) \in Rows
      /\ db[job[h].release] = Row(h)
  BY RowType
<1>r. /\ "ok" \in Replies /\ "no" \in Replies /\ "unsafe" \in Replies /\ "error" \in Replies
  BY DEF Replies
<1>s. /\ "queued" \in Steps /\ "answering" \in Steps /\ "planning" \in Steps
      /\ "asking" \in Steps /\ "correlating" \in Steps /\ "failing" \in Steps
      /\ "deciding" \in Steps /\ "finishing" \in Steps
  BY DEF Steps, TurnSteps
<1>1. CASE InsertRelease(h)
  <2>1. [Row(h) EXCEPT !.phase = "Evaluating",
                       !.evidence = FirstRecords(job[h].fill),
                       !.timeline = <<"ReleaseSubmitted">>] \in Rows
    <3>1. \A c \in Checks : job[h].fill[c] # NoEvidence => job[h].fill[c] \in Verdicts
      BY <1>0 DEF Jobs
    <3>2. FirstRecords(job[h].fill) \in [Checks -> Seq(Verdicts)]
      BY <3>1 DEF FirstRecords
    <3>3. <<"ReleaseSubmitted">> \in Seq(TimelineKinds)
      BY DEF TimelineKinds
    <3> QED
      BY <1>0, <3>2, <3>3 DEF Rows, Phases
  <2>2. CASE Leave(h, "error") /\ UNCHANGED db
    BY <1>1, <1>r, <2>2, LeaveType DEF InsertRelease, TypeOK
  <2>3. CASE ~(Leave(h, "error") /\ UNCHANGED db)
    <3>1. Goto(h, "queued") /\ UNCHANGED <<gate, job, tracked, reply, checkpoint>>
      BY <1>1, <2>3 DEF InsertRelease
    <3>2. db' \in [Releases -> Rows]
      BY <1>0, <1>1, <2>1, <2>3 DEF InsertRelease, TypeOK
    <3> QED
      BY <1>s, <3>1, <3>2, GotoType DEF TypeOK
  <2> QED
    BY <2>2, <2>3
<1>2. CASE CheckRemediation(h)
  BY <1>2, <1>r, <1>s, LeaveType, GotoType DEF CheckRemediation, TypeOK
<1>3. CASE ResumeRemediation(h)
  BY <1>3, <1>s, ThrowType, GotoType DEF ResumeRemediation, TypeOK
<1>4. CASE SaveSubmission(h)
  <2>1. /\ db' \in [Releases -> Rows]
        /\ pc' \in [Handlers -> Steps]
        /\ tracked' \in [Handlers -> SUBSET Rows]
    BY <1>4, <1>s, SubmissionRowType, CommitType, ThrowType DEF SaveSubmission
  <2> QED
    BY <1>4, <2>1 DEF SaveSubmission, TypeOK
<1>5. CASE PlanRound(h)
  BY <1>5, PlanType
<1>6. CASE SaveRound(h)
  <2>1. /\ db' \in [Releases -> Rows]
        /\ pc' \in [Handlers -> Steps]
        /\ tracked' \in [Handlers -> SUBSET Rows]
    BY <1>6, <1>s, RoundRowType, CommitType, ReplayedType, ThrowType DEF SaveRound
  <2> QED
    BY <1>6, <2>1 DEF SaveRound, TypeOK
<1>7. CASE OpenRemediation(h)
  <2>1. "WaitingForRemediation" \in Phases /\ "RemediationRequested" \in TimelineKinds
    BY DEF Phases, Waiting, TimelineKinds
  <2> QED
    BY <1>7, <2>1, AskType DEF OpenRemediation, TypeOK
<1>8. CASE OpenApproval(h)
  <2>1. "WaitingForApproval" \in Phases /\ "ApprovalRequested" \in TimelineKinds
    BY DEF Phases, Waiting, TimelineKinds
  <2> QED
    BY <1>8, <2>1, AskType, ThrowType DEF OpenApproval, TypeOK
<1>9. CASE ReachWait(h)
  <2>1. Row(h).active \in Checkpoints
    BY <1>0 DEF Rows, Waits, Checkpoints
  <2> QED
    BY <1>0, <1>9, <1>s, <2>1, GotoType DEF ReachWait, TypeOK
<1>10. CASE SaveCorrelation(h)
  <2>1. [Row(h) EXCEPT !.correlation = Row(h).active] \in Rows
    BY <1>0 DEF Rows
  <2>2. CASE Leave(h, "ok") /\ db' = [db EXCEPT ![job[h].release].correlation = Row(h).active]
    <3>1. db' \in [Releases -> Rows]
      BY <1>0, <2>1, <2>2 DEF TypeOK
    <3> QED
      BY <1>10, <1>r, <2>2, <3>1, LeaveType DEF SaveCorrelation, TypeOK
  <2>3. CASE /\ Goto(h, "failing") /\ UNCHANGED <<db, gate, job, reply>>
             /\ tracked' = [tracked EXCEPT ![h] =
                               {[Row(h) EXCEPT !.correlation = Row(h).active]}]
    BY <1>10, <1>s, <2>1, <2>3, GotoType DEF SaveCorrelation, TypeOK
  <2>4. CASE Throw(h) /\ UNCHANGED <<gate, job, reply>>
    BY <1>10, <2>4, ThrowType DEF SaveCorrelation, TypeOK
  <2> QED
    BY <1>10, <2>2, <2>3, <2>4 DEF SaveCorrelation
<1>11. CASE ResumeApproval(h)
  BY <1>11, <1>r, <1>s, LeaveType, GotoType DEF ResumeApproval, TypeOK
<1>12. CASE SaveResponse(h)
  <2>1. Decided(h) \in Rows
    BY DecisionRowType
  <2>2. Commit(h, Decided(h), "finishing") \/ Throw(h)
    BY <1>12 DEF SaveResponse
  <2> QED
    BY <1>12, <1>s, <2>1, <2>2, CommitType, ThrowType DEF SaveResponse, TypeOK
<1>13. CASE FinishApproval(h)
  <2>1. checkpoint' \in [Releases -> Checkpoints]
    BY <1>0, <1>13 DEF FinishApproval, Completed, Wait, Checkpoints, TypeOK
  <2> QED
    BY <1>13, <1>r, <2>1, LeaveType DEF FinishApproval, TypeOK
<1>14. CASE RestoreForView(h)
  BY <1>14, <1>r, <1>s, LeaveType, GotoType DEF RestoreForView, TypeOK
<1>15. CASE MarkFailed(h)
  BY <1>15, MarkFailedType
<1>16. CASE Reread(h)
  <2>1. PICK answer \in Replies : Leave(h, answer)
    BY <1>16, <1>r DEF Reread
  <2> QED
    BY <1>16, <2>1, LeaveType DEF Reread, TypeOK
<1> QED
  BY <1>1, <1>2, <1>3, <1>4, <1>5, <1>6, <1>7, <1>8, <1>9, <1>10, <1>11, <1>12,
     <1>13, <1>14, <1>15, <1>16 DEF Work

LEMMA TypeStep == TypeOK /\ [Next]_vars => TypeOK'
<1> SUFFICES ASSUME TypeOK, [Next]_vars PROVE TypeOK'
  OBVIOUS
<1>1. ASSUME NEW h \in Handlers, Post(h) PROVE TypeOK'
  BY <1>1, PostType
<1>2. ASSUME NEW h \in Handlers, Work(h) PROVE TypeOK'
  BY <1>2, WorkType
<1>3. ASSUME NEW h \in Handlers, AcquireGate(h) PROVE TypeOK'
  <2>1. (IF job[h].kind = "submit" THEN "planning" ELSE "resuming") \in Steps
    BY DEF Steps, TurnSteps
  <2> QED
    BY <1>3, <2>1, GotoType DEF AcquireGate, TypeOK
<1>4. ASSUME NEW h \in Handlers, TechnicalFault(h) PROVE TypeOK'
  BY <1>4, ThrowType DEF TechnicalFault, TypeOK
<1>5. ASSUME NEW h \in Handlers, Cancel(h) PROVE TypeOK'
  <2>1. "none" \in Replies
    BY DEF Replies
  <2> QED
    BY <1>5, <2>1, LeaveType DEF Cancel, TypeOK
<1>6. ASSUME NEW r \in Releases, LoseCheckpoint(r) PROVE TypeOK'
  BY <1>6 DEF LoseCheckpoint, Unreadable, Wait, Checkpoints, TypeOK
<1>7. CASE Crash
  BY <1>7, NoJobType DEF Crash, Steps, Replies, TypeOK
<1>8. CASE UNCHANGED vars
  BY <1>8 DEF vars, TypeOK
<1> QED
  BY <1>1, <1>2, <1>3, <1>4, <1>5, <1>6, <1>7, <1>8 DEF Next

(* Every row, checkpoint, handler and reply stays of its kind. *)
THEOREM TypeCorrect == Spec => []TypeOK
<1> QED
  BY TypeInit, TypeStep, PTL DEF Spec
=============================================================================
