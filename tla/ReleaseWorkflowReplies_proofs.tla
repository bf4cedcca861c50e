-------------------- MODULE ReleaseWorkflowReplies_proofs -------------------
(***************************************************************************)
(* What clients may rely on, for any releases, handlers, checks, verdicts  *)
(* and number of rounds: a wait they are shown can be resumed, unless a    *)
(* turn is cut short or a file is lost, and what they are told is what     *)
(* happened, whatever the faults.                                          *)
(***************************************************************************)
EXTENDS ReleaseWorkflowEvidence_proofs
-----------------------------------------------------------------------------
(* WInv.                                                                   *)

\* Every turn ends by an answer of its own or in the failure handler, every
\* commit succeeds and every file stays.
NothingIsCutShort == Faults \cap {"crash", "cancel", "commit", "checkpoint"} = {}

\* A handler's work touches the checkpoint of its own release only.
LEMMA CheckpointOfOthers ==
    ASSUME TypeOK, NEW g \in Handlers, Work(g), NEW r \in Releases,
           r # job[g].release
    PROVE  checkpoint'[r] = checkpoint[r]
<1>0. job[g].release \in Releases
  BY RowType
<1>1. CASE PlanRound(g)
  BY <1>0, <1>1 DEF PlanRound, TypeOK
<1>2. CASE ReachWait(g) \/ FinishApproval(g)
  BY <1>0, <1>2 DEF ReachWait, FinishApproval, TypeOK
<1>3. CASE UNCHANGED checkpoint
  BY <1>3
<1>4. PlanRound(g) \/ ReachWait(g) \/ FinishApproval(g) \/ UNCHANGED checkpoint
  BY DEF Work, InsertRelease, CheckRemediation, ResumeRemediation, SaveSubmission,
         SaveRound, OpenRemediation, OpenApproval, SaveCorrelation, ResumeApproval,
         SaveResponse, RestoreForView, MarkFailed, Reread
<1> QED
  BY <1>1, <1>2, <1>3, <1>4

\* A wait stays cared for when its stores do not change and no turn is at it.
LEMMA SavedStays ==
    ASSUME NEW r \in Releases, WaitSaved(r), db'[r] = db[r],
           checkpoint'[r] = checkpoint[r]
    PROVE  WaitCared(r)'
BY DEF WaitSaved, WaitCared

\* A turn that throws goes to the failure handler.
LEMMA FailingCares ==
    ASSUME NEW g \in Handlers, NEW r \in Releases, gate' = g,
           job'[g].release = r, pc'[g] \in {"suspending", "failing"}
    PROVE  WaitCared(r)'
BY DEF WaitCared, SavesWait

\* What stops being a wait needs no care.
LEMMA NoWaitNoCare ==
    ASSUME NEW r \in Releases, db'[r].phase \notin Waiting
    PROVE  WaitCared(r)'
BY DEF WaitCared

\* Inside a turn: the release the turn is about.
LEMMA OwnWaitCared ==
    ASSUME NothingIsCutShort, WInv, NEW g \in Handlers, pc[g] \in TurnSteps,
           Work(g) \/ TechnicalFault(g), NEW r \in Releases, r = job[g].release
    PROVE  WaitCared(r)'
<1>0. /\ IInv /\ TypeOK /\ r \in Releases /\ db[r] = Row(g) /\ Row(g) \in Rows
      /\ RequestsAgree(Row(g), Len(Row(g).rounds))
      /\ StateLeft(pc[g], job[g], Row(g), Len(Row(g).rounds))
      /\ gate = g /\ WaitCared(r)
  BY TurnFacts, RowType DEF WInv, IInv, TurnsExclude
<1>1. "commit" \notin Faults
  BY DEF NothingIsCutShort
<1>2. ASSUME Goto(g, "failing") \/ Goto(g, "suspending"), UNCHANGED <<gate, job>>
      PROVE  WaitCared(r)'
  <2>1. pc'[g] \in {"suspending", "failing"} /\ gate' = g /\ job'[g].release = r
    BY <1>0, <1>2 DEF Goto, TypeOK
  <2> QED
    BY <1>0, <2>1, FailingCares
<1>3. ASSUME pc[g] = "resuming", UNCHANGED <<db, checkpoint>>
      PROVE  WaitCared(r)'
  <2>1. CASE db[r].phase \in Waiting
    <3>1. \A h \in Handlers : ~SavesWait(h, r)
      BY <1>0, <1>3 DEF SavesWait
    <3>2. WaitSaved(r)
      BY <1>0, <2>1, <3>1 DEF WaitCared
    <3> QED
      BY <1>0, <1>3, <3>2, SavedStays
  <2>2. CASE db[r].phase \notin Waiting
    BY <1>0, <1>3, <2>2, NoWaitNoCare
  <2> QED
    BY <2>1, <2>2
<1>4. ASSUME NEW row, NEW step, Commit(g, row, step), UNCHANGED <<gate, job>>,
             row.phase \notin Waiting \/ step = "suspending"
      PROVE  WaitCared(r)'
  <2>1. db' = [db EXCEPT ![r] = row] /\ Goto(g, step)
    BY <1>1, <1>4 DEF Commit
  <2>2. CASE step = "suspending"
    BY <1>2, <1>4, <2>1, <2>2
  <2>3. CASE row.phase \notin Waiting
    <3>1. db'[r] = row
      BY <1>0, <2>1 DEF TypeOK
    <3> QED
      BY <1>0, <2>3, <3>1, NoWaitNoCare
  <2> QED
    BY <1>4, <2>2, <2>3
<1>5. CASE ResumeRemediation(g) \/ ResumeApproval(g) \/ RestoreForView(g)
  <2>1. pc[g] = "resuming" /\ UNCHANGED <<db, checkpoint>>
    BY <1>5 DEF ResumeRemediation, ResumeApproval, RestoreForView, Throw
  <2> QED
    BY <1>3, <2>1
<1>6. CASE SaveSubmission(g)
  <2>1. Answered(g).phase \notin Waiting
    BY <1>0 DEF Answered, Rows, Waiting
  <2> QED
    BY <1>2, <1>4, <1>6, <2>1 DEF SaveSubmission, Throw
<1>7. CASE PlanRound(g)
  <2>1. db[r].phase \notin Waiting
    BY <1>0, <1>7 DEF PlanRound, StateLeft, Waiting
  <2>2. UNCHANGED db
    BY <1>7 DEF PlanRound, Throw
  <2> QED
    BY <1>0, <2>1, <2>2, NoWaitNoCare
<1>8. CASE SaveRound(g)
  <2>1. Row(g).phase \notin Waiting
    BY <1>0, <1>8 DEF SaveRound, StateLeft, Waiting
  <2>2. Evaluated(g).phase \notin Waiting
    BY <1>0, <2>1 DEF Evaluated, Rows
  <2>3. CASE UNCHANGED db
    BY <1>0, <2>1, <2>3, NoWaitNoCare
  <2> QED
    BY <1>4, <1>8, <2>2, <2>3 DEF SaveRound, Throw, Replayed
<1>9. CASE OpenRemediation(g) \/ OpenApproval(g)
  <2>1. UNCHANGED <<gate, job>>
    BY <1>9 DEF OpenRemediation, OpenApproval
  <2>2. ASSUME NEW kind, NEW phase, NEW entry, Ask(g, kind, phase, entry)
        PROVE  WaitCared(r)'
    BY <1>2, <1>4, <2>1, <2>2 DEF Ask, Replayed, Throw
  <2>3. CASE Throw(g)
    BY <1>2, <2>1, <2>3 DEF Throw
  <2> QED
    BY <1>9, <2>2, <2>3 DEF OpenRemediation, OpenApproval
<1>10. CASE ReachWait(g)
  <2>1. /\ gate' = g /\ job'[g].release = r /\ pc'[g] = "correlating"
        /\ checkpoint'[r] = Row(g).active /\ db' = db
    BY <1>0, <1>10 DEF ReachWait, Goto, TypeOK
  <2>2. SavesWait(g, r)'
    BY <1>0, <2>1 DEF SavesWait
  <2> QED
    BY <2>2 DEF WaitCared
<1>11. CASE SaveCorrelation(g)
  <2>1. pc[g] = "correlating" /\ Row(g).phase \in Waiting
    BY <1>0, <1>11 DEF SaveCorrelation, StateLeft
  <2>2. Row(g).phase \notin Terminal
    BY <2>1 DEF Waiting, Terminal
  <2>3. /\ db' = [db EXCEPT ![r].correlation = Row(g).active]
        /\ UNCHANGED checkpoint
    BY <1>1, <1>11, <2>2 DEF SaveCorrelation
  <2>4. checkpoint[r] = db[r].active
    BY <1>0, <2>1 DEF WaitCared, WaitSaved, SavesWait
  <2>5. db'[r] = [Row(g) EXCEPT !.correlation = Row(g).active]
    BY <1>0, <2>3 DEF TypeOK
  <2>6. db'[r].active = Row(g).active /\ db'[r].correlation = Row(g).active
    BY <1>0, <2>5 DEF Rows
  <2>7. WaitSaved(r)'
    BY <1>0, <2>3, <2>4, <2>6 DEF WaitSaved
  <2> QED
    BY <2>7 DEF WaitCared
<1>12. CASE SaveResponse(g)
  <2>1. Decided(g).phase \notin Waiting
    BY <1>0 DEF Decided, Rows, Waiting
  <2> QED
    BY <1>2, <1>4, <1>12, <2>1 DEF SaveResponse, Throw
<1>13. CASE FinishApproval(g)
  <2>1. db[r].phase \notin Waiting /\ db' = db
    BY <1>0, <1>13 DEF FinishApproval, StateLeft, Waiting, Terminal
  <2> QED
    BY <1>0, <2>1, NoWaitNoCare
<1>14. CASE MarkFailed(g)
  <2>1. CASE MayFail(g)
    <3>1. db' = [db EXCEPT ![r] = FailedRow(g)]
      BY <1>1, <1>14, <2>1 DEF MarkFailed
    <3>2. FailedRow(g).phase = "Failed" /\ db'[r] = FailedRow(g)
      BY <1>0, <3>1, TurnFacts, FailedAgrees DEF TypeOK
    <3>3. db'[r].phase \notin Waiting
      BY <3>2 DEF Waiting
    <3> QED
      BY <1>0, <3>3, NoWaitNoCare
  <2>2. CASE ~MayFail(g)
    <3>1. db' = db
      BY <1>14, <2>2 DEF MarkFailed
    <3>2. db[r].phase \notin Waiting
      BY <1>0, <2>2 DEF MayFail, Loaded, ClearTracker, Waiting, Terminal
    <3> QED
      BY <1>0, <3>1, <3>2, NoWaitNoCare
  <2> QED
    BY <2>1, <2>2
<1>15. CASE TechnicalFault(g)
  BY <1>2, <1>15 DEF TechnicalFault, Throw
<1>16. ~InsertRelease(g) /\ ~CheckRemediation(g) /\ ~Reread(g)
  BY DEF InsertRelease, CheckRemediation, Reread, TurnSteps
<1> QED
  BY <1>5, <1>6, <1>7, <1>8, <1>9, <1>10, <1>11, <1>12, <1>13, <1>14, <1>15, <1>16 DEF Work

\* A turn leaves the waits of other releases alone.
LEMMA OtherWaitsCared ==
    ASSUME WInv, NEW g \in Handlers, pc[g] \in TurnSteps,
           Work(g) \/ TechnicalFault(g), NEW r \in Releases, r # job[g].release
    PROVE  WaitCared(r)'
<1>0. IInv /\ TypeOK /\ gate = g /\ WaitCared(r)
  BY DEF WInv, IInv, TurnsExclude
<1>1. db'[r] = db[r] /\ checkpoint'[r] = checkpoint[r]
  <2>1. CASE Work(g)
    BY <1>0, <2>1, WorkWrites, CheckpointOfOthers
  <2>2. CASE TechnicalFault(g)
    BY <2>2 DEF TechnicalFault, Throw
  <2> QED
    BY <2>1, <2>2
<1>2. CASE db[r].phase \in Waiting
  <2>1. WaitSaved(r)
    BY <1>0, <1>2 DEF WaitCared, SavesWait
  <2> QED
    BY <1>1, <2>1, SavedStays
<1>3. CASE db[r].phase \notin Waiting
  BY <1>1, <1>3, NoWaitNoCare
<1> QED
  BY <1>2, <1>3

\* Nor do steps outside a turn touch a wait, or the turn that is at it.
LEMMA WaitsCaredOutside ==
    ASSUME WInv, NEW g \in Handlers, pc[g] \notin TurnSteps,
           Post(g) \/ Work(g) \/ AcquireGate(g), NEW r \in Releases
    PROVE  WaitCared(r)'
<1>0. IInv /\ TypeOK /\ gate # g /\ WaitCared(r)
  BY DEF WInv, IInv, TurnsExclude
<1>1. CASE InsertRelease(g) /\ db'[r] # db[r]
  <2>1. Work(g)
    BY <1>1 DEF Work
  <2>2. db'[r] = Inserted(g) /\ Row(g) \in Rows
    BY <1>0, <1>1, <2>1, WorkWrites, RowType DEF Writes, InsertRelease, TurnSteps
  <2>3. db'[r].phase \notin Waiting
    BY <2>2 DEF Inserted, Rows, Waiting
  <2> QED
    BY <2>3, NoWaitNoCare
<1>2. CASE UNCHANGED checkpoint /\ db'[r] = db[r]
           /\ (gate' = gate \/ gate = Nobody)
  <2>1. ASSUME NEW h \in Handlers, SavesWait(h, r)
        PROVE  SavesWait(h, r)'
    <3>1. h # g /\ gate = h /\ gate # Nobody
      BY <1>0, <2>1, ConstantsAssumption DEF SavesWait
    <3>2. pc'[h] = pc[h] /\ job'[h] = job[h]
      BY <1>0, <3>1, OthersStay
    <3> QED
      BY <1>2, <2>1, <3>1, <3>2 DEF SavesWait
  <2> QED
    BY <1>0, <1>2, <2>1 DEF WaitCared, WaitSaved
<1>3. UNCHANGED checkpoint /\ (gate' = gate \/ gate = Nobody)
      /\ (UNCHANGED db \/ InsertRelease(g))
  <2>1. \A answer : Answer(g, answer) => UNCHANGED <<db, checkpoint, gate>>
    BY DEF Answer
  <2>2. \A step, request : Begin(g, step, request) => UNCHANGED <<db, checkpoint, gate>>
    BY DEF Begin
  <2>3. \A answer : Leave(g, answer) => gate' = gate
    BY <1>0 DEF Leave
  <2>4. CASE Post(g)
    BY <2>1, <2>2, <2>4 DEF Post, PostNew, PostRemediation, PostDecision, ViewDecision
  <2>5. CASE AcquireGate(g)
    BY <2>5 DEF AcquireGate
  <2>6. CASE InsertRelease(g) \/ CheckRemediation(g) \/ Reread(g)
    BY <2>3, <2>6 DEF InsertRelease, CheckRemediation, Reread
  <2>7. ASSUME Work(g)
        PROVE  InsertRelease(g) \/ CheckRemediation(g) \/ Reread(g)
    BY <2>7 DEF Work, ResumeRemediation, SaveSubmission, PlanRound, SaveRound,
                OpenRemediation, OpenApproval, ReachWait, SaveCorrelation,
                ResumeApproval, SaveResponse, FinishApproval, RestoreForView,
                MarkFailed, TurnSteps
  <2> QED
    BY <2>4, <2>5, <2>6, <2>7
<1> QED
  BY <1>1, <1>2, <1>3

LEMMA WaitsStep ==
    ASSUME NothingIsCutShort, WInv, [Next]_vars
    PROVE  WInv'
<1>1. IInv'
  BY InvariantStep DEF WInv
<1>2. ASSUME NEW r \in Releases PROVE WaitCared(r)'
  <2>1. ASSUME NEW g \in Handlers,
               Post(g) \/ Work(g) \/ AcquireGate(g) \/ TechnicalFault(g)
        PROVE  WaitCared(r)'
    <3>1. CASE pc[g] \notin TurnSteps
      BY <2>1, <3>1, WaitsCaredOutside DEF TechnicalFault
    <3>2. CASE pc[g] \in TurnSteps
      <4>1. ~Post(g) /\ ~AcquireGate(g)
        BY <3>2 DEF Post, PostNew, PostRemediation, PostDecision, ViewDecision,
                    AcquireGate, TurnSteps
      <4>2. CASE r = job[g].release
        BY <2>1, <3>2, <4>1, <4>2, OwnWaitCared
      <4>3. CASE r # job[g].release
        BY <2>1, <3>2, <4>1, <4>3, OtherWaitsCared
      <4> QED
        BY <4>2, <4>3
    <3> QED
      BY <3>1, <3>2
  <2>2. CASE UNCHANGED vars
    BY <2>2 DEF vars, WInv, WaitCared, WaitSaved, SavesWait
  <2>3. /\ ~Crash /\ \A q \in Releases : ~LoseCheckpoint(q)
        /\ \A g \in Handlers : ~Cancel(g)
    BY DEF NothingIsCutShort, Crash, LoseCheckpoint, Cancel
  <2> QED
    BY <2>1, <2>2, <2>3 DEF Next
<1> QED
  BY <1>1, <1>2 DEF WInv

LEMMA WaitsInit == Init => WInv
<1>1. NoRelease.phase \notin Waiting
  BY DEF NoRelease, Waiting
<1> QED
  BY <1>1, InvariantInit DEF Init, WInv, WaitCared

(* A wait that clients see between turns can be resumed, as long as no     *)
(* turn is cut short and no checkpoint is lost.                            *)
THEOREM WaitIsResumableCorrect ==
    ASSUME NothingIsCutShort
    PROVE  Spec => []WaitIsResumable
<1>1. ASSUME WInv PROVE WaitIsResumable
  <2> SUFFICES ASSUME gate = Nobody, NEW r \in Releases, db[r].phase \in Waiting
               PROVE  Resolve(db[r]) # NoWait /\ checkpoint[r] = Resolve(db[r])
    BY DEF WaitIsResumable
  <2> DEFINE row == db[r]
             n == Len(row.rounds)
  <2>1. WaitSaved(r)
    BY <1>1, ConstantsAssumption DEF WInv, WaitCared, SavesWait
  <2>2. RequestsAgree(row, n)
    BY <1>1 DEF WInv, IInv, OneOpenQuestion
  <2>3. row.correlation = row.active /\ checkpoint[r] = row.active
    BY <2>1 DEF WaitSaved
  <2> HIDE DEF row, n
  <2>4. CASE row.phase = "WaitingForRemediation"
    <3>1. row.active = Wait("Remediation", n) /\ Unanswered(row) = {row.active}
      BY <2>2, <2>4 DEF RequestsAgree
    <3>2. Resolve(row) = row.active /\ row.active # NoWait
      BY <2>3, <2>4, <3>1 DEF Resolve, Wait, NoWait
    <3> QED
      BY <2>3, <3>2 DEF row
  <2>5. CASE row.phase = "WaitingForApproval"
    <3>1. row.active = Wait("Approval", n) /\ Approvals(row) = {row.active}
      BY <2>2, <2>5 DEF RequestsAgree
    <3>2. Resolve(row) = row.active /\ row.active # NoWait
      BY <2>3, <2>5, <3>1 DEF Resolve, Wait, NoWait
    <3> QED
      BY <2>3, <3>2 DEF row
  <2> QED
    BY <2>4, <2>5 DEF Waiting, row
<1>2. ASSUME WInv, [Next]_vars PROVE WInv'
  BY <1>2, WaitsStep
<1> QED
  BY <1>1, <1>2, WaitsInit, PTL DEF Spec
-----------------------------------------------------------------------------
(* AInv: the steps of a decision.                                          *)

\* A step of its handler keeps a decision where decisions are.
LEMMA DecisionGoesOn ==
    ASSUME TypeOK, NEW g \in Handlers, DecisionFits(pc[g], job[g]),
           Work(g), IInv
    PROVE  DecisionFits(pc'[g], job'[g])
<1>0. JobFits(pc[g], job[g], Row(g)) /\ job[g] \in Jobs
  BY TurnFacts
<1>1. ASSUME NEW answer, Leave(g, answer) PROVE DecisionFits(pc'[g], job'[g])
  BY <1>1 DEF Leave, Goto, TypeOK, DecisionFits, NoJob
<1>2. ASSUME NEW step, Goto(g, step), UNCHANGED job,
             job[g].kind = "decide" => step \in {"deciding", "finishing",
                                                 "failing", "rereading"},
             step \in {"deciding", "finishing", "rereading"} => job[g].kind = "decide"
      PROVE  DecisionFits(pc'[g], job'[g])
  BY <1>2 DEF Goto, TypeOK, DecisionFits
<1>3. ASSUME job[g].kind # "decide", NEW step, Goto(g, step), UNCHANGED job,
             step \notin {"deciding", "finishing", "rereading"}
      PROVE  DecisionFits(pc'[g], job'[g])
  BY <1>2, <1>3
<1>4. ASSUME job[g].kind # "decide", NEW row, NEW step, Commit(g, row, step),
             UNCHANGED job, step \notin {"deciding", "finishing", "rereading"}
      PROVE  DecisionFits(pc'[g], job'[g])
  BY <1>3, <1>4 DEF Commit
<1>5. pc[g] \in {"inserting", "posting", "answering", "planning", "saving", "asking",
                 "suspending", "correlating"} => job[g].kind # "decide"
  BY DEF DecisionFits
<1>6. CASE InsertRelease(g) \/ CheckRemediation(g)
  BY <1>1, <1>3, <1>5, <1>6 DEF InsertRelease, CheckRemediation
<1>7. CASE ResumeRemediation(g)
  BY <1>3, <1>7 DEF ResumeRemediation, Throw
<1>8. CASE SaveSubmission(g) \/ SaveRound(g)
  BY <1>3, <1>4, <1>5, <1>8 DEF SaveSubmission, SaveRound, Throw, Replayed
<1>9. CASE PlanRound(g)
  <2>1. CASE PlanAccepted(g)
    <3>1. job'[g].kind = job[g].kind /\ pc'[g] = "saving"
      BY <1>0, <1>9, <2>1 DEF PlanRound, Goto, TypeOK, Jobs
    <3> QED
      BY <1>5, <1>9, <3>1 DEF PlanRound, DecisionFits
  <2>2. CASE ~PlanAccepted(g)
    BY <1>3, <1>5, <1>9, <2>2 DEF PlanRound, Throw
  <2> QED
    BY <2>1, <2>2
<1>10. CASE OpenRemediation(g) \/ OpenApproval(g)
  BY <1>3, <1>4, <1>5, <1>10 DEF OpenRemediation, OpenApproval, Ask, Throw, Replayed
<1>11. CASE ReachWait(g) \/ SaveCorrelation(g)
  BY <1>1, <1>3, <1>5, <1>11 DEF ReachWait, SaveCorrelation, Throw
<1>12. CASE ResumeApproval(g)
  BY <1>1, <1>2, <1>12 DEF ResumeApproval
<1>13. CASE SaveResponse(g)
  <2>1. job[g].kind = "decide"
    BY <1>13 DEF SaveResponse, DecisionFits
  <2> QED
    BY <1>2, <1>13, <2>1 DEF SaveResponse, Commit, Throw
<1>14. CASE FinishApproval(g) \/ Reread(g)
  BY <1>1, <1>14 DEF FinishApproval, Reread
<1>15. CASE RestoreForView(g)
  BY <1>1, <1>3, <1>15 DEF RestoreForView
<1>16. CASE MarkFailed(g)
  BY <1>1, <1>2, <1>16 DEF MarkFailed
<1> QED
  BY <1>6, <1>7, <1>8, <1>9, <1>10, <1>11, <1>12, <1>13, <1>14, <1>15, <1>16 DEF Work

LEMMA PostDecisionFits ==
    ASSUME TypeOK, NEW g \in Handlers, DecisionFits(pc[g], job[g]), Post(g)
    PROVE  DecisionFits(pc'[g], job'[g])
<1>1. \A answer : Answer(g, answer) => DecisionFits(pc'[g], job'[g])
  BY DEF Answer
<1>2. ASSUME NEW step, NEW request, Begin(g, step, request)
      PROVE  pc'[g] = step /\ job'[g] = request
  BY <1>2 DEF Begin, Goto, TypeOK
<1>3. ASSUME NEW r \in Releases, NEW fill \in Fills, PostNew(g, r, fill)
      PROVE  DecisionFits(pc'[g], job'[g])
  <2> DEFINE request == [NoJob EXCEPT !.kind = "submit", !.release = r, !.fill = fill]
  <2>1. request.kind = "submit"
    BY DEF NoJob
  <2> HIDE DEF request
  <2>2. CASE Begin(g, "inserting", request)
    BY <1>2, <2>1, <2>2 DEF DecisionFits
  <2> QED
    BY <1>1, <1>3, <2>2 DEF PostNew, request
<1>4. ASSUME NEW r \in Releases, NEW round \in 1 .. MaxRounds, NEW fill \in Fills,
             NEW rerun \in SUBSET Checks, PostRemediation(g, r, round, fill, rerun)
      PROVE  DecisionFits(pc'[g], job'[g])
  <2> DEFINE base == [c \in Checks |-> Len(db[r].evidence[c])]
             request == [NoJob EXCEPT !.kind = "remediate",
                                      !.release = r,
                                      !.round = round,
                                      !.fill = fill,
                                      !.base = base,
                                      !.rerun = rerun]
  <2>1. request.kind = "remediate"
    BY DEF NoJob
  <2> HIDE DEF request
  <2>2. CASE Begin(g, "posting", request)
    BY <1>2, <2>1, <2>2 DEF DecisionFits
  <2> QED
    BY <1>1, <1>4, <2>2 DEF PostRemediation, request
<1>5. ASSUME NEW r \in Releases, NEW id \in ResponseIds, NEW decision \in Decisions,
             PostDecision(g, r, id, decision)
      PROVE  DecisionFits(pc'[g], job'[g])
  <2> DEFINE response == [id |-> id, decision |-> decision, round |-> 0]
             request == [NoJob EXCEPT !.kind = "decide", !.release = r,
                                      !.response = response]
  <2>1. request.response.decision \in Decisions
    BY DEF NoJob
  <2> HIDE DEF request
  <2>2. CASE Begin(g, "queued", request)
    BY <1>2, <2>1, <2>2 DEF DecisionFits
  <2> QED
    BY <1>1, <1>5, <2>2 DEF PostDecision, request
<1>6. ASSUME NEW r \in Releases, ViewDecision(g, r)
      PROVE  DecisionFits(pc'[g], job'[g])
  <2> DEFINE request == [NoJob EXCEPT !.kind = "view", !.release = r]
  <2>1. request.kind = "view"
    BY DEF NoJob
  <2> HIDE DEF request
  <2>2. CASE Begin(g, "queued", request)
    BY <1>2, <2>1, <2>2 DEF DecisionFits
  <2> QED
    BY <1>1, <1>6, <2>2 DEF ViewDecision, request
<1> QED
  BY <1>3, <1>4, <1>5, <1>6 DEF Post

LEMMA DecisionsStep ==
    ASSUME IInv, NEW h \in Handlers, DecisionFits(pc[h], job[h]), [Next]_vars
    PROVE  DecisionFits(pc'[h], job'[h])
<1>0. TypeOK
  BY DEF IInv
<1>1. ASSUME NEW g \in Handlers,
             Post(g) \/ Work(g) \/ AcquireGate(g) \/ TechnicalFault(g) \/ Cancel(g)
      PROVE  DecisionFits(pc'[h], job'[h])
  <2>1. CASE g # h
    BY <1>0, <1>1, <2>1, OthersStay
  <2>2. CASE g = h /\ (Post(g) \/ Work(g))
    BY <1>0, <2>2, PostDecisionFits, DecisionGoesOn
  <2>3. CASE g = h /\ AcquireGate(g)
    BY <1>0, <2>3 DEF AcquireGate, Goto, DecisionFits, TypeOK
  <2>4. CASE g = h /\ TechnicalFault(g)
    BY <1>0, <2>4 DEF TechnicalFault, Throw, Goto, DecisionFits, TypeOK
  <2>5. CASE g = h /\ Cancel(g)
    BY <1>0, <2>5 DEF Cancel, Leave, Goto, DecisionFits, NoJob, TypeOK
  <2> QED
    BY <1>1, <2>1, <2>2, <2>3, <2>4, <2>5
<1>2. CASE Crash
  BY <1>2 DEF Crash, DecisionFits, NoJob
<1>3. CASE UNCHANGED vars \/ \E r \in Releases : LoseCheckpoint(r)
  BY <1>3 DEF LoseCheckpoint, vars
<1> QED
  BY <1>1, <1>2, <1>3 DEF Next
-----------------------------------------------------------------------------
(* AInv: the steps of a form.                                              *)

FormSteps == {"planning", "saving", "asking", "suspending", "correlating"}

\* What FormApplied says of a row rests on its rounds, answers and evidence.
LEMMA FormAppliedFrame ==
    ASSUME NEW step, NEW task, NEW row, NEW after,
           FormApplied(step, task, row),
           after.rounds = row.rounds, after.submissions = row.submissions,
           after.evidence = row.evidence,
           NEW next,
           \/ next = step
           \/ step \in {"asking", "suspending"} /\ next \in {"suspending", "correlating"}
           \/ next \notin FormSteps
    PROVE  FormApplied(next, task, after)
BY DEF FormApplied, FormSteps

\* Nobody else writes to the release while the turn of a form is at it.
LEMMA FormUndisturbed ==
    ASSUME IInv, NEW h \in Handlers, pc[h] \in FormSteps,
           NEW g \in Handlers, g # h, Work(g)
    PROVE  db'[job[h].release] = db[job[h].release]
<1> SUFFICES ASSUME db'[job[h].release] # db[job[h].release]
             PROVE  FALSE
  OBVIOUS
<1>0. job[h].release \in Releases
  BY RowType DEF IInv
<1>1. /\ job[h].release = job[g].release
      /\ Writes(g, db'[job[h].release])
  BY <1>0, WorkWrites
<1>2. pc[h] \in TurnSteps
  BY DEF FormSteps, TurnSteps
<1>3. gate = h /\ pc[g] \notin TurnSteps
  BY <1>2 DEF IInv, TurnsExclude
<1>4. pc[g] = "inserting" /\ Row(g).phase = "None"
  BY <1>1, <1>3 DEF Writes, TurnSteps
<1>5. Row(h).phase # "None"
  BY TurnFacts DEF FormSteps, StateLeft, Waiting
<1> QED
  BY <1>1, <1>4, <1>5 DEF Row

\* The form's own steps, from the commit of its records on.
LEMMA FormGoesOn ==
    ASSUME FormsInv, NEW g \in Handlers, Work(g),
           FormApplied(pc[g], job[g], Row(g)),
           pc'[g] \in FormSteps, job'[g].kind = "remediate"
    PROVE  FormApplied(pc'[g], job'[g], db'[job'[g].release])
<1> DEFINE r == job[g].release
           n == Len(Row(g).rounds)
<1>0. /\ IInv /\ TypeOK /\ r \in Releases /\ db[r] = Row(g) /\ Row(g) \in Rows
      /\ job[g] \in Jobs /\ n \in Nat /\ RequestsAgree(Row(g), n)
      /\ StateLeft(pc[g], job[g], Row(g), n)
  BY TurnFacts, RowType DEF FormsInv, IInv
<1>1. \A answer : ~Leave(g, answer)
  BY <1>0 DEF Leave, Goto, TypeOK, FormSteps
<1>2. ~Goto(g, "failing")
  BY <1>0 DEF Goto, TypeOK, FormSteps
<1>3. \A row, step :
          Commit(g, row, step) => Goto(g, step) /\ db' = [db EXCEPT ![r] = row]
  BY <1>2 DEF Commit
<1>4. CASE SaveSubmission(g)
  <2>1. /\ Commit(g, Answered(g), "planning") /\ job' = job /\ ReplacementsFit(g)
        /\ pc[g] = "answering"
    BY <1>2, <1>4 DEF SaveSubmission, Throw
  <2>2. pc'[g] = "planning" /\ db'[r] = Answered(g)
    BY <1>0, <1>3, <2>1 DEF Goto, TypeOK
  <2>3. Answered(g).rounds = Row(g).rounds /\ job[g].round = n
    BY <1>0, <2>1, AnsweredAgrees DEF StateLeft
  <2>4. /\ Answered(g).submissions = Row(g).submissions \cup {job[g].round}
        /\ Answered(g).evidence = [c \in Checks |->
               IF job[g].fill[c] = NoEvidence
               THEN Row(g).evidence[c] ELSE Append(Row(g).evidence[c], job[g].fill[c])]
    BY <1>0 DEF Answered, Rows
  <2>5. ASSUME NEW c \in Checks, job[g].fill[c] # NoEvidence
        PROVE  /\ Len(Answered(g).evidence[c]) = job[g].base[c] + 1
               /\ Answered(g).evidence[c][job[g].base[c] + 1] = job[g].fill[c]
    <3>1. /\ Answered(g).evidence[c] = Append(Row(g).evidence[c], job[g].fill[c])
          /\ job[g].base[c] = Len(Row(g).evidence[c])
          /\ Row(g).evidence[c] \in Seq(Verdicts)
          /\ job[g].fill[c] \in Verdicts
      BY <1>0, <2>1, <2>4, <2>5 DEF ReplacementsFit, Rows, Jobs
    <3> HIDE DEF r, n
    <3> QED
      BY <3>1
  <2> QED
    BY <2>1, <2>2, <2>3, <2>4, <2>5 DEF FormApplied
<1>5. CASE PlanRound(g)
  <2>1. PlanAccepted(g) /\ pc[g] = "planning"
    BY <1>2, <1>5 DEF PlanRound, Throw
  <2>2. PICK results : job' = [job EXCEPT ![g].results = results]
    BY <1>5, <2>1 DEF PlanRound
  <2>3. /\ job'[g].release = r /\ job'[g].kind = job[g].kind
        /\ job'[g].round = job[g].round /\ job'[g].base = job[g].base
        /\ job'[g].fill = job[g].fill
        /\ pc'[g] = "saving" /\ db' = db
    BY <1>0, <1>5, <2>1, <2>2 DEF PlanRound, Goto, TypeOK, Jobs
  <2> QED
    BY <1>0, <2>1, <2>3 DEF FormApplied
<1>6. CASE SaveRound(g)
  <2>1. pc[g] = "saving" /\ job' = job /\ job[g].round = n
    BY <1>0, <1>6 DEF SaveRound, StateLeft
  <2>2. ~(NextRound(g) <= n)
    BY <1>0, <2>1 DEF NextRound
  <2>3. Commit(g, Evaluated(g), "asking") /\ Row(g).phase = "Evaluating"
    BY <1>2, <1>6, <2>2 DEF SaveRound, Throw
  <2>4. pc'[g] = "asking" /\ db'[r] = Evaluated(g)
    BY <1>0, <1>3, <2>3 DEF Goto, TypeOK
  <2>5. Len(Evaluated(g).rounds) = n + 1
    BY <1>0, <2>3, EvaluatedAgrees
  <2>6. /\ Evaluated(g).submissions = Row(g).submissions
        /\ Evaluated(g).evidence = Row(g).evidence
    BY <1>0 DEF Evaluated, Rows
  <2> QED
    BY <2>1, <2>4, <2>5, <2>6 DEF FormApplied
<1>7. CASE OpenRemediation(g) \/ OpenApproval(g)
  <2>1. pc[g] = "asking" /\ job' = job
    BY <1>7 DEF OpenRemediation, OpenApproval
  <2>2. PICK kind, phase, entry : Ask(g, kind, phase, entry)
    BY <1>2, <1>7 DEF OpenRemediation, OpenApproval, Throw
  <2>3. /\ pc'[g] = "suspending"
        /\ db'[r] = db[r] \/ db'[r] = Asked(g, kind, phase, entry)
    BY <1>0, <1>2, <1>3, <2>2 DEF Ask, Replayed, Throw, Goto, TypeOK
  <2>4. /\ db'[r].rounds = Row(g).rounds /\ db'[r].submissions = Row(g).submissions
        /\ db'[r].evidence = Row(g).evidence
    BY <1>0, <2>3 DEF Asked, Rows
  <2> QED
    BY <2>1, <2>3, <2>4, FormAppliedFrame
<1>8. CASE ReachWait(g)
  <2>1. pc[g] = "suspending" /\ job' = job /\ db' = db /\ pc'[g] = "correlating"
    BY <1>0, <1>8 DEF ReachWait, Goto, TypeOK
  <2> QED
    BY <1>0, <2>1, FormAppliedFrame
<1>9. \A step : Goto(g, step) => pc'[g] = step
  BY <1>0 DEF Goto, TypeOK
<1>10. ~InsertRelease(g) /\ ~CheckRemediation(g) /\ ~ResumeRemediation(g)
  BY <1>1, <1>2, <1>9 DEF InsertRelease, CheckRemediation, ResumeRemediation, Throw,
                          FormSteps
<1>11. ~SaveCorrelation(g) /\ ~ResumeApproval(g) /\ ~RestoreForView(g)
  BY <1>1, <1>2, <1>9 DEF SaveCorrelation, ResumeApproval, RestoreForView, Throw,
                          FormSteps
<1>12. ~SaveResponse(g)
  BY <1>2, <1>3, <1>9 DEF SaveResponse, Throw, FormSteps
<1>13. ~FinishApproval(g) /\ ~MarkFailed(g) /\ ~Reread(g)
  BY <1>1, <1>9 DEF FinishApproval, MarkFailed, Reread, FormSteps
<1> QED
  BY <1>4, <1>5, <1>6, <1>7, <1>8, <1>10, <1>11, <1>12, <1>13 DEF Work

LEMMA FormAppliedStep ==
    ASSUME FormsInv, NEW h \in Handlers, FormApplied(pc[h], job[h], Row(h)),
           [Next]_vars
    PROVE  FormApplied(pc'[h], job'[h], db'[job'[h].release])
<1> SUFFICES ASSUME pc'[h] \in FormSteps, job'[h].kind = "remediate"
             PROVE  FormApplied(pc'[h], job'[h], db'[job'[h].release])
  BY DEF FormApplied, FormSteps
<1>0. /\ IInv /\ TypeOK /\ job[h].release \in Releases
      /\ Row(h) = db[job[h].release]
  BY RowType DEF FormsInv, IInv
<1>1. CASE /\ pc'[h] = pc[h] /\ job'[h] = job[h]
           /\ db'[job[h].release] = db[job[h].release]
  BY <1>0, <1>1
<1>2. ASSUME NEW g \in Handlers,
             Post(g) \/ Work(g) \/ AcquireGate(g) \/ TechnicalFault(g) \/ Cancel(g)
      PROVE  FormApplied(pc'[h], job'[h], db'[job'[h].release])
  <2>1. CASE g # h
    <3>1. pc'[h] = pc[h] /\ job'[h] = job[h]
      BY <1>0, <1>2, <2>1, OthersStay
    <3>2. CASE Work(g)
      BY <1>0, <1>1, <2>1, <3>1, <3>2, FormUndisturbed
    <3>3. CASE ~Work(g)
      <4>1. UNCHANGED db
        BY <1>2, <3>3 DEF Post, PostNew, PostRemediation, PostDecision, ViewDecision,
                          Answer, Begin, AcquireGate, TechnicalFault, Throw, Cancel
      <4> QED
        BY <1>1, <3>1, <4>1
    <3> QED
      BY <3>2, <3>3
  <2>2. CASE g = h /\ Work(g)
    BY <2>2, FormGoesOn
  <2>3. CASE g = h /\ Post(g)
    <3>1. \A answer : Answer(g, answer) => pc'[g] = "idle"
      BY <2>3 DEF Answer, Post, PostNew, PostRemediation, PostDecision, ViewDecision
    <3>2. \A step, request : Begin(g, step, request) => pc'[g] = step
      BY <1>0 DEF Begin, Goto, TypeOK
    <3>3. pc'[g] \in {"idle", "inserting", "posting", "queued"}
      BY <2>3, <3>1, <3>2 DEF Post, PostNew, PostRemediation, PostDecision, ViewDecision
    <3> QED
      BY <2>3, <3>3 DEF FormSteps
  <2>4. CASE g = h /\ AcquireGate(g)
    <3>1. pc'[g] = IF job[g].kind = "submit" THEN "planning" ELSE "resuming"
      BY <1>0, <2>4 DEF AcquireGate, Goto, TypeOK
    <3>2. job'[g] = job[g]
      BY <2>4 DEF AcquireGate
    <3> QED
      BY <2>4, <3>1, <3>2 DEF FormSteps
  <2>5. CASE g = h /\ (TechnicalFault(g) \/ Cancel(g))
    BY <1>0, <2>5 DEF TechnicalFault, Throw, Cancel, Leave, Goto, TypeOK, FormSteps
  <2> QED
    BY <1>2, <2>1, <2>2, <2>3, <2>4, <2>5
<1>3. CASE Crash
  BY <1>3 DEF Crash, FormSteps
<1>4. CASE UNCHANGED vars \/ \E r \in Releases : LoseCheckpoint(r)
  BY <1>1, <1>4 DEF LoseCheckpoint, vars
<1> QED
  BY <1>2, <1>3, <1>4 DEF Next

LEMMA AnswersStep == AInv /\ [Next]_vars => AInv'
<1> SUFFICES ASSUME AInv, [Next]_vars PROVE AInv'
  OBVIOUS
<1>1. FormsInv /\ IInv /\ FormsInv'
  BY FormsStep DEF AInv, FormsInv
<1> QED
  BY <1>1, DecisionsStep, FormAppliedStep DEF AInv, Row

LEMMA AnswersInit == Init => AInv
<1> SUFFICES ASSUME Init PROVE AInv
  OBVIOUS
<1>1. FormsInv
  BY FormsInit
<1>2. DecisionFits("idle", NoJob) /\ \A row : FormApplied("idle", NoJob, row)
  BY DEF DecisionFits, FormApplied, NoJob
<1> QED
  BY <1>1, <1>2 DEF Init, AInv

LEMMA AnswersInvariant == Spec => []AInv
<1> QED
  BY AnswersInit, AnswersStep, PTL DEF Spec
-----------------------------------------------------------------------------
(* The replies.                                                            *)

\* Only a handler's own step ends its request, by an answer or none.
LEMMA EndsByItself ==
    ASSUME IInv, [Next]_vars, NEW h \in Handlers,
           job[h].kind # "none", pc'[h] = "idle", reply'[h] # "none"
    PROVE  Work(h) /\ TypeOK
<1>1. TypeOK /\ pc[h] # "idle"
  BY DEF IInv, JobFits
<1>2. ASSUME NEW g \in Handlers,
             Post(g) \/ AcquireGate(g) \/ TechnicalFault(g) \/ Cancel(g) \/ Work(g)
      PROVE  Work(h)
  <2>1. g = h
    BY <1>1, <1>2, OthersStay
  <2>2. ~Post(h)
    BY <1>1 DEF Post, PostNew, PostRemediation, PostDecision, ViewDecision
  <2>3. ~AcquireGate(h) /\ ~TechnicalFault(h)
    BY <1>1 DEF AcquireGate, TechnicalFault, Throw, Goto, TypeOK
  <2>4. ~Cancel(h)
    BY <1>1 DEF Cancel, Leave, TypeOK
  <2> QED
    BY <1>2, <2>1, <2>2, <2>3, <2>4
<1>3. ~Crash
  BY DEF Crash
<1>4. ~UNCHANGED vars /\ \A r \in Releases : ~LoseCheckpoint(r)
  BY <1>1 DEF LoseCheckpoint, vars
<1> QED
  BY <1>1, <1>2, <1>3, <1>4 DEF Next

\* A request leaves with the answer it is given.
LEMMA LeavesWith ==
    ASSUME TypeOK, NEW h \in Handlers, NEW answer, Leave(h, answer)
    PROVE  reply'[h] = answer
BY DEF Leave, TypeOK

\* How a decision can end.
LEMMA DecisionEnds ==
    ASSUME AInv, NEW h \in Handlers, job[h].kind = "decide", Work(h), pc'[h] = "idle"
    PROVE  \/ ResumeApproval(h) /\ SameDecision(Row(h).response, job[h].response)
                                /\ Leave(h, "ok")
           \/ FinishApproval(h)
           \/ MarkFailed(h) /\ Leave(h, "error")
           \/ Reread(h)
<1>1. TypeOK /\ DecisionFits(pc[h], job[h])
  BY DEF AInv, FormsInv, IInv
<1>2. \A step : Goto(h, step) => step = "idle"
  BY <1>1 DEF Goto, TypeOK
<1>3. \A row, step : Commit(h, row, step) => step = "idle" \/ Goto(h, "failing")
  BY <1>2 DEF Commit
<1>4. ~InsertRelease(h) /\ ~CheckRemediation(h) /\ ~SaveSubmission(h) /\ ~PlanRound(h)
      /\ ~SaveRound(h) /\ ~OpenRemediation(h) /\ ~OpenApproval(h) /\ ~ReachWait(h)
      /\ ~SaveCorrelation(h)
  BY <1>1 DEF DecisionFits, InsertRelease, CheckRemediation, SaveSubmission, PlanRound,
              SaveRound, OpenRemediation, OpenApproval, ReachWait, SaveCorrelation
<1>5. ~ResumeRemediation(h) /\ ~RestoreForView(h)
  BY DEF ResumeRemediation, RestoreForView
<1>6. ~SaveResponse(h)
  BY <1>2, <1>3 DEF SaveResponse, Throw
<1>7. CASE ResumeApproval(h)
  BY <1>2, <1>7 DEF ResumeApproval
<1>8. CASE MarkFailed(h)
  BY <1>2, <1>8 DEF MarkFailed
<1> QED
  BY <1>4, <1>5, <1>6, <1>7, <1>8 DEF Work

(* "Decision recorded" only if the decision on record is the one sent, "No *)
(* decision was applied" and "could not continue safely" only if not.      *)
THEOREM DecisionReplyIsTrueCorrect == Spec => DecisionReplyIsTrue
<1>1. ASSUME AInv, [Next]_vars
      PROVE  [\A h \in Handlers :
                 job[h].kind = "decide" /\ pc'[h] = "idle" =>
                     LET sent == job[h].response
                         recorded == db'[job[h].release].response
                         taken == sent.id = recorded.id
                                  /\ sent.decision = recorded.decision
                     IN /\ reply'[h] = "ok" => taken
                        /\ reply'[h] \in {"no", "unsafe"} => ~taken]_vars
  <2> SUFFICES ASSUME NEW h \in Handlers, job[h].kind = "decide", pc'[h] = "idle"
               PROVE  LET recorded == db'[job[h].release].response
                          taken == SameDecision(job[h].response, recorded)
                      IN /\ reply'[h] = "ok" => taken
                         /\ reply'[h] \in {"no", "unsafe"} => ~taken
    BY DEF SameDecision
  <2>1. CASE reply'[h] = "none"
    BY <2>1
  <2>2. CASE reply'[h] # "none"
    <3>1. IInv /\ TypeOK /\ Work(h) /\ DecisionFits(pc[h], job[h])
      BY <1>1, <2>2, EndsByItself DEF AInv, FormsInv
    <3>2. CASE /\ ResumeApproval(h)
               /\ SameDecision(Row(h).response, job[h].response)
               /\ Leave(h, "ok")
      <4>1. reply'[h] = "ok" /\ db' = db
        BY <3>1, <3>2, LeavesWith DEF ResumeApproval
      <4> QED
        BY <3>2, <4>1 DEF SameDecision, Row
    <3>3. CASE FinishApproval(h)
      <4>1. reply'[h] = "ok" /\ db' = db
        BY <3>1, <3>3, LeavesWith DEF FinishApproval
      <4>2. SameDecision(Row(h).response, job[h].response)
        BY <3>1, <3>3, TurnFacts DEF FinishApproval, StateLeft
      <4> QED
        BY <4>1, <4>2 DEF SameDecision, Row
    <3>4. CASE MarkFailed(h) /\ Leave(h, "error")
      BY <3>1, <3>4, LeavesWith
    <3>5. CASE Reread(h)
      <4>1. db' = db
        BY <3>5 DEF Reread
      <4>2. CASE Leave(h, "error")
        BY <3>1, <4>2, LeavesWith
      <4>3. CASE Leave(h, IF Row(h).response = NoResponse THEN "unsafe"
                          ELSE IF SameDecision(Row(h).response, job[h].response)
                          THEN "ok" ELSE "no")
        <5>1. reply'[h] = IF Row(h).response = NoResponse THEN "unsafe"
                          ELSE IF SameDecision(Row(h).response, job[h].response)
                          THEN "ok" ELSE "no"
          BY <3>1, <4>3, LeavesWith
        <5>2. Row(h).response = NoResponse =>
                  ~SameDecision(Row(h).response, job[h].response)
          BY <3>1 DEF DecisionFits, NoResponse, SameDecision, Decisions
        <5> QED
          BY <4>1, <5>1, <5>2 DEF SameDecision, Row
      <4> QED
        BY <3>5, <4>2, <4>3 DEF Reread
    <3> QED
      BY <1>1, <3>1, <3>2, <3>3, <3>4, <3>5, DecisionEnds
  <2> QED
    BY <2>1, <2>2
<1> QED
  BY <1>1, AnswersInvariant, PTL DEF Spec, DecisionReplyIsTrue

\* How an answer to a remediation request can end.
LEMMA FormEnds ==
    ASSUME AInv, NEW h \in Handlers, job[h].kind = "remediate", Work(h), pc'[h] = "idle"
    PROVE  \/ CheckRemediation(h) /\ Leave(h, "no")
           \/ SaveCorrelation(h) /\ Leave(h, "ok")
           \/ Leave(h, "error")
<1>1. TypeOK /\ DecisionFits(pc[h], job[h]) /\ JobFits(pc[h], job[h], Row(h))
  BY DEF AInv, FormsInv, IInv
<1>2. \A step : Goto(h, step) => step = "idle"
  BY <1>1 DEF Goto, TypeOK
<1>3. \A row, step : Commit(h, row, step) => step = "idle" \/ Goto(h, "failing")
  BY <1>2 DEF Commit
<1>4. ~InsertRelease(h)
  BY <1>1 DEF InsertRelease, JobFits
<1>5. ~SaveResponse(h) /\ ~FinishApproval(h) /\ ~Reread(h)
  BY <1>1 DEF DecisionFits, SaveResponse, FinishApproval, Reread
<1>6. ~ResumeApproval(h) /\ ~RestoreForView(h)
  BY DEF ResumeApproval, RestoreForView
<1>7. ~ResumeRemediation(h) /\ ~PlanRound(h) /\ ~ReachWait(h)
  BY <1>2 DEF ResumeRemediation, PlanRound, ReachWait, Throw
<1>8. ~SaveSubmission(h) /\ ~SaveRound(h)
  BY <1>2, <1>3 DEF SaveSubmission, SaveRound, Throw, Replayed
<1>9. ~OpenRemediation(h) /\ ~OpenApproval(h)
  BY <1>2, <1>3 DEF OpenRemediation, OpenApproval, Ask, Throw, Replayed
<1>10. CASE CheckRemediation(h)
  BY <1>2, <1>10 DEF CheckRemediation
<1>11. CASE SaveCorrelation(h)
  BY <1>2, <1>11 DEF SaveCorrelation, Throw
<1>12. CASE MarkFailed(h)
  BY <1>12 DEF MarkFailed
<1> QED
  BY <1>4, <1>5, <1>6, <1>7, <1>8, <1>9, <1>10, <1>11, <1>12 DEF Work

(* "Remediation submitted" means that this form was applied and its round  *)
(* is on record, "No changes were applied" that nothing of it was.         *)
THEOREM RemediationReplyIsTrueCorrect == Spec => RemediationReplyIsTrue
<1>1. ASSUME AInv, [Next]_vars
      PROVE  [\A h \in Handlers :
                 job[h].kind = "remediate" /\ pc'[h] = "idle" =>
                     LET row == db'[job[h].release] IN
                     /\ reply'[h] = "ok" =>
                            /\ job[h].round \in row.submissions
                            /\ Len(row.rounds) = job[h].round + 1
                            /\ \A c \in Checks :
                                   job[h].fill[c] # NoEvidence =>
                                       /\ Len(row.evidence[c]) = job[h].base[c] + 1
                                       /\ row.evidence[c][job[h].base[c] + 1]
                                              = job[h].fill[c]
                     /\ reply'[h] = "no" => row = db[job[h].release]]_vars
  <2> SUFFICES ASSUME NEW h \in Handlers, job[h].kind = "remediate", pc'[h] = "idle"
               PROVE  LET row == db'[job[h].release] IN
                      /\ reply'[h] = "ok" =>
                             FormApplied("correlating", job[h], row)
                      /\ reply'[h] = "no" => row = db[job[h].release]
    BY DEF FormApplied
  <2>1. CASE reply'[h] = "none"
    BY <2>1
  <2>2. CASE reply'[h] # "none"
    <3>1. IInv /\ TypeOK /\ Work(h) /\ FormApplied(pc[h], job[h], Row(h))
      BY <1>1, <2>2, EndsByItself DEF AInv, FormsInv
    <3>2. CASE CheckRemediation(h) /\ Leave(h, "no")
      BY <3>1, <3>2, LeavesWith DEF CheckRemediation
    <3>3. CASE Leave(h, "error")
      BY <3>1, <3>3, LeavesWith
    <3>4. CASE SaveCorrelation(h) /\ Leave(h, "ok")
      <4>1. reply'[h] = "ok" /\ pc[h] = "correlating" /\ Row(h) \in Rows
            /\ job[h].release \in Releases /\ Row(h).phase \in Waiting
        BY <3>1, <3>4, LeavesWith, TurnFacts, RowType DEF SaveCorrelation, StateLeft
      <4>2. ~Goto(h, "failing") /\ Row(h).phase \notin Terminal
        BY <3>1, <4>1 DEF Goto, TypeOK, Waiting, Terminal
      <4>3. db'[job[h].release] = [Row(h) EXCEPT !.correlation = Row(h).active]
        BY <3>1, <3>4, <4>1, <4>2 DEF SaveCorrelation, TypeOK, Row
      <4>4. /\ db'[job[h].release].rounds = Row(h).rounds
            /\ db'[job[h].release].submissions = Row(h).submissions
            /\ db'[job[h].release].evidence = Row(h).evidence
        BY <4>1, <4>3 DEF Rows
      <4> QED
        BY <3>1, <4>1, <4>4, FormAppliedFrame
    <3> QED
      BY <1>1, <3>1, <3>2, <3>3, <3>4, FormEnds
  <2> QED
    BY <2>1, <2>2
<1> QED
  BY <1>1, AnswersInvariant, PTL DEF Spec, RemediationReplyIsTrue
=============================================================================
