-------------------- MODULE ReleaseWorkflowEvidence_proofs ------------------
(***************************************************************************)
(* EInv, FormsInv and TInv are kept by every step of ReleaseWorkflow, for  *)
(* any releases, handlers, checks, verdicts, number of rounds and faults:  *)
(* what is approved or reused rests on the current evidence, an answer     *)
(* that a turn lets through carries versions that fit, and the timeline    *)
(* accounts for every durable row, once each.                              *)
(***************************************************************************)
EXTENDS ReleaseWorkflowSafety_proofs, FiniteSetTheorems
-----------------------------------------------------------------------------
(* What the rows of a release become in one step.                          *)

\* The row InsertRelease writes.
Inserted(h) ==
    [Row(h) EXCEPT !.phase = "Evaluating",
                   !.evidence = FirstRecords(job[h].fill),
                   !.timeline = <<"ReleaseSubmitted">>]

\* A handler's commit, with what its step found before it.
Writes(g, row) ==
    \/ /\ pc[g] = "inserting" /\ Row(g).phase = "None"
       /\ row = Inserted(g)
    \/ /\ pc[g] = "answering" /\ Row(g).phase = "WaitingForRemediation"
       /\ row = Answered(g)
    \/ /\ pc[g] = "saving" /\ Row(g).phase = "Evaluating" /\ pc'[g] # "saving"
       /\ row = Evaluated(g)
    \/ /\ pc[g] = "asking" /\ ~AllPassed(Recorded(g))
       /\ row = Asked(g, "Remediation", "WaitingForRemediation", "RemediationRequested")
    \/ /\ pc[g] = "asking" /\ AllPassed(Recorded(g))
       /\ row = Asked(g, "Approval", "WaitingForApproval", "ApprovalRequested")
    \/ /\ pc[g] = "correlating"
       /\ row = [Row(g) EXCEPT !.correlation = Row(g).active]
    \/ /\ pc[g] = "deciding" /\ Row(g).phase = "WaitingForApproval"
       /\ row = Decided(g)
    \/ /\ pc[g] = "failing"
       /\ row = FailedRow(g)

(* Whatever changes a release is one of these commits. *)
LEMMA WorkWrites ==
    ASSUME IInv, NEW g \in Handlers, Work(g), NEW r \in Releases, db'[r] # db[r]
    PROVE  r = job[g].release /\ Writes(g, db'[r])
<1>0. TypeOK /\ job[g].release \in Releases /\ db[job[g].release] = Row(g)
  BY RowType DEF IInv
<1>1. CASE InsertRelease(g)
  <2>1. Row(g).phase = "None" /\ db' = [db EXCEPT ![job[g].release] = Inserted(g)]
    BY <1>0, <1>1 DEF InsertRelease, Inserted
  <2>2. r = job[g].release /\ db'[r] = Inserted(g)
    BY <1>0, <2>1 DEF TypeOK
  <2> QED
    BY <1>1, <2>1, <2>2 DEF InsertRelease, Writes
<1>2. CASE SaveSubmission(g)
  BY <1>0, <1>2, CommitChanges DEF SaveSubmission, Throw, Writes
<1>3. CASE SaveRound(g)
  <2>1. pc'[g] \in {"asking", "failing"}
    BY <1>0, <1>3 DEF SaveRound, Replayed, Throw, Commit, Goto, TypeOK
  <2> QED
    BY <1>0, <1>3, <2>1, CommitChanges DEF SaveRound, Replayed, Throw, Writes
<1>4. CASE OpenRemediation(g)
  BY <1>0, <1>4, CommitChanges DEF OpenRemediation, Ask, Replayed, Throw, Writes
<1>5. CASE OpenApproval(g)
  BY <1>0, <1>5, CommitChanges DEF OpenApproval, Ask, Replayed, Throw, Writes
<1>6. CASE SaveCorrelation(g)
  <2>1. /\ r = job[g].release
        /\ db'[r] = [Row(g) EXCEPT !.correlation = Row(g).active]
    BY <1>0, <1>6 DEF SaveCorrelation, Throw, TypeOK
  <2> QED
    BY <1>6, <2>1 DEF SaveCorrelation, Writes
<1>7. CASE SaveResponse(g)
  BY <1>0, <1>7, CommitChanges DEF SaveResponse, Throw, Writes
<1>8. CASE MarkFailed(g)
  <2>1. db' = [db EXCEPT ![job[g].release] = FailedRow(g)]
    BY <1>8 DEF MarkFailed
  <2>2. r = job[g].release /\ db'[r] = FailedRow(g)
    BY <1>0, <2>1 DEF TypeOK
  <2> QED
    BY <1>8, <2>2 DEF MarkFailed, Writes
<1>9. \/ InsertRelease(g) \/ SaveSubmission(g) \/ SaveRound(g) \/ OpenRemediation(g)
      \/ OpenApproval(g) \/ SaveCorrelation(g) \/ SaveResponse(g) \/ MarkFailed(g)
      \/ UNCHANGED db
  BY DEF Work, CheckRemediation, ResumeRemediation, PlanRound, ReachWait,
         ResumeApproval, FinishApproval, RestoreForView, Reread, Throw
<1> QED
  BY <1>1, <1>2, <1>3, <1>4, <1>5, <1>6, <1>7, <1>8, <1>9
-----------------------------------------------------------------------------
(* Rows before and after a commit.                                         *)

(* A result that holds goes on holding while histories and rounds only     *)
(* grow.                                                                   *)
LEMMA ResultKept ==
    ASSUME NEW row \in Rows, NEW new \in Rows, NEW c \in Checks, NEW n \in Nat,
           NEW result \in Results(Verdicts),
           ResultHolds(result, row, c, n),
           Len(row.evidence[c]) <= Len(new.evidence[c]),
           \A i \in 1 .. Len(row.evidence[c]) : new.evidence[c][i] = row.evidence[c][i],
           \A i \in 1 .. n - 1 : new.rounds[i] = row.rounds[i]
    PROVE  ResultHolds(result, new, c, n)
<1>1. Len(row.evidence[c]) \in Nat /\ Len(new.evidence[c]) \in Nat
  BY DEF Rows
<1> QED
  BY <1>1 DEF ResultHolds, Results

(* A commit that leaves evidence, rounds and submissions alone. *)
LEMMA RowFrame ==
    ASSUME NEW row, NEW new, RowHolds(row),
           new.evidence = row.evidence, new.rounds = row.rounds,
           new.submissions = row.submissions,
           new.phase \in {"WaitingForApproval"} \cup Terminal =>
               /\ row.rounds # <<>>
               /\ Len(row.rounds) \notin row.submissions
               /\ AllPassed(Latest(row)),
           new.phase \in Terminal => new.response.round = Len(row.rounds)
    PROVE  RowHolds(new)
<1>1. Latest(new) = Latest(row)
  BY DEF Latest
<1>2. \A results : AreCurrent(results, row) => AreCurrent(results, new)
  BY DEF AreCurrent
<1>3. \A result, c, n : ResultHolds(result, row, c, n) => ResultHolds(result, new, c, n)
  BY DEF ResultHolds
<1> QED
  BY <1>1, <1>2, <1>3 DEF RowHolds

\* A release without rounds holds, unless it is decided.
LEMMA RowEmpty ==
    ASSUME NEW row, row.rounds = <<>>, row.phase \in {"None", "Evaluating"}
    PROVE  RowHolds(row)
BY DEF RowHolds, Terminal

LEMMA AnsweredHolds ==
    ASSUME IInv, NEW g \in Handlers, pc[g] = "answering", RowHolds(Row(g)),
           Row(g).phase = "WaitingForRemediation"
    PROVE  RowHolds(Answered(g))
<1> DEFINE row == Row(g)
           new == Answered(g)
           n == Len(Row(g).rounds)
<1>1. /\ row \in Rows /\ new \in Rows /\ job[g] \in Jobs /\ n \in Nat
      /\ RequestsAgree(row, n)
      /\ row.active = Wait("Remediation", job[g].round)
  BY TurnFacts, SubmissionRowType DEF IInv, StateLeft
<1>2. /\ new.phase = "Evaluating" /\ job[g].round = n /\ new.rounds = row.rounds
  BY <1>1, AnsweredAgrees DEF IInv
<1>3. /\ new.submissions = row.submissions \cup {n}
      /\ new.evidence = [c \in Checks |->
             IF job[g].fill[c] = NoEvidence
             THEN row.evidence[c] ELSE Append(row.evidence[c], job[g].fill[c])]
  BY <1>1, <1>2 DEF Answered, Rows
<1>4. ASSUME NEW c \in Checks
      PROVE  /\ Len(row.evidence[c]) <= Len(new.evidence[c])
             /\ \A i \in 1 .. Len(row.evidence[c]) :
                    new.evidence[c][i] = row.evidence[c][i]
  <2>1. row.evidence[c] \in Seq(Verdicts)
    BY <1>1 DEF Rows
  <2>2. CASE job[g].fill[c] = NoEvidence
    BY <1>3, <2>1, <2>2
  <2>3. CASE job[g].fill[c] # NoEvidence
    <3>1. job[g].fill[c] \in Verdicts
      BY <1>1, <2>3 DEF Jobs
    <3>2. new.evidence[c] = Append(row.evidence[c], job[g].fill[c])
      BY <1>3, <2>3
    <3> HIDE DEF row, new
    <3> QED
      BY <2>1, <3>1, <3>2
  <2> QED
    BY <2>2, <2>3
<1>5. ASSUME NEW i \in 1 .. Len(new.rounds), NEW c \in Checks
      PROVE  ResultHolds(new.rounds[i][c], new, c, i)
  <2>1. row.rounds[i][c] \in Results(Verdicts)
    BY <1>1, <1>2 DEF Rows
  <2>2. ResultHolds(row.rounds[i][c], row, c, i)
    BY <1>2 DEF RowHolds
  <2> HIDE DEF row, new
  <2>3. i \in Nat
    BY <1>1, <1>2
  <2> QED
    BY <1>1, <1>2, <1>4, <2>1, <2>2, <2>3, ResultKept
<1>6. Len(new.rounds) \in new.submissions
  BY <1>2, <1>3
<1> HIDE DEF new
<1> QED
  BY <1>2, <1>5, <1>6 DEF RowHolds, Terminal, new

LEMMA EvaluatedHolds ==
    ASSUME IInv, NEW g \in Handlers, pc[g] = "saving", RowHolds(Row(g)),
           RoundHolds(job[g].results, Row(g)),
           Row(g).phase = "Evaluating"
    PROVE  RowHolds(Evaluated(g))
<1> DEFINE row == Row(g)
           new == Evaluated(g)
           n == Len(Row(g).rounds)
<1>1. /\ row \in Rows /\ new \in Rows /\ job[g] \in Jobs /\ n \in Nat
      /\ RequestsAgree(row, n)
  BY TurnFacts, RoundRowType DEF IInv
<1>2. /\ Len(new.rounds) = n + 1 /\ new.phase = "Evaluating"
      /\ new.rounds[n + 1] = job[g].results
  BY <1>1, EvaluatedAgrees DEF IInv
<1>3. /\ new.rounds = Append(row.rounds, job[g].results)
      /\ new.evidence = row.evidence
  BY <1>1 DEF Evaluated, Rows
<1>4. \A i \in 1 .. n : new.rounds[i] = row.rounds[i]
  BY <1>1, <1>3 DEF Rows
<1>5. Latest(new) = job[g].results
  BY <1>2 DEF Latest
<1>6. AreCurrent(Latest(new), new)
  BY <1>3, <1>5 DEF RoundHolds, AreCurrent
<1> HIDE DEF new, n
<1>7. ASSUME NEW i \in 1 .. n + 1, NEW c \in Checks
      PROVE  ResultHolds(new.rounds[i][c], new, c, i)
  <2>0. /\ i \in Nat
        /\ Len(row.evidence[c]) <= Len(new.evidence[c])
        /\ \A j \in 1 .. Len(row.evidence[c]) : new.evidence[c][j] = row.evidence[c][j]
        /\ \A j \in 1 .. i - 1 : new.rounds[j] = row.rounds[j]
    <3>1. Len(row.evidence[c]) \in Nat
      BY <1>1 DEF Rows
    <3>2. i \in Nat /\ \A j \in 1 .. i - 1 : j \in 1 .. n
      BY <1>1
    <3>3. \A j \in 1 .. i - 1 : new.rounds[j] = row.rounds[j]
      BY <1>4, <3>2
    <3> HIDE DEF row
    <3>4. Len(row.evidence[c]) <= Len(new.evidence[c])
      BY <1>3, <3>1
    <3> QED
      BY <1>3, <3>2, <3>3, <3>4
  <2>1. CASE i = n + 1
    <3>1. new.rounds[i][c] = job[g].results[c] /\ job[g].results[c] \in Results(Verdicts)
      BY <1>1, <1>2, <2>1 DEF Jobs
    <3>2. ResultHolds(job[g].results[c], row, c, i)
      BY <2>1 DEF RoundHolds, n
    <3> HIDE DEF row
    <3> QED
      BY <1>1, <2>0, <3>1, <3>2, ResultKept
  <2>2. CASE i # n + 1
    <3>0. i \in 1 .. n
      BY <1>1, <2>2
    <3>1. new.rounds[i][c] = row.rounds[i][c] /\ row.rounds[i][c] \in Results(Verdicts)
      BY <1>1, <1>4, <3>0 DEF Rows, n
    <3>2. ResultHolds(row.rounds[i][c], row, c, i)
      BY <3>0 DEF RowHolds, n
    <3> HIDE DEF row
    <3> QED
      BY <1>1, <2>0, <3>1, <3>2, ResultKept
  <2> QED
    BY <2>1, <2>2
<1> QED
  BY <1>2, <1>6, <1>7 DEF RowHolds, Terminal, new

LEMMA AskedHolds ==
    ASSUME IInv, NEW g \in Handlers, pc[g] = "asking", RowHolds(Row(g)),
           NEW kind, NEW phase, NEW entry,
           \/ phase = "WaitingForRemediation"
           \/ phase = "WaitingForApproval" /\ AllPassed(Recorded(g))
    PROVE  RowHolds(Asked(g, kind, phase, entry))
<1> DEFINE row == Row(g)
           new == Asked(g, kind, phase, entry)
<1>1. /\ row \in Rows /\ job[g] \in Jobs /\ Len(row.rounds) \in Nat
      /\ NextRound(g) = Len(row.rounds) /\ Len(row.rounds) \notin row.submissions
  BY TurnFacts DEF StateLeft, NextRound
<1>2. row.rounds # <<>>
  BY <1>1 DEF NextRound, Jobs
<1>3. phase = "WaitingForApproval" => AllPassed(Latest(row))
  BY <1>1 DEF Recorded, Latest
<1>4. /\ new.phase = phase /\ new.evidence = row.evidence
      /\ new.rounds = row.rounds /\ new.submissions = row.submissions
  BY <1>1 DEF Asked, Rows
<1> HIDE DEF row, new
<1>5. RowHolds(new)
  BY <1>1, <1>2, <1>3, <1>4, RowFrame DEF Terminal, row
<1> QED
  BY <1>5 DEF new

LEMMA DecidedHolds ==
    ASSUME IInv, NEW g \in Handlers, RowHolds(Row(g)),
           Row(g).phase = "WaitingForApproval"
    PROVE  RowHolds(Decided(g))
<1> DEFINE row == Row(g)
           new == Decided(g)
<1>1. /\ row \in Rows /\ job[g] \in Jobs
      /\ row.active = Wait("Approval", Len(row.rounds))
  BY TurnFacts DEF RequestsAgree
<1>2. /\ new.evidence = row.evidence
      /\ new.rounds = row.rounds /\ new.submissions = row.submissions
      /\ new.response.round = Len(row.rounds)
  BY <1>1 DEF Decided, Rows, Jobs, Responses, Wait
<1>3. /\ row.rounds # <<>>
      /\ Len(row.rounds) \notin row.submissions
      /\ AllPassed(Latest(row))
  BY DEF RowHolds
<1> HIDE DEF row, new
<1>4. RowHolds(new)
  BY <1>2, <1>3, RowFrame DEF row
<1> QED
  BY <1>4 DEF new

(* No commit breaks what the rows of a release say of its evidence. *)
LEMMA WritesHold ==
    ASSUME EInv, NEW g \in Handlers, NEW row, Writes(g, row)
    PROVE  RowHolds(row)
<1>1. /\ IInv /\ Row(g) \in Rows /\ RowHolds(Row(g))
      /\ pc[g] = "saving" => RoundHolds(job[g].results, Row(g))
  BY TurnFacts, RowType DEF EInv, IInv
<1>2. CASE Row(g).phase = "None" /\ row = Inserted(g)
  <2>1. Row(g).rounds = <<>>
    BY <1>1, <1>2, TurnFacts DEF RequestsAgree, Rows
  <2>2. row.rounds = <<>> /\ row.phase = "Evaluating"
    BY <1>1, <1>2, <2>1 DEF Inserted, Rows
  <2> QED
    BY <2>2, RowEmpty
<1>3. CASE pc[g] = "correlating" /\ row = [Row(g) EXCEPT !.correlation = Row(g).active]
  <2>1. /\ row.evidence = Row(g).evidence /\ row.rounds = Row(g).rounds
        /\ row.submissions = Row(g).submissions /\ row.phase = Row(g).phase
        /\ row.response = Row(g).response
    BY <1>1, <1>3 DEF Rows
  <2> QED
    BY <1>1, <2>1, RowFrame DEF RowHolds
<1>4. CASE pc[g] = "failing" /\ row = FailedRow(g)
  <2>1. row = [Row(g) EXCEPT !.phase = "Failed",
                             !.timeline = Append(@, "WorkflowFailed")]
    BY <1>1, <1>4, TurnFacts, FailedAgrees DEF IInv
  <2>2. /\ row.evidence = Row(g).evidence /\ row.rounds = Row(g).rounds
        /\ row.submissions = Row(g).submissions /\ row.phase = "Failed"
    BY <1>1, <2>1 DEF Rows
  <2> QED
    BY <1>1, <2>2, RowFrame DEF Terminal
<1> QED
  BY <1>1, <1>2, <1>3, <1>4, AnsweredHolds, EvaluatedHolds, AskedHolds, DecidedHolds
     DEF Writes
-----------------------------------------------------------------------------
(* The round a turn carries to its commit.                                 *)

(* What a check is given in a planned round is about its current record. *)
LEMMA EvaluateHolds ==
    ASSUME IInv, NEW g \in Handlers, pc[g] = "planning", PlanAccepted(g),
           RowHolds(Row(g)), NEW c \in Checks, NEW exhausted, NEW result,
           result = Evaluate(Previous(g, c), c \in job[g].rerun,
                             Row(g).evidence[c], exhausted, NextRound(g))
    PROVE  /\ result.version = Len(Row(g).evidence[c])
           /\ ResultHolds(result, Row(g), c, Len(Row(g).rounds) + 1)
<1> DEFINE row == Row(g)
           history == Row(g).evidence[c]
           n == Len(Row(g).rounds)
<1>1. /\ row \in Rows /\ job[g] \in Jobs /\ n \in Nat /\ NextRound(g) = n + 1
      /\ history \in Seq(Verdicts)
  BY TurnFacts DEF PlanAccepted, Rows
<1>2. CASE PlanningReason(Previous(g, c), c \in job[g].rerun, Len(history))
               = "UnchangedEvidence"
  <2>1. /\ Previous(g, c).outcome = Passed
        /\ Previous(g, c).version = Len(history)
    BY <1>2 DEF PlanAccepted, ReuseVerified
  <2>2. result = [outcome |-> Passed, version |-> Len(history), source |-> n]
    BY <1>1, <1>2, <2>1 DEF Evaluate, Reuse
  <2>3. row.rounds # <<>> /\ Previous(g, c) = row.rounds[n][c]
    BY <2>1 DEF Previous, NoResult, Passed, Latest
  <2>4. n \in 1 .. n
    BY <1>1, <2>3 DEF Rows
  <2>5. ResultHolds(row.rounds[n][c], row, c, n)
    BY <2>4 DEF RowHolds
  <2>6. /\ row.rounds[n][c].outcome = Passed
        /\ row.rounds[n][c].version = Len(history)
    BY <2>1, <2>3
  <2>7. Len(history) \in 1 .. Len(history) /\ history[Len(history)] = Passed
    BY <2>5, <2>6 DEF ResultHolds
  <2>8. n \in 1 .. (n + 1) - 1
    BY <1>1, <2>4
  <2>9. /\ result.outcome = Passed /\ result.version = Len(history)
        /\ result.source = n
    BY <2>2
  <2> HIDE DEF n
  <2>10. ResultHolds(result, row, c, n + 1)
    BY <2>6, <2>7, <2>8, <2>9 DEF ResultHolds
  <2> QED
    BY <2>9, <2>10 DEF n
<1>3. CASE PlanningReason(Previous(g, c), c \in job[g].rerun, Len(history))
               # "UnchangedEvidence"
  <2>1. result = Execute(history, exhausted)
    BY <1>3 DEF Evaluate
  <2>2. /\ result.version = Len(history) /\ result.source = Executed
        /\ result.outcome = Passed =>
               /\ history # <<>>
               /\ history[Len(history)] = Passed
    BY <2>1 DEF Execute, MissingEvidence, TransientFailure, Passed
  <2>3. history # <<>> => Len(history) \in 1 .. Len(history)
    BY <1>1
  <2> QED
    BY <2>2, <2>3 DEF ResultHolds
<1> QED
  BY <1>2, <1>3
-----------------------------------------------------------------------------
(* What becomes of a handler's task in one step.                           *)

\* It ends, it goes on unchanged, its round is planned, or it is new.
TaskMoves(h) ==
    \/ job'[h] = NoJob /\ pc'[h] = "idle"
    \/ /\ job'[h] = job[h]
       /\ pc'[h] = "saving" => pc[h] = "saving"
       /\ pc'[h] = "answering" => pc[h] = "answering" \/ job[h].kind = "remediate"
       /\ pc'[h] = "planning" =>
              pc[h] \in {"planning", "answering"} \/ job[h].kind = "submit"
    \/ PlanRound(h) /\ PlanAccepted(h) /\ pc'[h] = "saving"
    \/ /\ db' = db /\ pc'[h] \notin {"saving", "answering", "planning"}
       /\ job'[h].kind = "remediate" =>
              LET row == db[job'[h].release] IN
              /\ Wait("Remediation", job'[h].round) \in row.requests
              /\ job'[h].base = [c \in Checks |-> Len(row.evidence[c])]

LEMMA PostMoves ==
    ASSUME TypeOK, NEW h \in Handlers, Post(h)
    PROVE  TaskMoves(h)
<1>1. ASSUME NEW answer, Answer(h, answer) PROVE TaskMoves(h)
  BY <1>1 DEF Answer, TaskMoves
<1>2. ASSUME NEW step, NEW request, Begin(h, step, request),
             step \notin {"saving", "answering", "planning"}
      PROVE  job'[h] = request /\ pc'[h] = step /\ db' = db
  BY <1>2 DEF Begin, Goto, TypeOK
<1>3. ASSUME NEW r \in Releases, NEW round \in 1 .. MaxRounds, NEW fill \in Fills,
             NEW rerun \in SUBSET Checks, PostRemediation(h, r, round, fill, rerun)
      PROVE  TaskMoves(h)
  <2> DEFINE base == [c \in Checks |-> Len(db[r].evidence[c])]
             request == [NoJob EXCEPT !.kind = "remediate",
                                      !.release = r,
                                      !.round = round,
                                      !.fill = fill,
                                      !.base = base,
                                      !.rerun = rerun]
  <2>1. request.release = r /\ request.round = round /\ request.base = base
    BY NoJobType DEF Jobs
  <2>2. Wait("Remediation", round) \in db[r].requests
    BY <1>3 DEF PostRemediation
  <2>3. CASE Begin(h, "posting", request)
    <3> HIDE DEF request
    <3>1. job'[h] = request /\ pc'[h] = "posting" /\ db' = db
      BY <1>2, <2>3
    <3> QED
      BY <2>1, <2>2, <3>1 DEF TaskMoves
  <2> QED
    BY <1>1, <1>3, <2>3 DEF PostRemediation
<1>4. ASSUME NEW request, NEW step \in {"inserting", "queued"},
             Begin(h, step, request), request.kind # "remediate"
      PROVE  TaskMoves(h)
  BY <1>2, <1>4 DEF TaskMoves
<1>5. NoJob \in Jobs
  BY NoJobType
<1>6. ASSUME NEW r \in Releases, NEW fill \in Fills, PostNew(h, r, fill)
      PROVE  TaskMoves(h)
  <2> DEFINE request == [NoJob EXCEPT !.kind = "submit", !.release = r, !.fill = fill]
  <2>1. request.kind # "remediate"
    BY <1>5 DEF Jobs
  <2> HIDE DEF request
  <2> QED
    BY <1>1, <1>4, <1>6, <2>1 DEF PostNew, request
<1>7. ASSUME NEW r \in Releases, NEW id \in ResponseIds, NEW decision \in Decisions,
             PostDecision(h, r, id, decision)
      PROVE  TaskMoves(h)
  <2> DEFINE response == [id |-> id, decision |-> decision, round |-> 0]
             request == [NoJob EXCEPT !.kind = "decide", !.release = r,
                                      !.response = response]
  <2>1. request.kind # "remediate"
    BY <1>5 DEF Jobs
  <2>2. Begin(h, "queued", request) \/ \E answer \in Replies : Answer(h, answer)
    BY <1>7 DEF PostDecision, Replies
  <2> HIDE DEF request
  <2> QED
    BY <1>1, <1>4, <2>1, <2>2
<1>8. ASSUME NEW r \in Releases, ViewDecision(h, r)
      PROVE  TaskMoves(h)
  <2> DEFINE request == [NoJob EXCEPT !.kind = "view", !.release = r]
  <2>1. request.kind # "remediate"
    BY <1>5 DEF Jobs
  <2> HIDE DEF request
  <2> QED
    BY <1>1, <1>4, <1>8, <2>1 DEF ViewDecision, request
<1> QED
  BY <1>3, <1>6, <1>7, <1>8 DEF Post

LEMMA WorkMoves ==
    ASSUME TypeOK, NEW h \in Handlers, Work(h)
    PROVE  TaskMoves(h)
<1>1. ASSUME NEW answer, Leave(h, answer) PROVE TaskMoves(h)
  BY <1>1 DEF Leave, Goto, TaskMoves, TypeOK
<1>2. ASSUME NEW step, Goto(h, step), step \notin {"saving", "answering", "planning"}, UNCHANGED job
      PROVE  TaskMoves(h)
  BY <1>2 DEF Goto, TaskMoves, TypeOK
<1>3. \A row, step : Commit(h, row, step) => Goto(h, step) \/ Goto(h, "failing")
  BY DEF Commit
<1>4. CASE InsertRelease(h)
  BY <1>1, <1>2, <1>4 DEF InsertRelease
<1>5. CASE CheckRemediation(h) \/ ResumeRemediation(h)
  <2>1. CASE CheckRemediation(h)
    BY <1>1, <1>2, <2>1 DEF CheckRemediation
  <2>2. CASE ResumeRemediation(h)
    BY <2>2 DEF ResumeRemediation, Throw, Goto, TaskMoves, TypeOK
  <2> QED
    BY <1>5, <2>1, <2>2
<1>6. CASE SaveSubmission(h) \/ SaveRound(h)
  <2>1. CASE SaveSubmission(h)
    BY <2>1 DEF SaveSubmission, Commit, Throw, Goto, TaskMoves, TypeOK
  <2>2. CASE SaveRound(h)
    BY <1>2, <1>3, <2>2 DEF SaveRound, Throw, Replayed
  <2> QED
    BY <1>6, <2>1, <2>2
<1>7. CASE PlanRound(h)
  BY <1>7 DEF PlanRound, Throw, Goto, TaskMoves, TypeOK
<1>8. CASE OpenRemediation(h) \/ OpenApproval(h)
  BY <1>2, <1>3, <1>8 DEF OpenRemediation, OpenApproval, Ask, Throw, Replayed
<1>9. CASE ReachWait(h) \/ SaveCorrelation(h)
  BY <1>1, <1>2, <1>9 DEF ReachWait, SaveCorrelation, Throw
<1>10. CASE ResumeApproval(h) \/ RestoreForView(h)
  BY <1>1, <1>2, <1>10 DEF ResumeApproval, RestoreForView
<1>11. CASE SaveResponse(h) \/ FinishApproval(h)
  BY <1>1, <1>2, <1>3, <1>11 DEF SaveResponse, FinishApproval, Throw
<1>12. CASE MarkFailed(h) \/ Reread(h)
  BY <1>1, <1>2, <1>12 DEF MarkFailed, Reread
<1> QED
  BY <1>4, <1>5, <1>6, <1>7, <1>8, <1>9, <1>10, <1>11, <1>12 DEF Work

\* A handler's step leaves the others where they are.
LEMMA OthersStay ==
    ASSUME TypeOK, NEW g \in Handlers, NEW h \in Handlers, g # h,
           Post(g) \/ Work(g) \/ AcquireGate(g) \/ TechnicalFault(g) \/ Cancel(g)
    PROVE  pc'[h] = pc[h] /\ job'[h] = job[h]
<1>1. ASSUME NEW step, Goto(g, step) PROVE pc'[h] = pc[h]
  BY <1>1 DEF Goto, TypeOK
<1>2. \A answer : Leave(g, answer) => pc'[h] = pc[h] /\ job'[h] = job[h]
  BY <1>1 DEF Leave, TypeOK
<1>3. \A row, step : Commit(g, row, step) => pc'[h] = pc[h]
  BY <1>1 DEF Commit
<1>4. \A answer : Answer(g, answer) => pc'[h] = pc[h] /\ job'[h] = job[h]
  BY DEF Answer
<1>5. \A step, request : Begin(g, step, request) => pc'[h] = pc[h] /\ job'[h] = job[h]
  BY <1>1 DEF Begin, TypeOK
<1>6. CASE Post(g)
  BY <1>4, <1>5, <1>6 DEF Post, PostNew, PostRemediation, PostDecision, ViewDecision
<1>7. CASE Work(g)
  <2>1. CASE InsertRelease(g) \/ CheckRemediation(g) \/ ResumeRemediation(g)
    BY <1>1, <1>2, <2>1 DEF InsertRelease, CheckRemediation, ResumeRemediation, Throw
  <2>2. CASE SaveSubmission(g) \/ SaveRound(g) \/ SaveResponse(g)
    BY <1>1, <1>3, <2>2 DEF SaveSubmission, SaveRound, SaveResponse, Throw, Replayed
  <2>3. CASE PlanRound(g)
    BY <1>1, <2>3 DEF PlanRound, Throw, TypeOK
  <2>4. CASE OpenRemediation(g) \/ OpenApproval(g)
    BY <1>1, <1>3, <2>4 DEF OpenRemediation, OpenApproval, Ask, Throw, Replayed
  <2>5. CASE ReachWait(g) \/ SaveCorrelation(g) \/ FinishApproval(g)
    BY <1>1, <1>2, <2>5 DEF ReachWait, SaveCorrelation, FinishApproval, Throw
  <2>6. CASE ResumeApproval(g) \/ RestoreForView(g)
    BY <1>1, <1>2, <2>6 DEF ResumeApproval, RestoreForView
  <2>7. CASE MarkFailed(g) \/ Reread(g)
    BY <1>1, <1>2, <2>7 DEF MarkFailed, Reread
  <2> QED
    BY <1>7, <2>1, <2>2, <2>3, <2>4, <2>5, <2>6, <2>7 DEF Work
<1>8. CASE AcquireGate(g) \/ TechnicalFault(g) \/ Cancel(g)
  BY <1>1, <1>2, <1>8 DEF AcquireGate, TechnicalFault, Cancel, Throw
<1> QED
  BY <1>6, <1>7, <1>8

LEMMA StepMoves ==
    ASSUME TypeOK, [Next]_vars, NEW h \in Handlers
    PROVE  TaskMoves(h)
<1>1. ASSUME NEW g \in Handlers,
             Post(g) \/ Work(g) \/ AcquireGate(g) \/ TechnicalFault(g) \/ Cancel(g)
      PROVE  TaskMoves(h)
  <2>1. CASE g # h
    BY <1>1, <2>1, OthersStay DEF TaskMoves
  <2>2. CASE g = h /\ (Post(g) \/ Work(g))
    BY <2>2, PostMoves, WorkMoves
  <2>3. CASE g = h /\ (AcquireGate(g) \/ TechnicalFault(g))
    BY <2>3 DEF AcquireGate, TechnicalFault, Throw, Goto, TaskMoves, TypeOK
  <2>4. CASE g = h /\ Cancel(g)
    BY <2>4 DEF Cancel, Leave, Goto, TaskMoves, TypeOK
  <2> QED
    BY <1>1, <2>1, <2>2, <2>3, <2>4
<1>2. CASE Crash
  BY <1>2 DEF Crash, TaskMoves
<1>3. CASE UNCHANGED vars \/ \E r \in Releases : LoseCheckpoint(r)
  BY <1>3 DEF LoseCheckpoint, vars, TaskMoves
<1> QED
  BY <1>1, <1>2, <1>3 DEF Next
-----------------------------------------------------------------------------
(* EInv.                                                                   *)

\* Nobody writes to a release while a turn carries a round of it.
LEMMA SavingUndisturbed ==
    ASSUME IInv, [Next]_vars, NEW h \in Handlers,
           pc[h] = "saving", pc'[h] = "saving", job'[h] = job[h]
    PROVE  db'[job[h].release] = db[job[h].release]
<1> SUFFICES ASSUME db'[job[h].release] # db[job[h].release]
             PROVE  FALSE
  OBVIOUS
<1>0. job[h].release \in Releases
  BY RowType DEF IInv
<1>1. PICK g \in Handlers : Work(g)
  BY <1>0, StepChanges
<1>2. /\ job[h].release = job[g].release
      /\ Writes(g, db'[job[h].release])
  BY <1>0, <1>1, WorkWrites
<1>3. gate = h /\ Row(h).phase = "Evaluating" /\ Row(g) = Row(h)
  BY <1>2, TurnFacts DEF IInv, TurnsExclude, TurnSteps, StateLeft, Row
<1>4. pc[g] \in TurnSteps
  BY <1>2, <1>3 DEF Writes, TurnSteps
<1>5. g = h
  BY <1>3, <1>4 DEF IInv, TurnsExclude
<1> QED
  BY <1>2, <1>5 DEF Writes

LEMMA EvidenceStep == EInv /\ [Next]_vars => EInv'
<1> SUFFICES ASSUME EInv, [Next]_vars PROVE EInv'
  OBVIOUS
<1>1. IInv /\ IInv' /\ TypeOK /\ TypeOK'
  BY InvariantStep DEF EInv, IInv
<1>2. ASSUME NEW r \in Releases PROVE RowHolds(db'[r])
  <2>1. CASE db'[r] = db[r]
    BY <2>1 DEF EInv
  <2>2. CASE db'[r] # db[r]
    <3>1. PICK g \in Handlers : Work(g)
      BY <1>1, <2>2, StepChanges
    <3> QED
      BY <1>1, <2>2, <3>1, WorkWrites, WritesHold
  <2> QED
    BY <2>1, <2>2
<1>3. ASSUME NEW h \in Handlers, pc'[h] = "saving"
      PROVE  RoundHolds(job'[h].results, db'[job'[h].release])
  <2>1. CASE job'[h] = job[h] /\ pc[h] = "saving"
    <3>1. db'[job[h].release] = db[job[h].release]
      BY <1>1, <1>3, <2>1, SavingUndisturbed
    <3> QED
      BY <2>1, <3>1 DEF EInv, Row
  <2>2. CASE PlanRound(h) /\ PlanAccepted(h)
    <3>1. /\ job[h].release \in Releases /\ RowHolds(Row(h)) /\ pc[h] = "planning"
          /\ db' = db /\ job[h] \in Jobs
      BY <1>1, <2>2, RowType DEF EInv, Row, PlanRound
    <3>2. PICK exhausted :
             job' = [job EXCEPT ![h].results =
                         [c \in Checks |->
                             Evaluate(Previous(h, c), c \in job[h].rerun,
                                      Row(h).evidence[c], c \in exhausted,
                                      NextRound(h))]]
      BY <2>2 DEF PlanRound
    <3> DEFINE results == [c \in Checks |->
                              Evaluate(Previous(h, c), c \in job[h].rerun,
                                       Row(h).evidence[c], c \in exhausted,
                                       NextRound(h))]
    <3>3. ASSUME NEW c \in Checks
          PROVE  /\ results[c].version = Len(Row(h).evidence[c])
                 /\ ResultHolds(results[c], Row(h), c, Len(Row(h).rounds) + 1)
      <4>1. results[c] = Evaluate(Previous(h, c), c \in job[h].rerun,
                                  Row(h).evidence[c], c \in exhausted, NextRound(h))
        OBVIOUS
      <4> HIDE DEF results
      <4> QED
        BY <1>1, <2>2, <3>1, <4>1, EvaluateHolds
    <3>4. job' = [job EXCEPT ![h].results = results]
      BY <3>2
    <3> HIDE DEF results
    <3>5. job'[h].results = results /\ job'[h].release = job[h].release
      BY <1>1, <3>1, <3>4 DEF TypeOK, Jobs
    <3> QED
      BY <3>1, <3>3, <3>5 DEF RoundHolds, AreCurrent, Row
  <2> QED
    BY <1>1, <1>3, <2>1, <2>2, StepMoves DEF TaskMoves
<1> QED
  BY <1>1, <1>2, <1>3 DEF EInv, Row

LEMMA EvidenceInit == Init => EInv
<1> SUFFICES ASSUME Init PROVE EInv
  OBVIOUS
<1>1. IInv
  BY InvariantInit
<1>2. RowHolds(NoRelease)
  BY RowEmpty DEF NoRelease
<1>3. \A r \in Releases : RowHolds(db[r])
  BY <1>2 DEF Init
<1> QED
  BY <1>1, <1>3 DEF Init, EInv

(* Rounds on record, and the one a turn carries, agree with the evidence. *)
THEOREM EvidenceCorrect == Spec => []EInv
<1> QED
  BY EvidenceInit, EvidenceStep, PTL DEF Spec

(* A release is put before a human, and stays decided, only on the         *)
(* strength of its current evidence.                                       *)
THEOREM ApprovalCoversCurrentEvidenceCorrect == Spec => []ApprovalCoversCurrentEvidence
<1>1. ASSUME EInv PROVE ApprovalCoversCurrentEvidence
  <2> SUFFICES ASSUME NEW r \in Releases,
                      db[r].phase \in {"WaitingForApproval"} \cup Terminal
               PROVE  /\ Approvals(db[r]) = {Wait("Approval", Len(db[r].rounds))}
                      /\ db[r].phase \in Terminal =>
                             db[r].response.round = Len(db[r].rounds)
                      /\ \A c \in Checks :
                             LET result == Latest(db[r])[c] IN
                             /\ result.outcome = Passed
                             /\ result.version = Len(db[r].evidence[c])
                             /\ db[r].evidence[c] # <<>>
                             /\ db[r].evidence[c][result.version] = Passed
    BY DEF ApprovalCoversCurrentEvidence
  <2> DEFINE row == db[r]
  <2>1. /\ row \in Rows /\ RowHolds(row)
        /\ RequestsAgree(row, Len(row.rounds))
    BY <1>1 DEF EInv, IInv, TypeOK, OneOpenQuestion
  <2> HIDE DEF row
  <2>2. row.phase \in {"WaitingForApproval"} \cup Terminal
    BY DEF row
  <2>3. Approvals(row) = {Wait("Approval", Len(row.rounds))}
    BY <2>1, <2>2 DEF RequestsAgree
  <2>4. /\ row.rounds # <<>> /\ AllPassed(Latest(row))
        /\ AreCurrent(Latest(row), row)
        /\ row.phase \in Terminal => row.response.round = Len(row.rounds)
    BY <2>1, <2>2 DEF RowHolds
  <2>5. Len(row.rounds) \in 1 .. Len(row.rounds)
    BY <2>1, <2>4 DEF Rows
  <2>6. ASSUME NEW c \in Checks
        PROVE  LET result == Latest(row)[c] IN
               /\ result.outcome = Passed
               /\ result.version = Len(row.evidence[c])
               /\ row.evidence[c] # <<>>
               /\ row.evidence[c][result.version] = Passed
    <3>1. Latest(row)[c].outcome = Passed /\ Latest(row)[c].version = Len(row.evidence[c])
      BY <2>4 DEF AllPassed, AreCurrent
    <3>2. ResultHolds(Latest(row)[c], row, c, Len(row.rounds))
      BY <2>1, <2>5 DEF RowHolds, Latest
    <3>3. /\ Len(row.evidence[c]) \in 1 .. Len(row.evidence[c])
          /\ row.evidence[c][Latest(row)[c].version] = Passed
      BY <3>1, <3>2 DEF ResultHolds
    <3> QED
      BY <3>1, <3>3
  <2> QED
    BY <2>3, <2>4, <2>6 DEF row
<1> QED
  BY <1>1, EvidenceCorrect, PTL

(* A reused result rests on a passing result of the same record. *)
THEOREM ReuseIsJustifiedCorrect == Spec => []ReuseIsJustified
<1>1. ASSUME EInv PROVE ReuseIsJustified
  <2> SUFFICES ASSUME NEW r \in Releases, NEW n \in 1 .. MaxRounds, NEW c \in Checks,
                      n <= Len(db[r].rounds),
                      db[r].rounds[n][c].source # Executed
               PROVE  LET result == db[r].rounds[n][c] IN
                      /\ result.source < n
                      /\ LET source == db[r].rounds[result.source][c] IN
                         /\ source.outcome = Passed /\ result.outcome = Passed
                         /\ source.version = result.version
                      /\ db[r].evidence[c][result.version] = Passed
    BY DEF ReuseIsJustified
  <2> DEFINE row == db[r]
  <2>1. row \in Rows /\ RowHolds(row)
    BY <1>1 DEF EInv, IInv, TypeOK
  <2>2. n \in Nat /\ Len(row.rounds) \in Nat
    BY <2>1, ConstantsAssumption DEF Rows
  <2>3. n \in 1 .. Len(row.rounds)
    BY <2>2, ConstantsAssumption
  <2>4. ResultHolds(row.rounds[n][c], row, c, n)
    BY <2>1, <2>3 DEF RowHolds
  <2> DEFINE result == row.rounds[n][c]
             source == row.rounds[result.source][c]
  <2>5. /\ result.outcome = Passed /\ result.source \in 1 .. n - 1
        /\ source.outcome = Passed /\ source.version = result.version
        /\ row.evidence[c][result.version] = Passed
    BY <2>4, ZenonT(30) DEF ResultHolds
  <2>6. result.source < n
    <3> DEFINE s == result.source
    <3>1. s \in 1 .. n - 1
      BY <2>5
    <3> HIDE DEF s
    <3>2. s < n
      BY <2>2, <3>1
    <3> QED
      BY <3>2 DEF s
  <2> QED
    BY <2>5, <2>6, ZenonT(30)
<1> QED
  BY <1>1, EvidenceCorrect, PTL
-----------------------------------------------------------------------------
(* FormsInv.                                                               *)

\* No commit makes a form's versions stale but the answer to its question.
LEMMA WritesKeepForm ==
    ASSUME IInv, NEW g \in Handlers, NEW row, Writes(g, row),
           NEW task \in Jobs, task.kind = "remediate", FormHolds(task, Row(g))
    PROVE  FormHolds(task, row)
<1>1. /\ Row(g) \in Rows /\ job[g] \in Jobs /\ Len(Row(g).rounds) \in Nat
      /\ RequestsAgree(Row(g), Len(Row(g).rounds)) /\ TypeOK
      /\ StateLeft(pc[g], job[g], Row(g), Len(Row(g).rounds))
  BY TurnFacts DEF IInv
<1>2. /\ Wait("Remediation", task.round) \in Row(g).requests
      /\ task.round \notin Row(g).submissions =>
             \A c \in Checks : task.base[c] = Len(Row(g).evidence[c])
  BY DEF FormHolds
<1>3. CASE /\ Row(g).requests \subseteq row.requests
           /\ row.submissions = Row(g).submissions
           /\ row.evidence = Row(g).evidence
  BY <1>2, <1>3 DEF FormHolds
<1>4. CASE Row(g).phase = "None"
  BY <1>1, <1>2, <1>4 DEF RequestsAgree
<1>5. CASE pc[g] = "answering" /\ Row(g).phase = "WaitingForRemediation" /\ row = Answered(g)
  <2>1. /\ row.requests = Row(g).requests
        /\ row.submissions = Row(g).submissions \cup {job[g].round}
    BY <1>1, <1>5 DEF Answered, Rows
  <2>2. Unanswered(Row(g)) = {Wait("Remediation", job[g].round)}
    BY <1>1, <1>5 DEF RequestsAgree, StateLeft
  <2>3. task.round \in row.submissions
    <3>1. CASE task.round \in Row(g).submissions
      BY <2>1, <3>1
    <3>2. CASE task.round \notin Row(g).submissions
      <4>1. Wait("Remediation", task.round) \in Unanswered(Row(g))
        BY <1>2, <3>2 DEF Unanswered, Wait
      <4>2. task.round = job[g].round
        BY <2>2, <4>1 DEF Wait
      <4> QED
        BY <2>1, <4>2
    <3> QED
      BY <3>1, <3>2
  <2> QED
    BY <1>2, <2>1, <2>3 DEF FormHolds
<1>6. CASE row = Evaluated(g)
  BY <1>1, <1>3, <1>6 DEF Evaluated, Rows
<1>7. CASE \E kind, phase, entry : row = Asked(g, kind, phase, entry)
  BY <1>1, <1>3, <1>7 DEF Asked, Rows
<1>8. CASE row = [Row(g) EXCEPT !.correlation = Row(g).active]
  BY <1>1, <1>3, <1>8 DEF Rows
<1>9. CASE row = Decided(g)
  BY <1>1, <1>3, <1>9 DEF Decided, Rows
<1>10. CASE row = FailedRow(g)
  BY <1>1, <1>3, <1>10, FailedAgrees DEF Rows
<1> QED
  BY <1>4, <1>5, <1>6, <1>7, <1>8, <1>9, <1>10 DEF Writes

LEMMA FormsStep == FormsInv /\ [Next]_vars => FormsInv'
<1> SUFFICES ASSUME FormsInv, [Next]_vars PROVE FormsInv'
  OBVIOUS
<1>1. IInv /\ IInv' /\ TypeOK
  BY InvariantStep DEF FormsInv, IInv
<1>2. ASSUME NEW h \in Handlers, job'[h].kind = "remediate"
      PROVE  FormHolds(job'[h], db'[job'[h].release])
  <2>0. job[h] \in Jobs /\ job[h].release \in Releases /\ FormHolds(job[h], Row(h))
    BY <1>1, RowType DEF FormsInv
  <2>1. CASE job'[h] = job[h]
    <3>1. CASE db'[job[h].release] = db[job[h].release]
      BY <2>0, <2>1, <3>1 DEF Row
    <3>2. CASE db'[job[h].release] # db[job[h].release]
      <4>1. PICK g \in Handlers : Work(g)
        BY <1>1, <2>0, <3>2, StepChanges
      <4>2. /\ job[h].release = job[g].release
            /\ Writes(g, db'[job[h].release])
        BY <1>1, <2>0, <3>2, <4>1, WorkWrites
      <4>3. FormHolds(job[h], Row(g))
        BY <2>0, <4>2 DEF Row
      <4> QED
        BY <1>1, <1>2, <2>0, <2>1, <4>2, <4>3, WritesKeepForm
    <3> QED
      BY <3>1, <3>2
  <2>2. CASE PlanRound(h) /\ PlanAccepted(h)
    <3>1. PICK results : job' = [job EXCEPT ![h].results = results]
      BY <2>2 DEF PlanRound
    <3>2. /\ job'[h].release = job[h].release /\ job'[h].kind = job[h].kind
          /\ job'[h].round = job[h].round /\ job'[h].base = job[h].base
          /\ db' = db
      BY <1>1, <2>0, <2>2, <3>1 DEF PlanRound, TypeOK, Jobs
    <3> QED
      BY <2>0, <3>2 DEF FormHolds, Row
  <2>3. CASE /\ db' = db
             /\ Wait("Remediation", job'[h].round) \in db[job'[h].release].requests
             /\ job'[h].base = [c \in Checks |-> Len(db[job'[h].release].evidence[c])]
    BY <2>3 DEF FormHolds
  <2>4. NoJob.kind # "remediate"
    BY DEF NoJob
  <2> QED
    BY <1>1, <1>2, <2>1, <2>2, <2>3, <2>4, StepMoves DEF TaskMoves
<1>3. \A h \in Handlers : FormHolds(job'[h], db'[job'[h].release])
  BY <1>2 DEF FormHolds
<1>4. ASSUME NEW h \in Handlers
      PROVE  /\ pc'[h] = "answering" => job'[h].kind = "remediate"
             /\ pc'[h] \in {"planning", "saving"} =>
                    job'[h].kind \in {"submit", "remediate"}
  <2>1. CASE PlanRound(h) /\ PlanAccepted(h) /\ pc'[h] = "saving"
    <3>1. job'[h].kind = job[h].kind
      BY <1>1, <2>1, RowType DEF PlanRound, TypeOK, Jobs
    <3> QED
      BY <2>1, <3>1 DEF PlanRound, FormsInv
  <2> QED
    BY <1>1, <2>1, StepMoves DEF TaskMoves, FormsInv
<1> QED
  BY <1>1, <1>3, <1>4 DEF FormsInv, Row

LEMMA FormsInit == Init => FormsInv
<1>1. \A row : FormHolds(NoJob, row)
  BY DEF FormHolds, NoJob
<1> QED
  BY <1>1, InvariantInit DEF Init, FormsInv

(* An answer that a turn lets through carries versions that fit. *)
THEOREM AcceptedFormsFitCorrect == Spec => []AcceptedFormsFit
<1>1. ASSUME FormsInv PROVE AcceptedFormsFit
  <2> SUFFICES ASSUME NEW h \in Handlers, pc[h] = "answering"
               PROVE  ReplacementsFit(h)
    BY DEF AcceptedFormsFit
  <2>0. /\ IInv /\ FormHolds(job[h], Row(h))
    BY <1>1 DEF FormsInv
  <2>1. /\ Row(h).phase = "WaitingForRemediation"
        /\ Unanswered(Row(h)) = {Wait("Remediation", job[h].round)}
    <3>1. /\ StateLeft(pc[h], job[h], Row(h), Len(Row(h).rounds))
          /\ RequestsAgree(Row(h), Len(Row(h).rounds))
      BY <2>0, TurnFacts
    <3> QED
      BY <3>1 DEF StateLeft, RequestsAgree
  <2>2. job[h].round \notin Row(h).submissions
    <3>1. Wait("Remediation", job[h].round) \in Unanswered(Row(h))
      BY <2>1
    <3>2. Wait("Remediation", job[h].round).round = job[h].round
      BY DEF Wait
    <3> QED
      BY <3>1, <3>2 DEF Unanswered
  <2>3. job[h].kind = "remediate"
    BY <1>1 DEF FormsInv
  <2> QED
    BY <2>0, <2>2, <2>3 DEF FormHolds, ReplacementsFit
<1> QED
  BY <1>1, FormsInit, FormsStep, PTL DEF Spec
-----------------------------------------------------------------------------
(* The timeline.  It is counted against the rows, first as such.           *)

\* The entries of one kind are as many as their positions, a finite set.
LEMMA EntriesCounted ==
    ASSUME NEW row, row.timeline \in Seq(TimelineKinds), NEW kind
    PROVE  /\ Entries(row, kind) \in Nat
           /\ IsFiniteSet({i \in 1 .. Len(row.timeline) : row.timeline[i] = kind})
<1> DEFINE n == Len(row.timeline)
           At == {i \in 1 .. n : row.timeline[i] = kind}
<1>1. n \in Nat
  OBVIOUS
<1> HIDE DEF n
<1>2. IsFiniteSet(1 .. n)
  BY <1>1, FS_Interval
<1>3. At \in SUBSET (1 .. n)
  OBVIOUS
<1> HIDE DEF At
<1>4. IsFiniteSet(At)
  BY <1>2, <1>3, FS_Subset
<1>5. Cardinality(At) \in Nat
  BY <1>4, FS_CardinalityType
<1> QED
  BY <1>4, <1>5 DEF At, n, Entries

\* An entry more counts once, for its own kind.
LEMMA EntriesAppended ==
    ASSUME NEW row, row.timeline \in Seq(TimelineKinds), NEW after,
           NEW entry \in TimelineKinds, after.timeline = Append(row.timeline, entry),
           NEW kind
    PROVE  /\ kind = entry => Entries(after, kind) = Entries(row, kind) + 1
           /\ kind # entry => Entries(after, kind) = Entries(row, kind)
<1> DEFINE n == Len(row.timeline)
           Before == {i \in 1 .. n : row.timeline[i] = kind}
           After == {i \in 1 .. n + 1 : after.timeline[i] = kind}
<1>1. /\ n \in Nat /\ Len(after.timeline) = n + 1 /\ after.timeline[n + 1] = entry
      /\ \A i \in 1 .. n : after.timeline[i] = row.timeline[i]
  OBVIOUS
<1>2. /\ Entries(row, kind) = Cardinality(Before) /\ Cardinality(Before) \in Nat
      /\ Entries(after, kind) = Cardinality(After) /\ IsFiniteSet(Before)
  BY <1>1, EntriesCounted DEF Entries
<1> HIDE DEF n
<1>3. 1 .. n + 1 = (1 .. n) \cup {n + 1} /\ n + 1 \notin 1 .. n
  BY <1>1
<1>4. CASE kind = entry
  <2>1. After = Before \cup {n + 1} /\ n + 1 \notin Before
    BY <1>1, <1>3, <1>4
  <2> HIDE DEF Before, After
  <2>2. Cardinality(After) = Cardinality(Before) + 1
    BY <1>2, <2>1, FS_AddElement
  <2> QED
    BY <1>2, <1>4, <2>2
<1>5. CASE kind # entry
  <2>1. After = Before
    BY <1>1, <1>3, <1>5
  <2> HIDE DEF Before, After
  <2> QED
    BY <1>2, <1>5, <2>1
<1> QED
  BY <1>4, <1>5

\* A commit that tells of itself in one entry, and of nothing else.
Tells(row, after, entry) ==
    /\ Entries(after, entry) = Entries(row, entry) + 1
    /\ \A kind \in TimelineKinds \ {entry} : Entries(after, kind) = Entries(row, kind)

LEMMA AppendTells ==
    ASSUME NEW row \in Rows, NEW after, NEW entry \in TimelineKinds,
           after.timeline = Append(row.timeline, entry)
    PROVE  Tells(row, after, entry)
<1>1. row.timeline \in Seq(TimelineKinds)
  BY DEF Rows
<1>2. \A kind :
          /\ kind = entry => Entries(after, kind) = Entries(row, kind) + 1
          /\ kind # entry => Entries(after, kind) = Entries(row, kind)
  <2>1. TAKE kind
  <2> QED
    BY <1>1, EntriesAppended, ZenonT(60)
<1> QED
  BY <1>2, Zenon DEF Tells

\* Nothing counts in a timeline that only tells of the submission.
LEMMA SubmittedOnly ==
    ASSUME NEW row, row.timeline = <<"ReleaseSubmitted">>,
           NEW kind, kind # "ReleaseSubmitted"
    PROVE  Entries(row, kind) = 0
<1>1. {i \in 1 .. Len(row.timeline) : row.timeline[i] = kind} = {}
  <2>1. Len(row.timeline) = 1 /\ row.timeline[1] = "ReleaseSubmitted"
    OBVIOUS
  <2> QED
    BY <2>1
<1> QED
  BY <1>1, FS_EmptySet DEF Entries
-----------------------------------------------------------------------------
(* Commits.                                                                *)

LEMMA InsertedTells ==
    ASSUME TypeOK, NEW g \in Handlers, Row(g).phase = "None",
           RequestsAgree(Row(g), Len(Row(g).rounds)), TimelineHolds(Row(g))
    PROVE  TimelineHolds(Inserted(g))
<1> DEFINE row == Inserted(g)
<1>1. Row(g) \in Rows
  BY RowType
<1>2. /\ row.phase = "Evaluating" /\ row.timeline = <<"ReleaseSubmitted">>
      /\ row.rounds = Row(g).rounds /\ row.requests = Row(g).requests
      /\ row.submissions = Row(g).submissions /\ row.response = Row(g).response
  BY <1>1 DEF Inserted, Rows
<1>3. Row(g).rounds = <<>> /\ Row(g).requests = {} /\ Row(g).submissions = {}
  <2>1. Len(Row(g).rounds) = 0 /\ Row(g).submissions \subseteq 1 .. 0
    BY DEF RequestsAgree
  <2> QED
    BY <1>1, <2>1 DEF RequestsAgree, Rows
<1>4. Row(g).response = NoResponse
  BY DEF TimelineHolds, Terminal
<1> HIDE DEF row
<1>5. /\ Entries(row, "EvaluationCompleted") = 0
      /\ Entries(row, "RemediationRequested") = 0
      /\ Entries(row, "ApprovalRequested") = 0
      /\ Entries(row, "RemediationSubmitted") = 0
      /\ Entries(row, "HumanResponseAccepted") = 0
      /\ Entries(row, "WorkflowFailed") = 0
  BY <1>2, SubmittedOnly
<1>6. Approvals(row) = {} /\ row.requests \ Approvals(row) = {}
  BY <1>2, <1>3 DEF Approvals
<1>7. IsFiniteSet({}) /\ Cardinality({}) = 0
  BY FS_EmptySet
<1> QED
  BY <1>2, <1>3, <1>4, <1>5, <1>6, <1>7 DEF TimelineHolds, Terminal, row

LEMMA AnsweredTells ==
    ASSUME IInv, NEW g \in Handlers, pc[g] = "answering",
           Row(g).phase = "WaitingForRemediation", TimelineHolds(Row(g))
    PROVE  TimelineHolds(Answered(g))
<1> DEFINE row == Answered(g)
           n == Len(Row(g).rounds)
<1>1. /\ TypeOK /\ Row(g) \in Rows /\ n \in Nat /\ job[g].round = n
      /\ RequestsAgree(Row(g), n)
  BY TurnFacts, AnsweredAgrees DEF IInv, StateLeft
<1>2. /\ row.phase = "Evaluating"
      /\ row.timeline = Append(Row(g).timeline, "RemediationSubmitted")
      /\ row.rounds = Row(g).rounds /\ row.requests = Row(g).requests
      /\ row.submissions = Row(g).submissions \cup {n}
      /\ row.response = Row(g).response
  BY <1>1 DEF Answered, Rows
<1>3. Tells(Row(g), row, "RemediationSubmitted")
  BY <1>1, <1>2, AppendTells DEF TimelineKinds
<1>4. n \notin Row(g).submissions
  BY <1>1 DEF RequestsAgree, Unanswered, Wait
<1>5. Cardinality(row.submissions) = Cardinality(Row(g).submissions) + 1
  <2>1. IsFiniteSet(1 .. n)
    BY <1>1, FS_Interval
  <2>2. Row(g).submissions \in SUBSET (1 .. n)
    BY <1>1 DEF RequestsAgree
  <2>3. IsFiniteSet(Row(g).submissions)
    BY <2>1, <2>2, FS_Subset
  <2> QED
    BY <1>2, <1>4, <2>3, FS_AddElement
<1>6. Approvals(row) = Approvals(Row(g))
  BY <1>2 DEF Approvals
<1> HIDE DEF row, n
<1>7. /\ Entries(row, "RemediationSubmitted") = Entries(Row(g), "RemediationSubmitted") + 1
      /\ \A kind \in TimelineKinds \ {"RemediationSubmitted"} :
             Entries(row, kind) = Entries(Row(g), kind)
  BY <1>3 DEF Tells
<1> QED
  BY <1>2, <1>5, <1>6, <1>7 DEF TimelineHolds, Terminal, TimelineKinds, row

LEMMA EvaluatedTells ==
    ASSUME IInv, NEW g \in Handlers, Row(g).phase = "Evaluating",
           TimelineHolds(Row(g))
    PROVE  TimelineHolds(Evaluated(g))
<1> DEFINE row == Evaluated(g)
<1>1. TypeOK /\ Row(g) \in Rows /\ RequestsAgree(Row(g), Len(Row(g).rounds))
  BY TurnFacts DEF IInv
<1>2. /\ row.phase = "Evaluating" /\ Len(row.rounds) = Len(Row(g).rounds) + 1
      /\ row.timeline = Append(Row(g).timeline, "EvaluationCompleted")
      /\ row.requests = Row(g).requests
      /\ row.submissions = Row(g).submissions /\ row.response = Row(g).response
  BY <1>1, EvaluatedAgrees DEF Evaluated, Rows
<1>3. Tells(Row(g), row, "EvaluationCompleted")
  BY <1>1, <1>2, AppendTells DEF TimelineKinds
<1>4. Approvals(row) = Approvals(Row(g))
  BY <1>2 DEF Approvals
<1> HIDE DEF row
<1>5. /\ Entries(row, "EvaluationCompleted") = Entries(Row(g), "EvaluationCompleted") + 1
      /\ \A kind \in TimelineKinds \ {"EvaluationCompleted"} :
             Entries(row, kind) = Entries(Row(g), kind)
  BY <1>3 DEF Tells
<1> QED
  BY <1>2, <1>4, <1>5 DEF TimelineHolds, Terminal, TimelineKinds, row

\* A question is a row more: no row about the latest round was there.
LEMMA AskedIsNew ==
    ASSUME IInv, NEW g \in Handlers, pc[g] = "asking", NEW kind,
           kind \in {"Remediation", "Approval"}
    PROVE  Wait(kind, NextRound(g)) \notin Row(g).requests
<1> DEFINE n == Len(Row(g).rounds)
<1>1. /\ RequestsAgree(Row(g), n) /\ StateLeft(pc[g], job[g], Row(g), n)
  BY TurnFacts
<1>2. /\ Row(g).phase = "Evaluating" /\ NextRound(g) = n
      /\ n \notin Row(g).submissions
  BY <1>1 DEF StateLeft, NextRound
<1>3. Unanswered(Row(g)) = {} /\ Approvals(Row(g)) = {}
  BY <1>1, <1>2 DEF RequestsAgree
<1> QED
  BY <1>2, <1>3 DEF Unanswered, Approvals, Wait

LEMMA RemediationAskedTells ==
    ASSUME IInv, NEW g \in Handlers, pc[g] = "asking", TimelineHolds(Row(g))
    PROVE  TimelineHolds(Asked(g, "Remediation", "WaitingForRemediation",
                               "RemediationRequested"))
<1> DEFINE row == Asked(g, "Remediation", "WaitingForRemediation", "RemediationRequested")
           wait == Wait("Remediation", NextRound(g))
<1>1. Row(g) \in Rows /\ Row(g).phase = "Evaluating"
  BY TurnFacts DEF StateLeft
<1>2. /\ row.phase = "WaitingForRemediation"
      /\ row.timeline = Append(Row(g).timeline, "RemediationRequested")
      /\ row.rounds = Row(g).rounds /\ row.requests = Row(g).requests \cup {wait}
      /\ row.submissions = Row(g).submissions /\ row.response = Row(g).response
  BY <1>1 DEF Asked, Rows
<1>3. Tells(Row(g), row, "RemediationRequested")
  BY <1>1, <1>2, AppendTells DEF TimelineKinds
<1>4. wait \notin Row(g).requests /\ wait.kind = "Remediation"
  BY AskedIsNew DEF Wait
<1> HIDE DEF wait, row
<1>5. /\ Approvals(row) = Approvals(Row(g))
      /\ row.requests \ Approvals(row) = (Row(g).requests \ Approvals(Row(g))) \cup {wait}
      /\ wait \notin Row(g).requests \ Approvals(Row(g))
  BY <1>2, <1>4 DEF Approvals
<1>6. IsFiniteSet(Row(g).requests) /\ IsFiniteSet(Row(g).requests \ Approvals(Row(g)))
  <2>1. Row(g).requests \ Approvals(Row(g)) \in SUBSET Row(g).requests
    OBVIOUS
  <2> QED
    BY <2>1, FS_Subset DEF TimelineHolds
<1>7. IsFiniteSet(row.requests)
  BY <1>2, <1>6, FS_AddElement
<1>8. Cardinality(row.requests \ Approvals(row))
          = Cardinality(Row(g).requests \ Approvals(Row(g))) + 1
  <2> DEFINE asked == Row(g).requests \ Approvals(Row(g))
  <2>1. /\ row.requests \ Approvals(row) = asked \cup {wait}
        /\ wait \notin asked /\ IsFiniteSet(asked)
    BY <1>5, <1>6
  <2> HIDE DEF asked
  <2>2. Cardinality(asked \cup {wait}) = Cardinality(asked) + 1
    BY <2>1, FS_AddElement
  <2> QED
    BY <2>1, <2>2 DEF asked
<1>9. /\ Entries(row, "RemediationRequested") = Entries(Row(g), "RemediationRequested") + 1
      /\ \A kind \in TimelineKinds \ {"RemediationRequested"} :
             Entries(row, kind) = Entries(Row(g), kind)
  BY <1>3 DEF Tells
<1> QED
  BY <1>1, <1>2, <1>5, <1>7, <1>8, <1>9 DEF TimelineHolds, Terminal, TimelineKinds, row

LEMMA ApprovalAskedTells ==
    ASSUME IInv, NEW g \in Handlers, pc[g] = "asking", TimelineHolds(Row(g))
    PROVE  TimelineHolds(Asked(g, "Approval", "WaitingForApproval", "ApprovalRequested"))
<1> DEFINE row == Asked(g, "Approval", "WaitingForApproval", "ApprovalRequested")
           wait == Wait("Approval", NextRound(g))
<1>1. Row(g) \in Rows /\ Row(g).phase = "Evaluating"
  BY TurnFacts DEF StateLeft
<1>2. /\ row.phase = "WaitingForApproval"
      /\ row.timeline = Append(Row(g).timeline, "ApprovalRequested")
      /\ row.rounds = Row(g).rounds /\ row.requests = Row(g).requests \cup {wait}
      /\ row.submissions = Row(g).submissions /\ row.response = Row(g).response
  BY <1>1 DEF Asked, Rows
<1>3. Tells(Row(g), row, "ApprovalRequested")
  BY <1>1, <1>2, AppendTells DEF TimelineKinds
<1>4. wait \notin Row(g).requests /\ wait.kind = "Approval"
  BY AskedIsNew DEF Wait
<1> HIDE DEF wait, row
<1>5. /\ Approvals(row) = Approvals(Row(g)) \cup {wait}
      /\ wait \notin Approvals(Row(g))
      /\ row.requests \ Approvals(row) = Row(g).requests \ Approvals(Row(g))
  BY <1>2, <1>4 DEF Approvals
<1>6. IsFiniteSet(Row(g).requests) /\ IsFiniteSet(Approvals(Row(g)))
  <2>1. Approvals(Row(g)) \in SUBSET Row(g).requests
    BY DEF Approvals
  <2> QED
    BY <2>1, FS_Subset DEF TimelineHolds
<1>7. IsFiniteSet(row.requests)
  BY <1>2, <1>6, FS_AddElement
<1>8. Cardinality(Approvals(row)) = Cardinality(Approvals(Row(g))) + 1
  BY <1>5, <1>6, FS_AddElement
<1>9. /\ Entries(row, "ApprovalRequested") = Entries(Row(g), "ApprovalRequested") + 1
      /\ \A kind \in TimelineKinds \ {"ApprovalRequested"} :
             Entries(row, kind) = Entries(Row(g), kind)
  BY <1>3 DEF Tells
<1> QED
  BY <1>1, <1>2, <1>5, <1>7, <1>8, <1>9 DEF TimelineHolds, Terminal, TimelineKinds, row

LEMMA DecidedTells ==
    ASSUME IInv, NEW g \in Handlers, Row(g).phase = "WaitingForApproval",
           TimelineHolds(Row(g))
    PROVE  TimelineHolds(Decided(g))
<1> DEFINE row == Decided(g)
           n == Len(Row(g).rounds)
<1>1. /\ TypeOK /\ Row(g) \in Rows /\ job[g] \in Jobs /\ n \in Nat
      /\ RequestsAgree(Row(g), n)
  BY TurnFacts DEF IInv
<1>2. /\ row.phase \in Terminal
      /\ row.timeline = Append(Row(g).timeline, "HumanResponseAccepted")
      /\ row.rounds = Row(g).rounds /\ row.requests = Row(g).requests
      /\ row.submissions = Row(g).submissions
      /\ row.response.round = Row(g).active.round
  BY <1>1 DEF Decided, Rows, Jobs, Responses, Terminal
<1>3. Tells(Row(g), row, "HumanResponseAccepted")
  BY <1>1, <1>2, AppendTells DEF TimelineKinds
<1>4. row.response # NoResponse
  <2>1. Row(g).active \in Row(g).requests /\ Row(g).active = Wait("Approval", n)
    BY <1>1 DEF RequestsAgree, Approvals
  <2>2. Row(g).active.round \in 1 .. n
    BY <1>1, <2>1 DEF RequestsAgree
  <2> HIDE DEF row, n
  <2>3. row.response.round # 0
    BY <1>1, <1>2, <2>2
  <2> QED
    BY <2>3 DEF NoResponse
<1>5. Approvals(row) = Approvals(Row(g))
  BY <1>2 DEF Approvals
<1> HIDE DEF row, n
<1>6. /\ Entries(row, "HumanResponseAccepted") = Entries(Row(g), "HumanResponseAccepted") + 1
      /\ \A kind \in TimelineKinds \ {"HumanResponseAccepted"} :
             Entries(row, kind) = Entries(Row(g), kind)
  BY <1>3 DEF Tells
<1> QED
  BY <1>2, <1>4, <1>5, <1>6 DEF TimelineHolds, Terminal, TimelineKinds, row

LEMMA FailedTells ==
    ASSUME IInv, NEW g \in Handlers, Row(g).phase \notin Ended, TimelineHolds(Row(g))
    PROVE  TimelineHolds(FailedRow(g))
<1> DEFINE row == FailedRow(g)
<1>1. /\ Row(g) \in Rows
      /\ row = [Row(g) EXCEPT !.phase = "Failed", !.timeline = Append(@, "WorkflowFailed")]
  BY TurnFacts, FailedAgrees DEF IInv
<1>2. /\ row.phase = "Failed" /\ row.timeline = Append(Row(g).timeline, "WorkflowFailed")
      /\ row.rounds = Row(g).rounds /\ row.requests = Row(g).requests
      /\ row.submissions = Row(g).submissions /\ row.response = Row(g).response
  BY <1>1 DEF Rows
<1> HIDE DEF row
<1>3. Tells(Row(g), row, "WorkflowFailed")
  BY <1>1, <1>2, AppendTells DEF TimelineKinds
<1>4. Approvals(row) = Approvals(Row(g))
  BY <1>2 DEF Approvals
<1>5. /\ Entries(row, "WorkflowFailed") = Entries(Row(g), "WorkflowFailed") + 1
      /\ \A kind \in TimelineKinds \ {"WorkflowFailed"} :
             Entries(row, kind) = Entries(Row(g), kind)
  BY <1>3 DEF Tells
<1> QED
  BY <1>2, <1>4, <1>5 DEF TimelineHolds, Terminal, Ended, TimelineKinds, row
-----------------------------------------------------------------------------
(* TInv.                                                                   *)

LEMMA WritesTell ==
    ASSUME IInv, NEW g \in Handlers, NEW row, Writes(g, row),
           TimelineHolds(Row(g)), Row(g).phase \notin Ended
    PROVE  TimelineHolds(row)
<1>1. /\ TypeOK /\ Row(g) \in Rows
      /\ RequestsAgree(Row(g), Len(Row(g).rounds))
  BY TurnFacts DEF IInv
<1>2. CASE row = [Row(g) EXCEPT !.correlation = Row(g).active]
  <2>1. /\ row.phase = Row(g).phase /\ row.timeline = Row(g).timeline
        /\ row.rounds = Row(g).rounds /\ row.requests = Row(g).requests
        /\ row.submissions = Row(g).submissions /\ row.response = Row(g).response
    BY <1>1, <1>2 DEF Rows
  <2> QED
    BY <2>1 DEF TimelineHolds, Entries, Approvals
<1> QED
  BY <1>1, <1>2, InsertedTells, AnsweredTells, EvaluatedTells, RemediationAskedTells,
     ApprovalAskedTells, DecidedTells, FailedTells DEF Writes

LEMMA TimelineStep == TInv /\ [Next]_vars => TInv'
<1> SUFFICES ASSUME TInv, [Next]_vars PROVE TInv'
  OBVIOUS
<1>1. IInv /\ IInv' /\ TypeOK
  BY InvariantStep DEF TInv, IInv
<1>2. ASSUME NEW r \in Releases PROVE TimelineHolds(db'[r])
  <2>1. CASE db'[r] = db[r]
    BY <2>1 DEF TInv
  <2>2. CASE db'[r] # db[r]
    <3>1. PICK g \in Handlers : Work(g)
      BY <1>1, <2>2, StepChanges
    <3>2. r = job[g].release /\ Writes(g, db'[r]) /\ db[r].phase \notin Ended
      BY <1>1, <2>2, <3>1, WorkWrites, WorkChanges
    <3>3. db[r] = Row(g) /\ TimelineHolds(Row(g))
      BY <3>2 DEF Row, TInv
    <3> QED
      BY <1>1, <3>2, <3>3, WritesTell
  <2> QED
    BY <2>1, <2>2
<1> QED
  BY <1>1, <1>2 DEF TInv

LEMMA TimelineInit == Init => TInv
<1> SUFFICES ASSUME Init PROVE TInv
  OBVIOUS
<1>1. IInv
  BY InvariantInit
<1>2. TimelineHolds(NoRelease)
  <2> DEFINE row == NoRelease
  <2>1. /\ row.phase = "None" /\ row.timeline = <<>> /\ row.rounds = <<>>
        /\ row.requests = {} /\ row.submissions = {} /\ row.response = NoResponse
    BY DEF NoRelease
  <2> HIDE DEF row
  <2>2. IsFiniteSet({}) /\ Cardinality({}) = 0
    BY FS_EmptySet
  <2>3. \A kind : Entries(row, kind) = 0
    <3>1. \A kind : {i \in 1 .. Len(row.timeline) : row.timeline[i] = kind} = {}
      <4>1. 1 .. Len(row.timeline) = {}
        BY <2>1
      <4> QED
        BY <4>1
    <3> QED
      BY <2>2, <3>1 DEF Entries
  <2>4. Approvals(row) = {} /\ row.requests \ Approvals(row) = {}
    BY <2>1 DEF Approvals
  <2> QED
    BY <2>1, <2>2, <2>3, <2>4 DEF TimelineHolds, Terminal, row
<1> QED
  BY <1>1, <1>2 DEF Init, TInv

(* The timeline accounts for every durable row, once each. *)
THEOREM TimelineAccountsForRowsCorrect == Spec => []TimelineAccountsForRows
<1>1. ASSUME TInv PROVE TimelineAccountsForRows
  BY <1>1 DEF TInv, TimelineHolds, TimelineAccountsForRows
<1> QED
  BY <1>1, TimelineInit, TimelineStep, PTL DEF Spec
=============================================================================
