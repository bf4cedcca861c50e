------------------- MODULE ReleaseWorkflowRefinement_proofs -----------------
(***************************************************************************)
(* ReleaseWorkflow implements ReleaseLifecycle, and for each release       *)
(* RoundEvaluation, for any releases, handlers, checks, verdicts, number   *)
(* of rounds and faults: every commit is one step of theirs or none, and   *)
(* every other step is none.                                               *)
(***************************************************************************)
EXTENDS ReleaseWorkflowEvidence_proofs
-----------------------------------------------------------------------------
(* RInv.                                                                   *)

\* Whatever led to it, a round is planned only when its question is answered.
LEMMA PlannedIsDue ==
    ASSUME RInv, NEW h \in Handlers, pc[h] \in {"planning", "saving"}
    PROVE  Row(h).submissions = 1 .. Len(Row(h).rounds)
<1> DEFINE row == Row(h)
           n == Len(Row(h).rounds)
<1>1. IInv /\ FormHolds(job[h], row) /\ job[h].kind \in {"submit", "remediate"}
  BY DEF RInv, FormsInv
<1>2. /\ row \in Rows /\ n \in Nat /\ RequestsAgree(row, n)
      /\ row.phase = "Evaluating" /\ job[h].round = n /\ JobFits(pc[h], job[h], row)
  BY <1>1, TurnFacts DEF StateLeft
<1>3. row.submissions \in {1 .. n, 1 .. n - 1}
  <2>1. job[h].release \in Releases
    BY <1>1, RowType DEF IInv
  <2> QED
    BY <2>1 DEF RInv, Alternates, Row
<1>4. CASE job[h].kind = "submit"
  <2>1. n = 0
    BY <1>2, <1>4 DEF JobFits
  <2> HIDE DEF n
  <2>2. 1 .. n = {} /\ 1 .. n - 1 = {}
    BY <2>1
  <2> QED
    BY <1>3, <2>2 DEF n
<1>5. CASE job[h].kind = "remediate"
  <2>1. Wait("Remediation", n) \in row.requests
    BY <1>1, <1>2, <1>5 DEF FormHolds
  <2>2. n \in row.submissions
    BY <1>2, <2>1 DEF RequestsAgree, Unanswered, Wait
  <2> HIDE DEF n, row
  <2>3. n \notin 1 .. n - 1
    BY <1>2
  <2> QED
    BY <1>3, <2>2, <2>3 DEF n, row
<1> QED
  BY <1>1, <1>4, <1>5

\* No commit breaks the order of rounds and answers.
LEMMA WritesAlternate ==
    ASSUME RInv, NEW g \in Handlers, NEW row, Writes(g, row)
    PROVE  Alternates(row)
<1> DEFINE n == Len(Row(g).rounds)
<1>1. /\ IInv /\ TypeOK /\ Row(g) \in Rows /\ job[g] \in Jobs /\ n \in Nat
      /\ RequestsAgree(Row(g), n) /\ Alternates(Row(g))
      /\ StateLeft(pc[g], job[g], Row(g), n)
  BY TurnFacts, RowType DEF RInv, FormsInv, IInv, Row
<1>2. ASSUME row.submissions = Row(g).submissions, row.rounds = Row(g).rounds,
             row.phase # "WaitingForRemediation"
      PROVE  Alternates(row)
  BY <1>1, <1>2 DEF Alternates
<1>3. CASE Row(g).phase = "None" /\ row = Inserted(g)
  BY <1>1, <1>2, <1>3 DEF Inserted, Rows
<1>4. CASE pc[g] = "answering" /\ Row(g).phase = "WaitingForRemediation" /\ row = Answered(g)
  <2>1. /\ row.phase = "Evaluating" /\ row.rounds = Row(g).rounds
        /\ job[g].round = n /\ n \in 1 .. n
    BY <1>1, <1>4, AnsweredAgrees DEF StateLeft, RequestsAgree, Unanswered, Wait
  <2>2. row.submissions = Row(g).submissions \cup {n}
    BY <1>1, <1>4, <2>1 DEF Answered, Rows
  <2>3. Row(g).submissions \in {1 .. n, 1 .. n - 1}
    BY <1>1 DEF Alternates
  <2> HIDE DEF n
  <2>4. row.submissions = 1 .. n
    BY <1>1, <2>1, <2>2, <2>3
  <2> QED
    BY <2>1, <2>4 DEF Alternates, n
<1>5. CASE pc[g] = "saving" /\ Row(g).phase = "Evaluating" /\ row = Evaluated(g)
  <2>1. Len(row.rounds) = n + 1 /\ row.phase = "Evaluating"
    BY <1>1, <1>5, EvaluatedAgrees
  <2>2. row.submissions = Row(g).submissions
    BY <1>1, <1>5 DEF Evaluated, Rows
  <2>3. row.submissions = 1 .. n
    BY <1>5, <2>2, PlannedIsDue
  <2> HIDE DEF n
  <2>4. 1 .. n = 1 .. (n + 1) - 1
    BY <1>1
  <2> QED
    BY <2>1, <2>3, <2>4 DEF Alternates
<1>6. CASE /\ pc[g] = "asking"
           /\ \E kind, phase, entry :
                  /\ row = Asked(g, kind, phase, entry)
                  /\ phase = "WaitingForRemediation" => ~AllPassed(Recorded(g))
  <2>1. PICK kind, phase, entry :
            /\ row = Asked(g, kind, phase, entry)
            /\ phase = "WaitingForRemediation" => ~AllPassed(Recorded(g))
    BY <1>6
  <2>2. /\ row.submissions = Row(g).submissions /\ row.rounds = Row(g).rounds
        /\ row.phase = phase
    BY <1>1, <2>1 DEF Asked, Rows
  <2>3. Latest(row) = Recorded(g)
    BY <1>1, <1>6, <2>2 DEF StateLeft, Latest, Recorded, NextRound
  <2> QED
    BY <1>1, <2>1, <2>2, <2>3 DEF Alternates
<1>7. CASE row = [Row(g) EXCEPT !.correlation = Row(g).active]
  <2>1. /\ row.submissions = Row(g).submissions /\ row.rounds = Row(g).rounds
        /\ row.phase = Row(g).phase
    BY <1>1, <1>7 DEF Rows
  <2> QED
    BY <1>1, <2>1 DEF Alternates, Latest
<1>8. CASE Row(g).phase = "WaitingForApproval" /\ row = Decided(g)
  BY <1>1, <1>2, <1>8 DEF Decided, Rows
<1>9. CASE row = FailedRow(g)
  BY <1>1, <1>2, <1>9, FailedAgrees DEF Rows
<1> QED
  BY <1>3, <1>4, <1>5, <1>6, <1>7, <1>8, <1>9 DEF Writes

\* RoundEvaluation plans and evaluates with the operators of RoundPlanning.
LEMMA SameOperators ==
    ASSUME NEW r, NEW previous, NEW rerun, NEW version, NEW history, NEW exhausted,
           NEW round
    PROVE  /\ Evaluation(r)!NoResult = NoResult
           /\ Evaluation(r)!Passed = Passed
           /\ Evaluation(r)!PlanningReason(previous, rerun, version)
                  = PlanningReason(previous, rerun, version)
           /\ Evaluation(r)!Evaluate(previous, rerun, history, exhausted, round)
                  = Evaluate(previous, rerun, history, exhausted, round)
<1>1. /\ Evaluation(r)!Executed = Executed /\ Evaluation(r)!Passed = Passed
      /\ Evaluation(r)!MissingEvidence = MissingEvidence
      /\ Evaluation(r)!TransientFailure = TransientFailure
  BY DEF Evaluation!Executed, Executed, Evaluation!Passed, Passed,
         Evaluation!MissingEvidence, MissingEvidence,
         Evaluation!TransientFailure, TransientFailure
<1>2. Evaluation(r)!NoResult = NoResult
  BY <1>1 DEF Evaluation!NoResult, NoResult
<1>3. \A p, again, v :
          Evaluation(r)!PlanningReason(p, again, v) = PlanningReason(p, again, v)
  BY <1>1, <1>2 DEF Evaluation!PlanningReason, PlanningReason
<1>4. Evaluation(r)!Execute(history, exhausted) = Execute(history, exhausted)
  BY <1>1 DEF Evaluation!Execute, Execute
<1>5. Evaluation(r)!Reuse(previous, round) = Reuse(previous, round)
  BY <1>1 DEF Evaluation!Reuse, Reuse
<1> QED
  BY <1>1, <1>2, <1>3, <1>4, <1>5 DEF Evaluation!Evaluate, Evaluate

\* What an execution or a reuse gives a check is one of the results it may
\* have, whether or not the provider is exhausted.
LEMMA EvaluateMayResult ==
    ASSUME NEW r, NEW past, NEW history \in Seq(Verdicts), NEW rerun, NEW c,
           NEW previous, previous = Evaluation(r)!PreviousResult(past, c),
           NEW exhausted, exhausted => history # <<>>
    PROVE  Evaluate(previous, rerun, history, exhausted, Len(past) + 1)
               \in Evaluation(r)!MayResult(past, history, rerun, c)
<1> DEFINE reason == PlanningReason(previous, rerun, Len(history))
           round == Len(past) + 1
<1>1. CASE reason = "UnchangedEvidence" \/ ~exhausted
  <2>1. Evaluate(previous, rerun, history, exhausted, round)
            = Evaluate(previous, rerun, history, FALSE, round)
    BY <1>1 DEF Evaluate, Execute
  <2>2. Evaluation(r)!Evaluate(previous, rerun, history, FALSE, round)
            = Evaluate(previous, rerun, history, FALSE, round)
    <3>1. Evaluation(r)!PlanningReason(previous, rerun, Len(history)) = reason
      BY SameOperators
    <3>2. Evaluation(r)!Reuse(previous, round) = Reuse(previous, round)
      BY SameOperators DEF Evaluation!Reuse, Reuse
    <3>3. Evaluation(r)!Execute(history, FALSE) = Execute(history, FALSE)
      BY DEF Evaluation!Execute, Execute, Evaluation!Executed, Executed,
             Evaluation!MissingEvidence, MissingEvidence
    <3> QED
      BY <3>1, <3>2, <3>3 DEF Evaluation!Evaluate, Evaluate
  <2>3. Evaluation(r)!Evaluate(previous, rerun, history, FALSE, round)
            \in Evaluation(r)!MayResult(past, history, rerun, c)
    BY DEF Evaluation!MayResult
  <2> QED
    BY <2>1, <2>2, <2>3, Zenon
<1>2. CASE reason # "UnchangedEvidence" /\ exhausted
  <2>1. /\ Evaluation(r)!TransientFailure = TransientFailure
        /\ Evaluation(r)!Executed = Executed
    BY DEF Evaluation!TransientFailure, TransientFailure, Evaluation!Executed, Executed
  <2>2. Evaluate(previous, rerun, history, exhausted, round)
            = Evaluation(r)!Exhausted(Len(history))
    BY <1>2, <2>1 DEF Evaluate, Execute, Evaluation!Exhausted
  <2>3. Len(history) \in 1 .. Len(history)
    BY <1>2
  <2>4. Evaluation(r)!PlanningReason(previous, rerun, Len(history)) = reason
    BY SameOperators
  <2>5. Evaluation(r)!Exhausted(Len(history))
            \in Evaluation(r)!MayResult(past, history, rerun, c)
    BY <1>2, <2>3, <2>4 DEF Evaluation!MayResult
  <2> QED
    BY <2>2, <2>5
<1> QED
  BY <1>1, <1>2

\* So PlanRound gives every check a result it may have.
LEMMA PlannedMayResult ==
    ASSUME IInv, NEW g \in Handlers, PlanAccepted(g), NEW c \in Checks,
           NEW rerun, NEW exhausted, exhausted => Row(g).evidence[c] # <<>>
    PROVE  Evaluate(Previous(g, c), rerun, Row(g).evidence[c], exhausted, NextRound(g))
               \in Evaluation(job[g].release)!MayResult(
                       Row(g).rounds, Row(g).evidence[c], rerun, c)
<1>1. /\ Previous(g, c) = Evaluation(job[g].release)!PreviousResult(Row(g).rounds, c)
      /\ NextRound(g) = Len(Row(g).rounds) + 1
  BY SameOperators DEF Previous, Latest, PlanAccepted, Evaluation!PreviousResult
<1>2. Row(g).evidence[c] \in Seq(Verdicts)
  BY TurnFacts DEF Rows
<1> QED
  BY <1>1, <1>2, EvaluateMayResult

LEMMA RefinementStep == RInv /\ [Next]_vars => RInv'
<1> SUFFICES ASSUME RInv, [Next]_vars PROVE RInv'
  OBVIOUS
<1>1. FormsInv' /\ IInv /\ TypeOK
  BY FormsStep DEF RInv, FormsInv, IInv
<1>2. ASSUME NEW r \in Releases PROVE Alternates(db'[r])
  <2>1. CASE db'[r] = db[r]
    BY <2>1 DEF RInv
  <2>2. CASE db'[r] # db[r]
    <3>1. PICK g \in Handlers : Work(g)
      BY <1>1, <2>2, StepChanges
    <3> QED
      BY <1>1, <2>2, <3>1, WorkWrites, WritesAlternate
  <2> QED
    BY <2>1, <2>2
<1>3. ASSUME NEW h \in Handlers, pc'[h] = "saving"
      PROVE  MayResults(job'[h], db'[job'[h].release])
  <2>1. CASE job'[h] = job[h] /\ pc[h] = "saving"
    <3>1. db'[job[h].release] = db[job[h].release]
      BY <1>1, <1>3, <2>1, SavingUndisturbed
    <3> QED
      BY <2>1, <3>1 DEF RInv, Row
  <2>2. CASE PlanRound(h) /\ PlanAccepted(h)
    <3>1. job[h].release \in Releases /\ db' = db /\ job[h] \in Jobs
      BY <1>1, <2>2, RowType DEF PlanRound
    <3>2. PICK exhausted \in
                   SUBSET {c \in Checks : "transient" \in Faults
                                          /\ Row(h).evidence[c] # <<>>} :
             job' = [job EXCEPT ![h].results =
                         [c \in Checks |->
                             Evaluate(Previous(h, c), c \in job[h].rerun,
                                      Row(h).evidence[c], c \in exhausted,
                                      NextRound(h))]]
      BY <2>2 DEF PlanRound
    <3> DEFINE results == [c \in Checks |->
                              Evaluate(Previous(h, c), c \in job[h].rerun,
                                       Row(h).evidence[c], c \in exhausted,
                                       NextRound(h))]
    <3>3. ASSUME NEW c \in Checks
          PROVE  results[c] \in Evaluation(job[h].release)!MayResult(
                     Row(h).rounds, Row(h).evidence[c], c \in job[h].rerun, c)
      <4> DEFINE again == c \in job[h].rerun
                 fails == c \in exhausted
      <4>1. fails => Row(h).evidence[c] # <<>>
        BY <3>2
      <4>2. results[c] = Evaluate(Previous(h, c), again, Row(h).evidence[c], fails,
                                  NextRound(h))
        OBVIOUS
      <4> HIDE DEF again, fails, results
      <4>3. results[c] \in Evaluation(job[h].release)!MayResult(
                               Row(h).rounds, Row(h).evidence[c], again, c)
        BY <1>1, <2>2, <4>1, <4>2, PlannedMayResult
      <4> QED
        BY <4>3 DEF again
    <3>4. job' = [job EXCEPT ![h].results = results]
      BY <3>2
    <3> HIDE DEF results
    <3>5. /\ job'[h].results = results /\ job'[h].release = job[h].release
          /\ job'[h].rerun = job[h].rerun
      BY <1>1, <3>1, <3>4 DEF TypeOK, Jobs
    <3> QED
      BY <3>1, <3>3, <3>5 DEF MayResults, Row
  <2> QED
    BY <1>1, <1>3, <2>1, <2>2, StepMoves DEF TaskMoves
<1> QED
  BY <1>1, <1>2, <1>3 DEF RInv, Row

LEMMA RefinementInit == Init => RInv
<1> SUFFICES ASSUME Init PROVE RInv
  OBVIOUS
<1>1. FormsInv
  BY FormsInit
<1>2. Alternates(NoRelease)
  BY DEF Alternates, NoRelease
<1> QED
  BY <1>1, <1>2 DEF Init, RInv

LEMMA RefinementInvariant == Spec => []RInv
<1> QED
  BY RefinementInit, RefinementStep, PTL DEF Spec
-----------------------------------------------------------------------------
(* The lifecycle.                                                          *)

\* What Lifecycle sees of a release.
Passing(row) == row.rounds # <<>> /\ AllPassed(Latest(row))

\* An answer is one more, counting from none.
LEMMA AnswersCounted ==
    ASSUME NEW n \in Nat
    PROVE  Cardinality(1 .. n) = n
BY FS_Interval

\* A step of one release only.
OneChanges(r) == \A q \in Releases \ {r} : db'[q] = db[q]

LEMMA OneChangesAtATime ==
    ASSUME IInv, [Next]_vars, NEW r \in Releases, db'[r] # db[r]
    PROVE  /\ OneChanges(r)
           /\ \E g \in Handlers : r = job[g].release /\ Writes(g, db'[r])
<1>1. PICK g \in Handlers : Work(g)
  BY StepChanges
<1>2. \A q \in Releases : db'[q] # db[q] => q = job[g].release
  BY <1>1, WorkWrites
<1>3. r = job[g].release /\ Writes(g, db'[r])
  BY <1>1, WorkWrites
<1> QED
  BY <1>2, <1>3 DEF OneChanges

\* How the parts of Lifecycle's state follow those of one row.
LEMMA LifecycleFollows ==
    ASSUME NEW r \in Releases, OneChanges(r)
    PROVE  /\ [q \in Releases |-> db'[q].phase]
                  = [[q \in Releases |-> db[q].phase] EXCEPT ![r] = db'[r].phase]
           /\ [q \in Releases |-> Len(db'[q].rounds)]
                  = [[q \in Releases |-> Len(db[q].rounds)] EXCEPT ![r] = Len(db'[r].rounds)]
           /\ [q \in Releases |-> Cardinality(db'[q].submissions)]
                  = [[q \in Releases |-> Cardinality(db[q].submissions)]
                        EXCEPT ![r] = Cardinality(db'[r].submissions)]
           /\ [q \in Releases |-> Passing(db'[q])]
                  = [[q \in Releases |-> Passing(db[q])] EXCEPT ![r] = Passing(db'[r])]
BY DEF OneChanges

LEMMA LifecycleKeeps ==
    ASSUME NEW r \in Releases, OneChanges(r)
    PROVE  /\ db'[r].rounds = db[r].rounds =>
                  /\ [q \in Releases |-> Len(db'[q].rounds)]
                         = [q \in Releases |-> Len(db[q].rounds)]
                  /\ [q \in Releases |-> Passing(db'[q])]
                         = [q \in Releases |-> Passing(db[q])]
           /\ db'[r].submissions = db[r].submissions =>
                  [q \in Releases |-> Cardinality(db'[q].submissions)]
                      = [q \in Releases |-> Cardinality(db[q].submissions)]
<1>1. ASSUME db'[r].rounds = db[r].rounds, NEW q \in Releases
      PROVE  Len(db'[q].rounds) = Len(db[q].rounds) /\ Passing(db'[q]) = Passing(db[q])
  <2>1. db'[q].rounds = db[q].rounds
    BY <1>1 DEF OneChanges
  <2> QED
    BY <2>1 DEF Passing, Latest
<1>2. ASSUME db'[r].submissions = db[r].submissions, NEW q \in Releases
      PROVE  Cardinality(db'[q].submissions) = Cardinality(db[q].submissions)
  <2>1. db'[q].submissions = db[q].submissions
    BY <1>2 DEF OneChanges
  <2> QED
    BY <2>1
<1> QED
  BY <1>1, <1>2

\* A step that changes one release's phase, and neither rounds nor answers.
LEMMA PhaseStep ==
    ASSUME NEW r \in Releases, OneChanges(r),
           db'[r].rounds = db[r].rounds, db'[r].submissions = db[r].submissions,
           \/ db[r].phase = "None" /\ db'[r].phase = "Evaluating"
           \/ /\ db[r].phase = "Evaluating" /\ db'[r].phase = "WaitingForRemediation"
              /\ Len(db[r].rounds) = Cardinality(db[r].submissions) + 1
              /\ ~Passing(db[r])
           \/ /\ db[r].phase = "Evaluating" /\ db'[r].phase = "WaitingForApproval"
              /\ Len(db[r].rounds) = Cardinality(db[r].submissions) + 1
              /\ Passing(db[r])
           \/ /\ db[r].phase = "WaitingForApproval"
              /\ db'[r].phase \in {"Approved", "Rejected"}
           \/ /\ db[r].phase \notin {"None", "Approved", "Rejected", "Failed"}
              /\ db'[r].phase = "Failed"
    PROVE  Lifecycle!Next
<1> DEFINE phase == [q \in Releases |-> db[q].phase]
           phaseAfter == [q \in Releases |-> db'[q].phase]
<1>1. phase[r] = db[r].phase /\ phaseAfter = [phase EXCEPT ![r] = db'[r].phase]
  BY LifecycleFollows
<1>2. UNCHANGED <<[q \in Releases |-> Len(db[q].rounds)],
                  [q \in Releases |-> Cardinality(db[q].submissions)],
                  [q \in Releases |-> Passing(db[q])]>>
  BY LifecycleKeeps
<1>3. /\ [q \in Releases |-> Len(db[q].rounds)][r] = Len(db[r].rounds)
      /\ [q \in Releases |-> Cardinality(db[q].submissions)][r]
             = Cardinality(db[r].submissions)
      /\ [q \in Releases |-> Passing(db[q])][r] = Passing(db[r])
  OBVIOUS
<1>4. CASE db[r].phase = "None" /\ db'[r].phase = "Evaluating"
  <2>1. Lifecycle!Submit(r)
    BY <1>1, <1>2, <1>4 DEF Lifecycle!Submit, Lifecycle!Enter, Passing
  <2> QED
    BY <2>1 DEF Lifecycle!Next
<1>5. CASE /\ db[r].phase = "Evaluating" /\ db'[r].phase = "WaitingForRemediation"
           /\ Len(db[r].rounds) = Cardinality(db[r].submissions) + 1
           /\ ~Passing(db[r])
  <2>1. Lifecycle!AskRemediation(r)
    BY <1>1, <1>2, <1>3, <1>5 DEF Lifecycle!AskRemediation, Lifecycle!Enter, Passing
  <2> QED
    BY <2>1 DEF Lifecycle!Next
<1>6. CASE /\ db[r].phase = "Evaluating" /\ db'[r].phase = "WaitingForApproval"
           /\ Len(db[r].rounds) = Cardinality(db[r].submissions) + 1
           /\ Passing(db[r])
  <2>1. Lifecycle!AskApproval(r)
    BY <1>1, <1>2, <1>3, <1>6 DEF Lifecycle!AskApproval, Lifecycle!Enter, Passing
  <2> QED
    BY <2>1 DEF Lifecycle!Next
<1>7. CASE db[r].phase = "WaitingForApproval" /\ db'[r].phase \in {"Approved", "Rejected"}
  <2>1. Lifecycle!Decide(r)
    BY <1>1, <1>2, <1>7 DEF Lifecycle!Decide, Lifecycle!Enter, Passing
  <2> QED
    BY <2>1 DEF Lifecycle!Next
<1>8. CASE /\ db[r].phase \notin {"None", "Approved", "Rejected", "Failed"}
           /\ db'[r].phase = "Failed"
  <2>1. Lifecycle!Fail(r)
    BY <1>1, <1>2, <1>8 DEF Lifecycle!Fail, Lifecycle!Ended, Passing
  <2> QED
    BY <2>1 DEF Lifecycle!Next
<1> QED
  BY <1>4, <1>5, <1>6, <1>7, <1>8

\* A step that completes a round.
LEMMA RoundStep ==
    ASSUME NEW r \in Releases, OneChanges(r),
           db[r].phase = "Evaluating", db'[r].phase = "Evaluating",
           db'[r].submissions = db[r].submissions,
           Len(db[r].rounds) = Cardinality(db[r].submissions),
           Len(db'[r].rounds) = Len(db[r].rounds) + 1
    PROVE  Lifecycle!Next
<1>1. UNCHANGED <<[q \in Releases |-> db[q].phase],
                  [q \in Releases |-> Cardinality(db[q].submissions)]>>
  <2>1. \A q \in Releases : db'[q].phase = db[q].phase
    BY DEF OneChanges
  <2> QED
    BY <2>1, LifecycleKeeps
<1>2. /\ [q \in Releases |-> db[q].phase][r] = "Evaluating"
      /\ [q \in Releases |-> Len(db[q].rounds)][r]
             = [q \in Releases |-> Cardinality(db[q].submissions)][r]
  OBVIOUS
<1>3. [q \in Releases |-> Len(db'[q].rounds)]
          = [[q \in Releases |-> Len(db[q].rounds)] EXCEPT ![r] = @ + 1]
  BY LifecycleFollows
<1>4. \E verdict \in BOOLEAN :
          [q \in Releases |-> Passing(db'[q])]
              = [[q \in Releases |-> Passing(db[q])] EXCEPT ![r] = verdict]
  <2>1. Passing(db'[r]) \in BOOLEAN
    BY DEF Passing
  <2> QED
    BY <2>1, LifecycleFollows
<1>5. Lifecycle!Evaluate(r)
  BY <1>1, <1>2, <1>3, <1>4 DEF Lifecycle!Evaluate, Passing
<1> QED
  BY <1>5 DEF Lifecycle!Next

\* A step that takes an answer.
LEMMA AnswerTaken ==
    ASSUME NEW r \in Releases, OneChanges(r),
           db[r].phase = "WaitingForRemediation", db'[r].phase = "Evaluating",
           db'[r].rounds = db[r].rounds,
           Cardinality(db'[r].submissions) = Cardinality(db[r].submissions) + 1
    PROVE  Lifecycle!Next
<1>1. UNCHANGED <<[q \in Releases |-> Len(db[q].rounds)],
                  [q \in Releases |-> Passing(db[q])]>>
  BY LifecycleKeeps
<1>2. /\ [q \in Releases |-> db[q].phase][r] = "WaitingForRemediation"
      /\ [q \in Releases |-> db'[q].phase]
             = [[q \in Releases |-> db[q].phase] EXCEPT ![r] = "Evaluating"]
  BY LifecycleFollows
<1>3. [q \in Releases |-> Cardinality(db'[q].submissions)]
          = [[q \in Releases |-> Cardinality(db[q].submissions)] EXCEPT ![r] = @ + 1]
  BY LifecycleFollows
<1>4. Lifecycle!Answer(r)
  BY <1>1, <1>2, <1>3 DEF Lifecycle!Answer, Lifecycle!Enter, Passing
<1> QED
  BY <1>4 DEF Lifecycle!Next

\* What a turn that asks finds: the latest round is recorded and unanswered.
LEMMA AskedAfterRound ==
    ASSUME RInv, NEW g \in Handlers, pc[g] = "asking"
    PROVE  /\ Row(g).phase = "Evaluating" /\ Row(g).rounds # <<>>
           /\ Recorded(g) = Latest(Row(g))
           /\ Row(g).submissions = 1 .. Len(Row(g).rounds) - 1
           /\ Len(Row(g).rounds) = Cardinality(Row(g).submissions) + 1
<1> DEFINE n == Len(Row(g).rounds)
<1>1. /\ IInv /\ job[g] \in Jobs /\ n \in Nat /\ Alternates(Row(g))
      /\ StateLeft(pc[g], job[g], Row(g), n)
  BY TurnFacts, RowType DEF RInv, FormsInv, IInv, Row
<1>2. Row(g).phase = "Evaluating" /\ job[g].round + 1 = n /\ n \notin Row(g).submissions
  BY <1>1 DEF StateLeft
<1>3. Recorded(g) = Latest(Row(g))
  BY <1>2 DEF Recorded, Latest, NextRound
<1> HIDE DEF n
<1>4. n # 0 /\ n \in 1 .. n
  BY <1>1, <1>2 DEF Jobs
<1>5. Row(g).submissions = 1 .. n - 1
  BY <1>1, <1>2, <1>4 DEF Alternates, n
<1>6. Cardinality(1 .. n - 1) = n - 1
  <2>1. n - 1 \in Nat
    BY <1>1, <1>4
  <2> QED
    BY <2>1, AnswersCounted
<1>7. n = Cardinality(Row(g).submissions) + 1
  BY <1>1, <1>5, <1>6
<1>8. Row(g).rounds # <<>>
  <2>1. Len(<<>>) = 0
    OBVIOUS
  <2> QED
    BY <1>4, <2>1 DEF n
<1> QED
  BY <1>2, <1>3, <1>5, <1>7, <1>8 DEF n

\* A release that a turn fails exists and has not ended.
LEMMA FailedWasLive ==
    ASSUME IInv, [Next]_vars, NEW r \in Releases, NEW g \in Handlers,
           r = job[g].release, pc[g] = "failing",
           db'[r] = FailedRow(g), db'[r] # db[r]
    PROVE  db[r].phase \notin {"None", "Approved", "Rejected", "Failed"}
<1>1. db[r].phase \notin Ended
  BY StepChanges, WorkChanges
<1>2. Row(g).phase # "None"
  <2>1. JobFits(pc[g], job[g], Row(g)) /\ RequestsAgree(Row(g), Len(Row(g).rounds))
        /\ job[g] \in Jobs
    BY TurnFacts
  <2>2. CASE job[g].kind = "submit"
    BY <2>1, <2>2 DEF JobFits
  <2>3. CASE job[g].kind # "submit"
    <3>1. job[g].kind \in {"remediate", "decide", "view"}
      BY <2>1, <2>3 DEF JobFits, Jobs
    <3> QED
      BY <2>1, <3>1 DEF JobFits, RequestsAgree
  <2> QED
    BY <2>2, <2>3
<1> QED
  BY <1>1, <1>2 DEF Ended, Terminal, Row

LEMMA LifecycleStep == RInv /\ [Next]_vars => [Lifecycle!Next]_(Lifecycle!vars)
<1> SUFFICES ASSUME RInv, [Next]_vars PROVE [Lifecycle!Next]_(Lifecycle!vars)
  OBVIOUS
<1>1. IInv /\ TypeOK /\ TypeOK'
  BY InvariantStep DEF RInv, FormsInv, IInv
<1>2. CASE \A r \in Releases : db'[r] = db[r]
  BY <1>2 DEF Lifecycle!vars
<1>3. ASSUME NEW r \in Releases, db'[r] # db[r]
      PROVE  [Lifecycle!Next]_(Lifecycle!vars)
  <2> DEFINE n == Len(db[r].rounds)
             row == db'[r]
  <2>1. PICK g \in Handlers : r = job[g].release /\ Writes(g, row)
    BY <1>1, <1>3, OneChangesAtATime
  <2>2. /\ OneChanges(r) /\ db[r] = Row(g) /\ Row(g) \in Rows /\ job[g] \in Jobs
        /\ RequestsAgree(Row(g), n) /\ n \in Nat
        /\ StateLeft(pc[g], job[g], Row(g), n)
    BY <1>1, <1>3, <2>1, OneChangesAtATime, TurnFacts DEF Row
  <2>3. CASE Row(g).phase = "None" /\ row = Inserted(g)
    <3>1. /\ row.rounds = db[r].rounds /\ row.submissions = db[r].submissions
          /\ db[r].phase = "None" /\ row.phase = "Evaluating"
      BY <2>2, <2>3 DEF Inserted, Rows
    <3> QED
      BY <2>2, <3>1, PhaseStep
  <2>4. CASE pc[g] = "answering" /\ Row(g).phase = "WaitingForRemediation" /\ row = Answered(g)
    <3>0. /\ row.phase = "Evaluating" /\ row.rounds = db[r].rounds
          /\ job[g].round = n
      BY <1>1, <2>2, <2>4, AnsweredAgrees DEF StateLeft
    <3>1. n \in 1 .. n /\ n \notin Row(g).submissions
      <4>1. Wait("Remediation", n) \in Unanswered(Row(g))
        BY <2>2, <2>4 DEF RequestsAgree
      <4>2. Wait("Remediation", n) \in Row(g).requests /\ n \notin Row(g).submissions
        BY <4>1 DEF Unanswered, Wait
      <4> QED
        BY <2>2, <4>2 DEF RequestsAgree, Wait
    <3>2. row.submissions = Row(g).submissions \cup {n}
      BY <2>2, <2>4, <3>0 DEF Answered, Rows
    <3>3. Row(g).submissions \in {1 .. n, 1 .. n - 1}
      BY <2>2 DEF RInv, Alternates
    <3> HIDE DEF n, row
    <3>4. row.submissions = 1 .. n /\ Row(g).submissions = 1 .. n - 1 /\ n - 1 \in Nat
      BY <2>2, <3>1, <3>2, <3>3
    <3>5. Cardinality(row.submissions) = n /\ Cardinality(Row(g).submissions) = n - 1
      BY <2>2, <3>4, AnswersCounted
    <3>6. Cardinality(row.submissions) = Cardinality(Row(g).submissions) + 1
      BY <2>2, <3>5
    <3> QED
      BY <2>2, <2>4, <3>0, <3>6, AnswerTaken DEF row
  <2>5. CASE pc[g] = "saving" /\ Row(g).phase = "Evaluating" /\ row = Evaluated(g)
    <3>1. Len(row.rounds) = n + 1 /\ row.phase = "Evaluating"
      BY <1>1, <2>2, <2>5, EvaluatedAgrees
    <3>2. row.submissions = db[r].submissions
      BY <2>2, <2>5 DEF Evaluated, Rows
    <3>3. Cardinality(db[r].submissions) = n
      BY <2>2, <2>5, PlannedIsDue, AnswersCounted
    <3> QED
      BY <2>2, <2>5, <3>1, <3>2, <3>3, RoundStep
  <2>6. CASE /\ pc[g] = "asking" /\ ~AllPassed(Recorded(g))
             /\ row = Asked(g, "Remediation", "WaitingForRemediation",
                            "RemediationRequested")
    <3>1. /\ row.phase = "WaitingForRemediation"
          /\ row.rounds = db[r].rounds /\ row.submissions = db[r].submissions
      BY <2>2, <2>6 DEF Asked, Rows
    <3>2. ~Passing(db[r])
      BY <2>2, <2>6, AskedAfterRound DEF Passing
    <3> QED
      BY <2>2, <2>6, <3>1, <3>2, AskedAfterRound, PhaseStep
  <2>7. CASE /\ pc[g] = "asking" /\ AllPassed(Recorded(g))
             /\ row = Asked(g, "Approval", "WaitingForApproval", "ApprovalRequested")
    <3>1. /\ row.phase = "WaitingForApproval"
          /\ row.rounds = db[r].rounds /\ row.submissions = db[r].submissions
      BY <2>2, <2>7 DEF Asked, Rows
    <3>2. Passing(db[r])
      BY <2>2, <2>7, AskedAfterRound DEF Passing
    <3> QED
      BY <2>2, <2>7, <3>1, <3>2, AskedAfterRound, PhaseStep
  <2>8. CASE row = [Row(g) EXCEPT !.correlation = Row(g).active]
    <3>1. /\ row.phase = db[r].phase /\ row.rounds = db[r].rounds
          /\ row.submissions = db[r].submissions
      BY <2>2, <2>8 DEF Rows
    <3>2. \A q \in Releases : db'[q].phase = db[q].phase
      BY <2>2, <3>1 DEF OneChanges
    <3> QED
      BY <2>2, <3>1, <3>2, LifecycleKeeps DEF Lifecycle!vars, Passing
  <2>9. CASE Row(g).phase = "WaitingForApproval" /\ row = Decided(g)
    <3>1. /\ row.phase \in {"Approved", "Rejected"}
          /\ row.rounds = db[r].rounds /\ row.submissions = db[r].submissions
      BY <2>2, <2>9 DEF Decided, Rows
    <3> QED
      BY <2>2, <2>9, <3>1, PhaseStep
  <2>10. CASE pc[g] = "failing" /\ row = FailedRow(g)
    <3>1. db[r].phase \notin {"None", "Approved", "Rejected", "Failed"}
      BY <1>1, <1>3, <2>1, <2>10, FailedWasLive
    <3>2. /\ row.phase = "Failed"
          /\ row.rounds = db[r].rounds /\ row.submissions = db[r].submissions
      <4>1. row = [Row(g) EXCEPT !.phase = "Failed",
                                 !.timeline = Append(@, "WorkflowFailed")]
        BY <1>1, <2>2, <2>10, FailedAgrees
      <4> QED
        BY <2>2, <4>1 DEF Rows
    <3> QED
      BY <2>2, <3>1, <3>2, PhaseStep
  <2> QED
    BY <2>1, <2>3, <2>4, <2>5, <2>6, <2>7, <2>8, <2>9, <2>10 DEF Writes
<1> QED
  BY <1>2, <1>3

LEMMA LifecycleInit == Init => Lifecycle!Init
<1> SUFFICES ASSUME Init PROVE Lifecycle!Init
  OBVIOUS
<1>1. /\ NoRelease.phase = "None" /\ NoRelease.rounds = <<>>
      /\ NoRelease.submissions = {}
  BY DEF NoRelease
<1>2. Cardinality({}) = 0
  BY FS_EmptySet
<1>3. \A r \in Releases : db[r] = NoRelease
  BY DEF Init
<1>4. [r \in Releases |-> db[r].phase] = [r \in Releases |-> "None"]
  BY <1>1, <1>3
<1>5. [r \in Releases |-> Len(db[r].rounds)] = [r \in Releases |-> 0]
  BY <1>1, <1>3
<1>6. [r \in Releases |-> Cardinality(db[r].submissions)] = [r \in Releases |-> 0]
  BY <1>1, <1>2, <1>3
<1>7. [r \in Releases |-> Passing(db[r])] = [r \in Releases |-> FALSE]
  BY <1>1, <1>3 DEF Passing
<1> QED
  BY <1>4, <1>5, <1>6, <1>7 DEF Lifecycle!Init, Passing

(* The workflow implements ReleaseLifecycle. *)
THEOREM ImplementsLifecycleCorrect == Spec => ImplementsLifecycle
<1> QED
  BY LifecycleInit, LifecycleStep, RefinementInvariant, PTL
     DEF Spec, ImplementsLifecycle, Lifecycle!Spec
-----------------------------------------------------------------------------
(* Rounds.                                                                 *)

\* A branch's history and the same with one posted record are extensions.
LEMMA ExtensionsOf ==
    ASSUME NEW r, NEW history, NEW fill \in Verdicts
    PROVE  /\ history \in Evaluation(r)!Extensions(history)
           /\ Append(history, fill) \in Evaluation(r)!Extensions(history)
BY DEF Evaluation!Extensions

LEMMA SubmitRefines ==
    ASSUME TypeOK, NEW g \in Handlers, NEW r \in Releases, db[r] = Row(g),
           Row(g).phase = "None", RequestsAgree(Row(g), Len(Row(g).rounds)),
           db'[r] = Inserted(g)
    PROVE  Evaluation(r)!Next
<1>1. Row(g) \in Rows /\ job[g] \in Jobs
  BY RowType
<1>2. Row(g).rounds = <<>>
  BY <1>1 DEF RequestsAgree, Rows
<1>3. /\ db'[r].phase = "Evaluating" /\ db'[r].rounds = Row(g).rounds
      /\ db'[r].evidence = FirstRecords(job[g].fill)
  BY <1>1 DEF Inserted, Rows
<1>4. RoundStatus(db[r]) = "none" /\ RoundStatus(db'[r]) = "due"
  BY <1>2, <1>3 DEF RoundStatus
<1>5. ASSUME NEW c \in Checks
      PROVE  FirstRecords(job[g].fill)[c] \in Evaluation(r)!Extensions(<<>>)
  <2>1. CASE job[g].fill[c] = NoEvidence
    BY <2>1 DEF FirstRecords, Evaluation!Extensions
  <2>2. CASE job[g].fill[c] # NoEvidence
    <3>1. job[g].fill[c] \in Verdicts
      BY <1>1, <2>2 DEF Jobs
    <3>2. Append(<<>>, job[g].fill[c]) = <<job[g].fill[c]>>
      OBVIOUS
    <3> QED
      BY <2>2, <3>1, <3>2, ExtensionsOf DEF FirstRecords
  <2> QED
    BY <2>1, <2>2
<1>6. DOMAIN FirstRecords(job[g].fill) = Checks
  BY DEF FirstRecords
<1>7. Evaluation(r)!Submit
  BY <1>3, <1>4, <1>5, <1>6 DEF Evaluation!Submit
<1> QED
  BY <1>7 DEF Evaluation!Next

LEMMA AnswerRefines ==
    ASSUME RInv, NEW g \in Handlers, NEW r \in Releases, db[r] = Row(g),
           pc[g] = "answering", Row(g).phase = "WaitingForRemediation",
           db'[r] = Answered(g)
    PROVE  Evaluation(r)!Next
<1> DEFINE n == Len(Row(g).rounds)
<1>1. /\ IInv /\ TypeOK /\ Row(g) \in Rows /\ job[g] \in Jobs /\ n \in Nat
      /\ RequestsAgree(Row(g), n) /\ StateLeft(pc[g], job[g], Row(g), n)
      /\ ~AllPassed(Latest(Row(g)))
  BY TurnFacts DEF RInv, FormsInv, IInv, Alternates
<1>2. /\ db'[r].phase = "Evaluating" /\ db'[r].rounds = Row(g).rounds
      /\ job[g].round = n
  BY <1>1, AnsweredAgrees DEF StateLeft
<1>3. /\ db'[r].submissions = Row(g).submissions \cup {n}
      /\ db'[r].evidence = [c \in Checks |->
             IF job[g].fill[c] = NoEvidence
             THEN Row(g).evidence[c] ELSE Append(Row(g).evidence[c], job[g].fill[c])]
  BY <1>1, <1>2 DEF Answered, Rows
<1>4. RoundStatus(db[r]) = "done" /\ RoundStatus(db'[r]) = "due"
  BY <1>2, <1>3 DEF RoundStatus
<1>5. ASSUME NEW c \in Checks
      PROVE  db'[r].evidence[c] \in Evaluation(r)!Extensions(db[r].evidence[c])
  <2>1. CASE job[g].fill[c] = NoEvidence
    BY <1>3, <2>1 DEF Evaluation!Extensions
  <2>2. CASE job[g].fill[c] # NoEvidence
    <3>1. job[g].fill[c] \in Verdicts
      BY <1>1, <2>2 DEF Jobs
    <3> QED
      BY <1>3, <2>2, <3>1, ExtensionsOf
  <2> QED
    BY <2>1, <2>2
<1>6. DOMAIN db'[r].evidence = Checks
  BY <1>3
<1>7. \E c \in Checks :
          db[r].rounds[Len(db[r].rounds)][c].outcome # Evaluation(r)!Passed
  BY <1>1 DEF AllPassed, Latest, Evaluation!Passed, Passed
<1>8. Evaluation(r)!Remediate
  BY <1>2, <1>4, <1>5, <1>6, <1>7 DEF Evaluation!Remediate
<1> QED
  BY <1>8 DEF Evaluation!Next

LEMMA RoundRefines ==
    ASSUME RInv, NEW g \in Handlers, NEW r \in Releases, db[r] = Row(g),
           r = job[g].release,
           pc[g] = "saving", Row(g).phase = "Evaluating",
           db'[r] = Evaluated(g)
    PROVE  Evaluation(r)!Next
<1> DEFINE n == Len(Row(g).rounds)
           May(c) == Evaluation(r)!MayResult(db[r].rounds, db[r].evidence[c],
                                             c \in job[g].rerun, c)
<1>1. /\ IInv /\ TypeOK /\ Row(g) \in Rows /\ job[g] \in Jobs /\ n \in Nat
      /\ RequestsAgree(Row(g), n)
  BY TurnFacts DEF RInv, FormsInv, IInv
<1>2. /\ Len(db'[r].rounds) = n + 1 /\ db'[r].phase = "Evaluating"
      /\ n + 1 \notin db'[r].submissions
  BY <1>1, EvaluatedAgrees
<1>3. /\ db'[r].rounds = Append(db[r].rounds, job[g].results)
      /\ db'[r].evidence = db[r].evidence
  BY <1>1 DEF Evaluated, Rows
<1>4. RoundStatus(db[r]) = "due"
  <2>1. Row(g).submissions = 1 .. n
    BY PlannedIsDue
  <2>2. Row(g).rounds = <<>> \/ n \in 1 .. n
    BY <1>1 DEF Rows
  <2> HIDE DEF n
  <2> QED
    BY <2>1, <2>2 DEF RoundStatus, n
<1>5. RoundStatus(db'[r]) = "done"
  <2>1. db'[r].rounds # <<>>
    <3>1. Len(<<>>) = 0 /\ n + 1 # 0
      BY <1>1
    <3> QED
      BY <1>2, <3>1
  <2> QED
    BY <1>2, <2>1 DEF RoundStatus
<1>6. \A c \in Checks : job[g].results[c] \in May(c)
  BY DEF RInv, MayResults
<1>7. job[g].results \in [Checks -> UNION {May(c) : c \in Checks}]
  <2>1. job[g].results = [c \in Checks |-> job[g].results[c]]
    BY <1>1 DEF Jobs
  <2> HIDE DEF May
  <2> QED
    BY <1>6, <2>1
<1>8. job[g].rerun \in SUBSET Checks
  BY <1>1 DEF Jobs
<1>9. Evaluation(r)!EvaluateRound
  <2>1. \E results \in [Checks -> UNION {May(c) : c \in Checks}] :
            /\ \A c \in Checks : results[c] \in May(c)
            /\ db'[r].rounds = Append(db[r].rounds, results)
    BY <1>3, <1>6, <1>7
  <2> QED
    BY <1>3, <1>4, <1>5, <1>8, <2>1 DEF Evaluation!EvaluateRound
<1> QED
  BY <1>9 DEF Evaluation!Next

\* What leaves a release's rounds, evidence and status alone is no step.
LEMMA RoundsStutter ==
    ASSUME NEW r \in Releases, RoundStatus(db'[r]) = RoundStatus(db[r]),
           db'[r].evidence = db[r].evidence, db'[r].rounds = db[r].rounds
    PROVE  [Evaluation(r)!Next]_(Evaluation(r)!vars)
BY DEF Evaluation!vars

LEMMA FailRefines ==
    ASSUME NEW r \in Releases,
           db[r].phase \notin {"None", "Approved", "Rejected", "Failed"},
           db'[r].phase = "Failed",
           db'[r].evidence = db[r].evidence, db'[r].rounds = db[r].rounds
    PROVE  Evaluation(r)!Next
<1>1. RoundStatus(db[r]) \in {"due", "done"}
  BY DEF RoundStatus
<1>2. RoundStatus(db'[r]) = "failed"
  <2>1. db'[r].phase # "None"
    OBVIOUS
  <2> QED
    BY <2>1 DEF RoundStatus
<1>3. Evaluation(r)!Fail
  BY <1>1, <1>2 DEF Evaluation!Fail
<1> QED
  BY <1>3 DEF Evaluation!Next

\* The two questions, and the decision, find the round done and leave it so.
LEMMA AskedIsDone ==
    ASSUME RInv, NEW g \in Handlers, pc[g] = "asking",
           NEW r \in Releases, db[r] = Row(g),
           NEW kind, NEW phase \in Waiting, NEW entry,
           db'[r] = Asked(g, kind, phase, entry)
    PROVE  [Evaluation(r)!Next]_(Evaluation(r)!vars)
<1> DEFINE n == Len(Row(g).rounds)
<1>1. Row(g) \in Rows
  BY RowType DEF RInv, FormsInv, IInv
<1>2. /\ db'[r].phase = phase
      /\ db'[r].rounds = db[r].rounds /\ db'[r].evidence = db[r].evidence
  BY <1>1 DEF Asked, Rows
<1>3. /\ db[r].phase = "Evaluating" /\ db[r].rounds # <<>>
      /\ db[r].submissions = 1 .. n - 1 /\ n = Len(db[r].rounds) /\ n \in Nat
  BY <1>1, AskedAfterRound DEF Rows
<1> HIDE DEF n
<1>4. n \notin 1 .. n - 1
  BY <1>3
<1>5. Len(db[r].rounds) \notin db[r].submissions
  BY <1>3, <1>4
<1>6. RoundStatus(db[r]) = "done"
  BY <1>3, <1>5 DEF RoundStatus
<1>7. RoundStatus(db'[r]) = "done"
  <2>1. db'[r].phase \notin {"None", "Failed", "Evaluating"}
    BY <1>2 DEF Waiting
  <2> QED
    BY <2>1 DEF RoundStatus
<1> QED
  BY <1>2, <1>6, <1>7, RoundsStutter

LEMMA EvaluationStep ==
    ASSUME RInv, [Next]_vars, NEW r \in Releases
    PROVE  [Evaluation(r)!Next]_(Evaluation(r)!vars)
<1>1. IInv /\ TypeOK
  BY DEF RInv, FormsInv, IInv
<1>2. CASE db'[r] = db[r]
  BY <1>2 DEF Evaluation!vars
<1>3. CASE db'[r] # db[r]
  <2> DEFINE row == db'[r]
  <2>1. PICK g \in Handlers : r = job[g].release /\ Writes(g, row)
    BY <1>1, <1>3, OneChangesAtATime
  <2>2. /\ db[r] = Row(g) /\ Row(g) \in Rows /\ job[g] \in Jobs
        /\ Len(Row(g).rounds) \in Nat
        /\ RequestsAgree(Row(g), Len(Row(g).rounds))
    BY <1>1, <2>1, TurnFacts DEF Row
  <2>3. CASE Row(g).phase = "None" /\ row = Inserted(g)
    BY <1>1, <2>2, <2>3, SubmitRefines
  <2>4. CASE pc[g] = "answering" /\ Row(g).phase = "WaitingForRemediation" /\ row = Answered(g)
    BY <2>2, <2>4, AnswerRefines
  <2>5. CASE pc[g] = "saving" /\ Row(g).phase = "Evaluating" /\ row = Evaluated(g)
    BY <2>1, <2>2, <2>5, RoundRefines
  <2>6. CASE /\ pc[g] = "asking"
             /\ row = Asked(g, "Remediation", "WaitingForRemediation",
                            "RemediationRequested")
    <3>1. "WaitingForRemediation" \in Waiting
      BY DEF Waiting
    <3> QED
      BY <2>2, <2>6, <3>1, AskedIsDone
  <2>7. CASE /\ pc[g] = "asking"
             /\ row = Asked(g, "Approval", "WaitingForApproval", "ApprovalRequested")
    <3>1. "WaitingForApproval" \in Waiting
      BY DEF Waiting
    <3> QED
      BY <2>2, <2>7, <3>1, AskedIsDone
  <2>8. CASE row = [Row(g) EXCEPT !.correlation = Row(g).active]
    <3>1. /\ row.phase = db[r].phase /\ row.submissions = db[r].submissions
          /\ row.rounds = db[r].rounds /\ row.evidence = db[r].evidence
      BY <2>2, <2>8 DEF Rows
    <3>2. RoundStatus(row) = RoundStatus(db[r])
      BY <3>1 DEF RoundStatus
    <3> QED
      BY <3>1, <3>2, RoundsStutter
  <2>9. CASE Row(g).phase = "WaitingForApproval" /\ row = Decided(g)
    <3>1. /\ row.phase \in {"Approved", "Rejected"}
          /\ row.rounds = db[r].rounds /\ row.evidence = db[r].evidence
      BY <2>2, <2>9 DEF Decided, Rows
    <3>2. RoundStatus(db[r]) = "done"
      BY <2>2, <2>9 DEF RoundStatus
    <3>3. RoundStatus(row) = "done"
      <4>1. row.phase \notin {"None", "Failed", "Evaluating"}
        BY <3>1
      <4> QED
        BY <4>1 DEF RoundStatus
    <3> QED
      BY <3>1, <3>2, <3>3, RoundsStutter
  <2>10. CASE pc[g] = "failing" /\ row = FailedRow(g)
    <3>1. db[r].phase \notin {"None", "Approved", "Rejected", "Failed"}
      BY <1>1, <1>3, <2>1, <2>10, FailedWasLive
    <3>2. row = [Row(g) EXCEPT !.phase = "Failed",
                               !.timeline = Append(@, "WorkflowFailed")]
      BY <1>1, <2>2, <2>10, FailedAgrees
    <3>3. /\ row.phase = "Failed"
          /\ row.rounds = db[r].rounds /\ row.evidence = db[r].evidence
      BY <2>2, <3>2 DEF Rows
    <3> QED
      BY <3>1, <3>3, FailRefines
  <2> QED
    BY <2>1, <2>3, <2>4, <2>5, <2>6, <2>7, <2>8, <2>9, <2>10 DEF Writes
<1> QED
  BY <1>2, <1>3

LEMMA EvaluationInit ==
    ASSUME Init, NEW r \in Releases
    PROVE  Evaluation(r)!Init
<1>1. db[r] = NoRelease
  BY DEF Init
<1>2. /\ NoRelease.phase = "None" /\ NoRelease.rounds = <<>>
      /\ NoRelease.evidence = [c \in Checks |-> <<>>]
  BY DEF NoRelease
<1>3. RoundStatus(NoRelease) = "none"
  BY <1>2 DEF RoundStatus
<1> QED
  BY <1>1, <1>2, <1>3 DEF Evaluation!Init

(* For each release the workflow implements RoundEvaluation. *)
THEOREM ImplementsEvaluationCorrect == Spec => ImplementsEvaluation
<1>1. ASSUME Init PROVE \A r \in Releases : Evaluation(r)!Init
  BY <1>1, EvaluationInit
<1>2. ASSUME RInv, [Next]_vars
      PROVE  [\A r \in Releases : [Evaluation(r)!Next]_(Evaluation(r)!vars)]_vars
  BY <1>2, EvaluationStep
<1> QED
  BY <1>1, <1>2, RefinementInvariant, PTL DEF Spec, ImplementsEvaluation
=============================================================================
