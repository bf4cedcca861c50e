---------------------- MODULE ReleaseWorkflowProperties ---------------------
(***************************************************************************)
(* What ReleaseWorkflow must keep true.  Each property says which code it  *)
(* is about and what would have to go wrong, over several steps or several *)
(* handlers, to break it.                                                  *)
(***************************************************************************)
EXTENDS ReleaseWorkflow

(* Every row, checkpoint, handler and reply is of its kind. *)
TypeOK ==
    /\ db \in [Releases -> Rows]
    /\ checkpoint \in [Releases -> Checkpoints]
    /\ gate \in Handlers \cup {Nobody}
    /\ pc \in [Handlers -> Steps]
    /\ job \in [Handlers -> Jobs]
    /\ tracked \in [Handlers -> SUBSET Rows]
    /\ reply \in [Handlers -> Replies]

-----------------------------------------------------------------------------
(* Invariants.                                                             *)

(* ExecuteExclusivelyAsync's gate: whoever is inside a turn holds it, and  *)
(* it is held only by someone inside a turn.  A path out of a turn that    *)
(* kept the gate would stop every other turn of the process for good.      *)
TurnsExclude ==
    \A h \in Handlers : (pc[h] \in TurnSteps) <=> (gate = h)

(* The two .Single() calls of WorkflowWaitResolver (lines 53 and 59) never *)
(* throw: a release that waits has exactly one question to answer, the one *)
(* put after its latest round, and that is the active request row; while   *)
(* it is evaluated nothing is active or unanswered; and every request row  *)
(* ever written is about a round on record.  Requests, submissions, rounds *)
(* and the phase are written by three different methods.                   *)
RequestsAgree(row, n) ==
    /\ row.phase = "None" => n = 0 /\ row.active = NoWait /\ row.requests = {}
    /\ row.phase = "Evaluating" =>
           /\ row.active = NoWait
           /\ Unanswered(row) = {} /\ Approvals(row) = {}
    /\ row.phase = "WaitingForRemediation" =>
           /\ row.active = Wait("Remediation", n)
           /\ Unanswered(row) = {row.active} /\ Approvals(row) = {}
    /\ row.phase = "WaitingForApproval" =>
           /\ row.active = Wait("Approval", n)
           /\ Unanswered(row) = {} /\ Approvals(row) = {row.active}
    /\ row.phase \in Terminal =>
           /\ row.active = NoWait
           /\ Approvals(row) = {Wait("Approval", n)}
    /\ \A w \in row.requests :
           w.kind \in {"Remediation", "Approval"} /\ w.round \in 1 .. n
    /\ row.submissions \subseteq 1 .. n

OneOpenQuestion == \A r \in Releases : RequestsAgree(db[r], Len(db[r].rounds))

(* What a turn read when it started, or wrote on its way, still holds at   *)
(* its later steps: no phase check, request lookup or round check of the   *)
(* data service ever refuses a turn that its resume let through.  Every    *)
(* one of those checks reads the database again, steps later.              *)
StateLeft(step, task, row, n) ==
    /\ step = "answering" =>
           /\ row.phase = "WaitingForRemediation"
           /\ row.active = Wait("Remediation", task.round)
    /\ step \in {"planning", "saving"} =>
           /\ row.phase = "Evaluating"
           /\ task.round = n
    /\ step = "asking" =>
           /\ row.phase = "Evaluating"
           /\ task.round + 1 = n
           /\ n \notin row.submissions
           /\ row.rounds[n] = task.results
    /\ step \in {"suspending", "correlating"} => row.phase \in Waiting
    /\ step = "deciding" => row.phase = "WaitingForApproval"
    /\ step = "finishing" =>
           row.phase \in Terminal /\ SameDecision(row.response, task.response)

TurnFindsWhatItLeft ==
    \A h \in Handlers : StateLeft(pc[h], job[h], Row(h), Len(Row(h).rounds))

(* What a handler was asked to do fits the release it was asked about: a   *)
(* submitted release is untouched until its first turn, whatever else is   *)
(* asked of it meanwhile, and only a release that has put a question is    *)
(* answered, decided or viewed.                                            *)
JobFits(step, task, row) ==
    /\ (step = "idle") <=> (task.kind = "none")
    /\ step = "inserting" => task.kind = "submit"
    /\ step = "posting" => task.kind = "remediate"
    /\ task.kind = "submit" =>
           /\ task.round = 0
           /\ step # "inserting" => row.phase # "None"
           /\ step = "queued" =>
                  row.phase = "Evaluating" /\ row.rounds = <<>> /\ row.requests = {}
    /\ task.kind \in {"remediate", "decide", "view"} => row.requests # {}

\* One handler at a time starts a release's workflow.
OneStarts ==
    \A g, h \in Handlers :
        /\ g # h
        /\ job[g].kind = "submit" /\ job[h].kind = "submit"
        /\ pc[g] # "inserting" /\ pc[h] # "inserting"
        => job[g].release # job[h].release

(* The invariant that explains the ones above: with these conjuncts it is  *)
(* kept by every step, so what a turn finds follows from what the requests *)
(* before it left behind and from the gate alone.                          *)
IInv ==
    /\ TypeOK
    /\ TurnsExclude
    /\ OneOpenQuestion
    /\ TurnFindsWhatItLeft
    /\ \A h \in Handlers : JobFits(pc[h], job[h], Row(h))
    /\ OneStarts

\* What a check's result of round n says of the release's rows: a pass is the
\* pass of the record it names, a reused one repeats one of an earlier round.
ResultHolds(result, row, c, n) ==
    /\ result.outcome = Passed =>
           /\ result.version \in 1 .. Len(row.evidence[c])
           /\ row.evidence[c][result.version] = Passed
    /\ result.source # Executed =>
           /\ result.outcome = Passed
           /\ result.source \in 1 .. n - 1
           /\ row.rounds[result.source][c].outcome = Passed
           /\ row.rounds[result.source][c].version = result.version

\* The results of a round are about the records that are current.
AreCurrent(results, row) ==
    \A c \in Checks : results[c].version = Len(row.evidence[c])

\* Until its latest round is answered, a release's evidence stays what that
\* round was about; only a passing round is decided.
RowHolds(row) ==
    /\ \A n \in 1 .. Len(row.rounds), c \in Checks :
           ResultHolds(row.rounds[n][c], row, c, n)
    /\ row.rounds # <<>> /\ Len(row.rounds) \notin row.submissions =>
           AreCurrent(Latest(row), row)
    /\ row.phase \in {"WaitingForApproval"} \cup Terminal =>
           /\ row.rounds # <<>>
           /\ Len(row.rounds) \notin row.submissions
           /\ AllPassed(Latest(row))
    /\ row.phase \in Terminal => row.response.round = Len(row.rounds)

\* A round that is about to be saved.
RoundHolds(results, row) ==
    /\ AreCurrent(results, row)
    /\ \A c \in Checks : ResultHolds(results[c], row, c, Len(row.rounds) + 1)

(* The invariant behind the two properties below: rounds on record and the *)
(* round a turn carries to its commit agree with the evidence, although    *)
(* the turn evaluated it steps before.                                     *)
EInv ==
    /\ IInv
    /\ \A r \in Releases : RowHolds(db[r])
    /\ \A h \in Handlers : pc[h] = "saving" => RoundHolds(job[h].results, Row(h))

(* A release is put before a human, and stays approved or rejected, only   *)
(* on the strength of its current evidence: in the round the approval      *)
(* names every check passed, on the version that is current now, and the   *)
(* policy passed exactly that record, however many rounds ago it ran.      *)
ApprovalCoversCurrentEvidence ==
    \A r \in Releases :
        LET row == db[r] IN
        row.phase \in {"WaitingForApproval"} \cup Terminal =>
            /\ Approvals(row) = {Wait("Approval", Len(row.rounds))}
            /\ row.phase \in Terminal => row.response.round = Len(row.rounds)
            /\ \A c \in Checks :
                   LET result == Latest(row)[c] IN
                   /\ result.outcome = Passed
                   /\ result.version = Len(row.evidence[c])
                   /\ row.evidence[c] # <<>>
                   /\ row.evidence[c][result.version] = Passed

(* A reused result rests on a passing result of the same record in the     *)
(* round it names, which is an earlier one, and was not asked to be rerun; *)
(* so every chain of reuse ends in an execution of the policy on that      *)
(* record (RoundPlanner.Plan, ResultReuse.Create).                         *)
ReuseIsJustified ==
    \A r \in Releases, n \in 1 .. MaxRounds, c \in Checks :
        n <= Len(db[r].rounds) =>
            LET result == db[r].rounds[n][c] IN
            result.source # Executed =>
                /\ result.source < n
                /\ LET source == db[r].rounds[result.source][c] IN
                   /\ source.outcome = Passed /\ result.outcome = Passed
                   /\ source.version = result.version
                /\ db[r].evidence[c][result.version] = Passed

(* A wait a client may see can be resumed: when no turn is running, a      *)
(* release that waits has a correlation row, a request row and a           *)
(* checkpoint that name the same question.  It holds as long as no turn is *)
(* cut short; three stores are written one after the other.                *)
WaitIsResumable ==
    gate = Nobody =>
        \A r \in Releases :
            db[r].phase \in Waiting =>
                /\ Resolve(db[r]) # NoWait
                /\ checkpoint[r] = Resolve(db[r])

\* The three stores name one question, or a turn is about to see to it: it
\* saves what is missing, or it marks the release as failed.
WaitSaved(r) == checkpoint[r] = db[r].active /\ db[r].correlation = db[r].active

SavesWait(h, r) ==
    /\ gate = h /\ job[h].release = r
    /\ \/ pc[h] \in {"suspending", "failing"}
       \/ pc[h] = "correlating" /\ checkpoint[r] = db[r].active

WaitCared(r) ==
    db[r].phase \in Waiting => WaitSaved(r) \/ \E h \in Handlers : SavesWait(h, r)

(* The invariant behind WaitIsResumable. *)
WInv ==
    /\ IInv
    /\ \A r \in Releases : WaitCared(r)

(* The timeline accounts for every durable row, once each.  The entries    *)
(* are numbered from a read made before the rows are written               *)
(* (RoundAggregator line 43, RemediationHandler line 139), so two turns of *)
(* one release that overlapped would lose or repeat one.                   *)
Entries(row, kind) ==
    Cardinality({i \in 1 .. Len(row.timeline) : row.timeline[i] = kind})

TimelineAccountsForRows ==
    \A r \in Releases :
        LET row == db[r] IN
        /\ Entries(row, "EvaluationCompleted") = Len(row.rounds)
        /\ Entries(row, "RemediationRequested")
               = Cardinality(row.requests \ Approvals(row))
        /\ Entries(row, "ApprovalRequested") = Cardinality(Approvals(row))
        /\ Entries(row, "RemediationSubmitted") = Cardinality(row.submissions)
        /\ (Entries(row, "HumanResponseAccepted") = 1) <=> (row.response # NoResponse)
        /\ (Entries(row, "WorkflowFailed") = 1) <=> (row.phase = "Failed")

\* One row's timeline.  Whether a decision is on record, and whether the
\* release failed, its phase tells, once and for good.
TimelineHolds(row) ==
    /\ IsFiniteSet(row.requests)
    /\ Entries(row, "EvaluationCompleted") = Len(row.rounds)
    /\ Entries(row, "RemediationRequested")
           = Cardinality(row.requests \ Approvals(row))
    /\ Entries(row, "ApprovalRequested") = Cardinality(Approvals(row))
    /\ Entries(row, "RemediationSubmitted") = Cardinality(row.submissions)
    /\ Entries(row, "HumanResponseAccepted") = IF row.phase \in Terminal THEN 1 ELSE 0
    /\ Entries(row, "WorkflowFailed") = IF row.phase = "Failed" THEN 1 ELSE 0
    /\ (row.response # NoResponse) <=> (row.phase \in Terminal)

(* The invariant behind TimelineAccountsForRows. *)
TInv ==
    /\ IInv
    /\ \A r \in Releases : TimelineHolds(db[r])

(* The versions a form's records were given at the first read of a POST    *)
(* still follow the current ones when the answer is applied, although two  *)
(* more reads and the queue for the gate lie between: a form that is let   *)
(* through the token check never trips over ValidateReplacement.           *)
AcceptedFormsFit ==
    \A h \in Handlers : pc[h] = "answering" => ReplacementsFit(h)

\* A form is about a question that was put; until that one is answered, the
\* versions the form's first read found are the current ones.
FormHolds(task, row) ==
    task.kind = "remediate" =>
        /\ Wait("Remediation", task.round) \in row.requests
        /\ task.round \notin row.submissions =>
               \A c \in Checks : task.base[c] = Len(row.evidence[c])

(* The invariant behind AcceptedFormsFit. *)
FormsInv ==
    /\ IInv
    /\ \A h \in Handlers : FormHolds(job[h], Row(h))
    /\ \A h \in Handlers :
           /\ pc[h] = "answering" => job[h].kind = "remediate"
           /\ pc[h] \in {"planning", "saving"} => job[h].kind \in {"submit", "remediate"}

-----------------------------------------------------------------------------
(* Action properties.                                                      *)

(* An ended release is never written to again, whatever was queued for it  *)
(* when it ended.  SaveWorkflowCorrelationAsync only refuses the two       *)
(* decisions (RequireMutableRelease), so for Failed this rests on the gate.*)
EndedIsFinal ==
    [][\A r \in Releases : db[r].phase \in Ended => db'[r] = db[r]]_vars

(* Marking a release failed records that and nothing else: rows an earlier *)
(* SaveChangesAsync of the same request could not persist do not slip in   *)
(* with it, and nothing that was there is lost.                            *)
FailureKeepsHistory ==
    [][\A r \in Releases :
           db'[r].phase = "Failed" /\ db[r].phase # "Failed" =>
               db'[r] = [db[r] EXCEPT !.phase = "Failed",
                                      !.timeline = Append(@, "WorkflowFailed")]]_vars

(* What a client is told is what happened: "Decision recorded" only if the *)
(* decision on record is the one it sent, "No decision was applied" only   *)
(* if it is not, and "could not continue safely" only if nothing of it was *)
(* applied, whoever else decided, failed or replayed meanwhile.            *)
DecisionReplyIsTrue ==
    [][\A h \in Handlers :
           job[h].kind = "decide" /\ pc'[h] = "idle" =>
               LET sent == job[h].response
                   recorded == db'[job[h].release].response
                   taken == sent.id = recorded.id /\ sent.decision = recorded.decision
               IN /\ reply'[h] = "ok" => taken
                  /\ reply'[h] \in {"no", "unsafe"} => ~taken]_vars

(* "Remediation submitted" means this form was applied and its round is    *)
(* evaluated; "No changes were applied" means nothing of it was.           *)
RemediationReplyIsTrue ==
    [][\A h \in Handlers :
           job[h].kind = "remediate" /\ pc'[h] = "idle" =>
               LET row == db'[job[h].release] IN
               /\ reply'[h] = "ok" =>
                      /\ job[h].round \in row.submissions
                      /\ Len(row.rounds) = job[h].round + 1
                      /\ \A c \in Checks :
                             job[h].fill[c] # NoEvidence =>
                                 /\ Len(row.evidence[c]) = job[h].base[c] + 1
                                 /\ row.evidence[c][job[h].base[c] + 1] = job[h].fill[c]
               /\ reply'[h] = "no" => row = db[job[h].release]]_vars

\* A decision is at the steps of one, and says one thing or the other.
DecisionFits(step, task) ==
    /\ task.kind = "decide" =>
           /\ task.response.decision \in Decisions
           /\ step \in {"queued", "resuming", "deciding", "finishing",
                        "failing", "rereading"}
    /\ step \in {"deciding", "finishing", "rereading"} => task.kind = "decide"

\* A form whose records are saved stays the last thing that happened to the
\* release but for the round it started.
FormApplied(step, task, row) ==
    /\ task.kind = "remediate"
    /\ step \in {"planning", "saving", "asking", "suspending", "correlating"}
    => /\ task.round \in row.submissions
       /\ step \in {"planning", "saving"} => Len(row.rounds) = task.round
       /\ step \in {"asking", "suspending", "correlating"} =>
              Len(row.rounds) = task.round + 1
       /\ \A c \in Checks :
              task.fill[c] # NoEvidence =>
                  /\ Len(row.evidence[c]) = task.base[c] + 1
                  /\ row.evidence[c][task.base[c] + 1] = task.fill[c]

(* The invariant behind the two properties above. *)
AInv ==
    /\ FormsInv
    /\ \A h \in Handlers :
           /\ DecisionFits(pc[h], job[h])
           /\ FormApplied(pc[h], job[h], Row(h))

-----------------------------------------------------------------------------
(* Liveness, under FairSpec and without crashes.                           *)

(* Every request gets its answer: no handler waits for the gate for ever,  *)
(* not even behind turns that fail.                                        *)
HandlersReturn ==
    \A h \in Handlers : pc[h] # "idle" ~> pc[h] = "idle"

(* A release does not stay in evaluation: it reaches a human, the          *)
(* submitter, or Failed.                                                   *)
EvaluationEnds ==
    \A r \in Releases : db[r].phase = "Evaluating" ~> db[r].phase # "Evaluating"

-----------------------------------------------------------------------------
(* The abstract lifecycle.                                                 *)

Lifecycle == INSTANCE ReleaseLifecycle WITH
    phase <- [r \in Releases |-> db[r].phase],
    evaluated <- [r \in Releases |-> Len(db[r].rounds)],
    answered <- [r \in Releases |-> Cardinality(db[r].submissions)],
    passing <- [r \in Releases |->
                   db[r].rounds # <<>> /\ AllPassed(Latest(db[r]))]

(* The workflow implements ReleaseLifecycle: rounds and answers alternate, *)
(* humans see passing rounds only, one decision, ends are final.           *)
ImplementsLifecycle == Lifecycle!Spec

\* Whether the release's evidence awaits a round.
RoundStatus(row) ==
    CASE row.phase = "None" -> "none"
      [] row.phase = "Failed" -> "failed"
      [] row.phase = "Evaluating"
           /\ (row.rounds = <<>> \/ Len(row.rounds) \in row.submissions) -> "due"
      [] OTHER -> "done"

Evaluation(r) == INSTANCE RoundEvaluation WITH
    status <- RoundStatus(db[r]),
    evidence <- db[r].evidence,
    rounds <- db[r].rounds

\* Every round but the latest is answered, the latest perhaps; a problem is
\* put before the submitter only if the latest round found one.
Alternates(row) ==
    /\ row.submissions \in {1 .. Len(row.rounds), 1 .. Len(row.rounds) - 1}
    /\ row.phase = "WaitingForRemediation" => ~AllPassed(Latest(row))

\* The round a turn is about to save is one RoundEvaluation allows.
MayResults(task, row) ==
    \A c \in Checks :
        task.results[c] \in
            Evaluation(task.release)!MayResult(
                row.rounds, row.evidence[c], c \in task.rerun, c)

(* The invariant behind the two refinements. *)
RInv ==
    /\ FormsInv
    /\ \A r \in Releases : Alternates(db[r])
    /\ \A h \in Handlers : pc[h] = "saving" => MayResults(job[h], Row(h))

(* Every round on record is what RoundEvaluation makes of the evidence     *)
(* that is current when the round is recorded, although the planner and    *)
(* the providers read it steps earlier and other requests run in between;  *)
(* evidence moves only where a problem was found.                          *)
ImplementsEvaluation ==
    /\ \A r \in Releases : Evaluation(r)!Init
    /\ [][\A r \in Releases : [Evaluation(r)!Next]_(Evaluation(r)!vars)]_vars

-----------------------------------------------------------------------------
(* What the documents promise and the code does not keep.                  *)

(* architecture.md line 261: "a stale form or mismatched workflow request  *)
(* produces no new business record".  Here: a remediation form whose       *)
(* question is no longer the open one does not change the release.         *)
StaleFormChangesNothing ==
    [][\A h \in Handlers :
           LET open == Resolve(Row(h)) IN
           /\ job[h].kind = "remediate"
           /\ pc[h] \in TurnSteps
           /\ open # NoWait
           /\ open # Wait("Remediation", job[h].round)
           => db'[job[h].release] = db[job[h].release]]_vars

(* SPEC.md line 75: "A workflow waiting for remediation or approval can be *)
(* restored after the application is stopped and restarted."               *)
WaitSurvivesRestart == WaitIsResumable

(* SPEC.md line 91: "Duplicate release identifiers return a conflict."     *)
DuplicateGetsConflict ==
    [][\A h \in Handlers :
           /\ pc[h] = "inserting" /\ pc'[h] = "idle"
           /\ Row(h).phase # "None"
           => reply'[h] = "conflict"]_vars
=============================================================================
