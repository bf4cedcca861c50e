--------------------------- MODULE ReleaseWorkflow --------------------------
(***************************************************************************)
(* The readiness workflow of releases, as HTTP handlers drive it: every    *)
(* handler reads the database, queues for the one turn gate of the process *)
(* and, holding it, resumes the release's workflow from its checkpoint,    *)
(* runs it to its next wait and records where it stopped.  Each SQLite     *)
(* commit is one step; between two steps other handlers run, a request may *)
(* be aborted and the process may die.                                     *)
(*                                                                         *)
(* Everything a turn does between two commits happens under the gate and   *)
(* touches nothing another handler writes, so it is folded into the step   *)
(* that commits it.                                                        *)
(***************************************************************************)
EXTENDS Naturals, Sequences, FiniteSets, RoundPlanning

CONSTANTS
    Releases,     \* release identifiers
    Handlers,     \* HTTP requests the server works on at once
    Checks,       \* readiness checks, each with its branch of evidence
    Verdicts,     \* what a policy may say of an evidence record
    ResponseIds,  \* identities a decision form is rendered with
    Nobody,       \* the turn gate is free
    MaxRounds,    \* bound: no remediation is posted after this many rounds
    Faults        \* what the environment may do to this run, see FaultKinds

FaultKinds ==
    {"crash",       \* the process dies and is started again
     "cancel",      \* the client goes away: HttpContext.RequestAborted
     "commit",      \* SaveChangesAsync throws and persists nothing
     "checkpoint",  \* a session's checkpoint file cannot be read any more
     "technical",   \* an executor, a provider or the framework throws
     "transient"}   \* a provider fails all its attempts

ASSUME ConstantsAssumption ==
    /\ Passed \in Verdicts
    /\ Verdicts \cap {MissingEvidence, TransientFailure, "None"} = {}
    /\ Nobody \notin Handlers
    /\ Releases # {}
    /\ ResponseIds # {}
    /\ MaxRounds \in Nat \ {0}
    /\ Faults \subseteq FaultKinds

VARIABLES
    db,          \* SQLite: the rows of each release
    checkpoint,  \* checkpoint files: where each release's session stopped
    gate,        \* _operationGate: the handler running a turn, or Nobody
    pc,          \* where each handler is
    job,         \* what each handler was asked to do
    tracked,     \* rows each handler's DbContext holds but could not save
    reply        \* what each handler last told its client

vars == <<db, checkpoint, gate, pc, job, tracked, reply>>
-----------------------------------------------------------------------------
(* Rows of a release.                                                      *)

Waiting == {"WaitingForRemediation", "WaitingForApproval"}
Terminal == {"Approved", "Rejected"}
Ended == Terminal \cup {"Failed"}
Phases == {"None", "Evaluating"} \cup Waiting \cup Ended

\* A wait is a request row and the framework's request for it: the row's id
\* and the framework's id are made together and name the same question, the
\* one of that kind put after that round.
Wait(kind, round) == [kind |-> kind, round |-> round]
NoWait == Wait("None", 0)
Waits == [kind : {"None", "Remediation", "Approval"}, round : Nat]

\* What the checkpoint file of a session can be restored to.
NoCheckpoint == NoWait
Running(round) == Wait("Running", round)
Unreadable == Wait("Unreadable", 0)
Completed == Wait("Completed", 0)
Checkpoints ==
    [kind : {"None", "Remediation", "Approval", "Running", "Unreadable", "Completed"},
     round : Nat]

Decisions == {"Approve", "Reject"}
NoResponse == [id |-> Nobody, decision |-> "None", round |-> 0]
Responses ==
    [id : ResponseIds \cup {Nobody}, decision : Decisions \cup {"None"}, round : Nat]

TimelineKinds ==
    {"ReleaseSubmitted", "EvaluationCompleted", "RemediationRequested",
     "RemediationSubmitted", "ApprovalRequested", "HumanResponseAccepted",
     "WorkflowFailed"}

\* evidence[c] is the branch's history by version; its last record is the
\* current one, the two rows are always written together.
Rows ==
    [phase : Phases,
     evidence : [Checks -> Seq(Verdicts)],
     rounds : Seq([Checks -> Results(Verdicts)]),
     requests : SUBSET Waits,        \* every WorkflowRequestRow
     active : Waits,                 \* the one with IsActive
     submissions : SUBSET Nat,       \* rounds whose remediation was answered
     response : Responses,
     correlation : Waits,
     timeline : Seq(TimelineKinds)]

NoRelease ==
    [phase |-> "None",
     evidence |-> [c \in Checks |-> <<>>],
     rounds |-> <<>>,
     requests |-> {},
     active |-> NoWait,
     submissions |-> {},
     response |-> NoResponse,
     correlation |-> NoWait,
     timeline |-> <<>>]

\* Every request row of a kind, and the remediation requests nobody answered:
\* what WorkflowWaitResolver takes .Single() of.
Approvals(row) == {w \in row.requests : w.kind = "Approval"}
Unanswered(row) ==
    {w \in row.requests : w.kind = "Remediation" /\ w.round \notin row.submissions}

(* WorkflowWaitResolver.Resolve: the wait the correlation row names, if the *)
(* phase and the request rows agree with it, NoWait otherwise.              *)
Resolve(row) ==
    IF \/ /\ row.phase = "WaitingForRemediation"
          /\ row.correlation.kind = "Remediation"
          /\ Unanswered(row) = {row.correlation}
       \/ /\ row.phase = "WaitingForApproval"
          /\ row.correlation.kind = "Approval"
          /\ Approvals(row) = {row.correlation}
    THEN row.correlation
    ELSE NoWait

Latest(row) == row.rounds[Len(row.rounds)]
\* Mutant: one passing check is enough.
SomePassed(results) == \E c \in Checks : results[c].outcome = Passed

AllPassed(results) == \A c \in Checks : results[c].outcome = Passed
-----------------------------------------------------------------------------
(* Handlers.                                                               *)

NoEvidence == "None"
NoResults == [c \in Checks |-> NoResult]
NoJob ==
    [kind |-> "none",
     release |-> CHOOSE r \in Releases : TRUE,
     round |-> 0,                            \* the round asked about
     fill |-> [c \in Checks |-> NoEvidence], \* records posted, by branch
     base |-> [c \in Checks |-> 0],          \* the version each one supersedes
     rerun |-> {},                           \* explicitly selected checks
     response |-> NoResponse,                \* not yet bound to a round
     results |-> NoResults]                  \* the round being evaluated

Jobs ==
    [kind : {"none", "submit", "remediate", "decide", "view"},
     release : Releases,
     round : Nat,
     fill : [Checks -> Verdicts \cup {NoEvidence}],
     base : [Checks -> Nat],
     rerun : SUBSET Checks,
     response : Responses,
     results : [Checks -> Results(Verdicts)]]

\* The steps of a turn: they run while their handler holds the gate.
TurnSteps ==
    {"resuming", "answering", "planning", "saving", "asking", "suspending",
     "correlating", "deciding", "finishing", "failing"}
Steps == {"idle", "inserting", "posting", "queued", "rereading"} \cup TurnSteps
\* "unsafe": the page says that the workflow could not continue safely;
\* "error": an exception nothing handles, a 500 or a page that says as little.
Replies == {"none", "ok", "no", "conflict", "unsafe", "error"}

Row(h) == db[job[h].release]

Goto(h, step) == pc' = [pc EXCEPT ![h] = step]

\* An exception leaves the workflow for the handler of ExecuteWithFailureAsync.
Throw(h) ==
    /\ Goto(h, "failing")
    /\ UNCHANGED <<db, tracked>>

\* SaveChangesAsync: the rows are persisted together, or none of them is and
\* the context goes on tracking them.
Commit(h, row, step) ==
    \/ /\ db' = [db EXCEPT ![job[h].release] = row]
       /\ Goto(h, step)
       /\ UNCHANGED tracked
    \/ /\ "commit" \in Faults
       /\ tracked' = [tracked EXCEPT ![h] = {row}]
       /\ Goto(h, "failing")
       /\ UNCHANGED db

\* ExecuteReplaySafeAsync finds what it was to write on record already.
Replayed(h, step) ==
    /\ Goto(h, step)
    /\ UNCHANGED <<db, tracked>>

\* Mutant: the gate is not released when the turn failed.
LeaveWithGate(h, answer) ==
    /\ Goto(h, "idle")
    /\ job' = [job EXCEPT ![h] = NoJob]
    /\ tracked' = [tracked EXCEPT ![h] = {}]
    /\ reply' = [reply EXCEPT ![h] = answer]
    /\ gate' = IF gate = h /\ answer # "error" THEN Nobody ELSE gate

\* The request ends: its scope and DbContext go, the gate if it held it.
Leave(h, answer) ==
    /\ Goto(h, "idle")
    /\ job' = [job EXCEPT ![h] = NoJob]
    /\ tracked' = [tracked EXCEPT ![h] = {}]
    /\ reply' = [reply EXCEPT ![h] = answer]
    /\ gate' = IF gate = h THEN Nobody ELSE gate

\* A request that is answered from its first read alone.
Answer(h, answer) ==
    /\ reply' = [reply EXCEPT ![h] = answer]
    /\ UNCHANGED <<db, checkpoint, gate, pc, job, tracked>>

Begin(h, step, request) ==
    /\ Goto(h, step)
    /\ job' = [job EXCEPT ![h] = request]
    /\ UNCHANGED <<db, checkpoint, gate, tracked, reply>>

Init ==
    /\ db = [r \in Releases |-> NoRelease]
    /\ checkpoint = [r \in Releases |-> NoCheckpoint]
    /\ gate = Nobody
    /\ pc = [h \in Handlers |-> "idle"]
    /\ job = [h \in Handlers |-> NoJob]
    /\ tracked = [h \in Handlers |-> {}]
    /\ reply = [h \in Handlers |-> "none"]
-----------------------------------------------------------------------------
(* Submitting a release.                                                   *)

(* SubmitReleaseAsync up to its duplicate check; the operation key is      *)
(* fresh, so there is never a submission to replay.                        *)
PostNew(h, r, fill) ==
    /\ pc[h] = "idle"
    /\ IF db[r].phase # "None"
       THEN Answer(h, "conflict")
       ELSE Begin(h, "inserting",
                  [NoJob EXCEPT !.kind = "submit", !.release = r, !.fill = fill])

\* Mutant: a branch the form leaves empty is stored as a record all the same.
FirstRecordsOfAll(fill) == [c \in Checks |-> <<fill[c]>>]

\* The branches of a new release, each with the record posted for it or none.
FirstRecords(fill) ==
    [c \in Checks |-> IF fill[c] = NoEvidence THEN <<>> ELSE <<fill[c]>>]

(* SubmitReleaseAsync's insert.  The primary key refuses a second release  *)
(* with this identifier, and nothing on the way up handles that exception. *)
InsertRelease(h) ==
    /\ pc[h] = "inserting"
    /\ UNCHANGED checkpoint
    /\ \/ /\ Row(h).phase = "None"
          /\ db' = [db EXCEPT ![job[h].release] =
                [@ EXCEPT !.phase = "Evaluating",
                          !.evidence = FirstRecords(job[h].fill),
                          !.timeline = <<"ReleaseSubmitted">>]]
          /\ Goto(h, "queued")
          /\ UNCHANGED <<gate, job, tracked, reply>>
       \/ /\ Row(h).phase # "None" \/ "commit" \in Faults
          /\ Leave(h, "error")
          /\ UNCHANGED db
-----------------------------------------------------------------------------
(* Answering a remediation request.                                        *)

(* Remediate.OnPostAsync: the first read decides which records the form    *)
(* changed and numbers them.  The form itself is of any round asked about  *)
(* so far, a page may stay open for as long as its reader likes.           *)
PostRemediation(h, r, round, fill, rerun) ==
    /\ pc[h] = "idle"
    /\ Len(db[r].rounds) < MaxRounds
    /\ Wait("Remediation", round) \in db[r].requests
    /\ IF Resolve(db[r]).kind # "Remediation"
       THEN Answer(h, "no")
       ELSE Begin(h, "posting",
                  [NoJob EXCEPT !.kind = "remediate",
                                !.release = r,
                                !.round = round,
                                !.fill = fill,
                                !.base = [c \in Checks |-> Len(db[r].evidence[c])],
                                !.rerun = rerun])

(* RemediationInteractionService.SubmitAsync: the second read compares the *)
(* form's token with the request that is active now.                       *)
CheckRemediation(h) ==
    /\ pc[h] = "posting"
    /\ UNCHANGED <<db, checkpoint>>
    /\ IF Resolve(Row(h)) = Wait("Remediation", job[h].round)
       THEN /\ Goto(h, "queued")
            /\ UNCHANGED <<gate, job, tracked, reply>>
       ELSE Leave(h, "no")

\* Mutant: the answer is not compared with the question that is open now.
AnswersAnyQuestion(h) ==
    /\ Resolve(Row(h)).kind = "Remediation"
    /\ checkpoint[job[h].release] = Resolve(Row(h))

\* The open question is the one the form answers, and the session waits for it.
AnswersOpenQuestion(h) ==
    /\ Resolve(Row(h)) = Wait("Remediation", job[h].round)
    /\ checkpoint[job[h].release] = Resolve(Row(h))

(* ResumeRemediationCoreAsync: the third read, under the gate, and the     *)
(* checkpoint must agree with it and with the answer.  A response id is    *)
(* fresh, so the exact-replay case cannot arise.                           *)
ResumeRemediation(h) ==
    /\ pc[h] = "resuming"
    /\ job[h].kind = "remediate"
    /\ IF AnswersOpenQuestion(h)
       THEN Goto(h, "answering") /\ UNCHANGED <<db, tracked>>
       ELSE Throw(h)
    /\ UNCHANGED <<checkpoint, gate, job, reply>>

\* ValidateReplacement, for every record posted.
ReplacementsFit(h) ==
    \A c \in Checks :
        job[h].fill[c] # NoEvidence => job[h].base[c] = Len(Row(h).evidence[c])

\* Mutant: the submission row is not written.
AnsweredOffTheRecord(h) ==
    [Row(h) EXCEPT
        !.phase = "Evaluating",
        !.evidence = [c \in Checks |->
            IF job[h].fill[c] = NoEvidence
            THEN @[c] ELSE Append(@[c], job[h].fill[c])],
        !.active = NoWait,
        !.timeline = Append(@, "RemediationSubmitted")]

\* The release with this form's records, and its question answered.
Answered(h) ==
    [Row(h) EXCEPT
        !.phase = "Evaluating",
        !.evidence = [c \in Checks |->
            IF job[h].fill[c] = NoEvidence
            THEN @[c] ELSE Append(@[c], job[h].fill[c])],
        !.active = NoWait,
        !.submissions = @ \cup {job[h].round},
        !.timeline = Append(@, "RemediationSubmitted")]

(* RemediationHandler.HandleAsync and SaveRemediationSubmissionAsync. *)
SaveSubmission(h) ==
    /\ pc[h] = "answering"
    /\ IF /\ Row(h).phase = "WaitingForRemediation"
          /\ Row(h).active = Wait("Remediation", job[h].round)
          /\ ReplacementsFit(h)
       THEN Commit(h, Answered(h), "planning")
       ELSE Throw(h)
    /\ UNCHANGED <<checkpoint, gate, job, reply>>
-----------------------------------------------------------------------------
(* Evaluating a round, up to the next wait.                                *)

\* EvaluationRoundStart.RoundNumber: 1, or one more than the round answered.
NextRound(h) == job[h].round + 1

\* Mutant: the planner compares with the first round on record.
PreviousOfFirst(h, c) ==
    IF Row(h).rounds = <<>> THEN NoResult ELSE Row(h).rounds[1][c]

\* The previous result of a check, as the planner's read finds it.
Previous(h, c) ==
    IF Row(h).rounds = <<>> THEN NoResult ELSE Latest(Row(h))[c]

\* ReadinessPlanner.PlanAsync refuses a round out of turn, ResultReuse a
\* result that may not be carried over.
PlanAccepted(h) ==
    /\ NextRound(h) = Len(Row(h).rounds) + 1
    /\ \A c \in Checks :
           PlanningReason(Previous(h, c), c \in job[h].rerun,
                          Len(Row(h).evidence[c])) = "UnchangedEvidence"
           => ReuseVerified(Previous(h, c), Len(Row(h).evidence[c]))

(* Planner, the branches and their fan-in: one result per check.  The      *)
(* framework has by now written checkpoints from inside the run.           *)
PlanRound(h) ==
    /\ pc[h] = "planning"
    /\ IF PlanAccepted(h)
       THEN /\ \E exhausted \in
                   SUBSET {c \in Checks : "transient" \in Faults
                                          /\ Row(h).evidence[c] # <<>>} :
                   job' = [job EXCEPT ![h].results =
                       [c \in Checks |->
                           Evaluate(Previous(h, c), c \in job[h].rerun,
                                    Row(h).evidence[c], c \in exhausted,
                                    NextRound(h))]]
            /\ Goto(h, "saving")
            /\ checkpoint' = [checkpoint EXCEPT ![job[h].release] = Running(NextRound(h))]
            /\ UNCHANGED <<db, tracked>>
       ELSE Throw(h) /\ UNCHANGED <<job, checkpoint>>
    /\ UNCHANGED <<gate, reply>>

\* The release with one more round.
Evaluated(h) ==
    [Row(h) EXCEPT !.rounds = Append(@, job[h].results),
                   !.timeline = Append(@, "EvaluationCompleted")]

(* RoundAggregator.CompleteAsync, its first write: SaveEvaluationRoundAsync. *)
SaveRound(h) ==
    /\ pc[h] = "saving"
    /\ IF NextRound(h) <= Len(Row(h).rounds)
       THEN Replayed(h, "asking")
       ELSE IF Row(h).phase = "Evaluating" /\ NextRound(h) = Len(Row(h).rounds) + 1
       THEN Commit(h, Evaluated(h), "asking")
       ELSE Throw(h)
    /\ UNCHANGED <<checkpoint, gate, job, reply>>

\* The round SaveEvaluationRoundAsync returned: the one on record.
Recorded(h) == Row(h).rounds[NextRound(h)]

\* The release with a new request row, which is its active one.
Asked(h, kind, phase, entry) ==
    [Row(h) EXCEPT !.phase = phase,
                   !.requests = @ \cup {Wait(kind, NextRound(h))},
                   !.active = Wait(kind, NextRound(h)),
                   !.timeline = Append(@, entry)]

\* A release has at most one active request; a question already put is not
\* put again.
Ask(h, kind, phase, entry) ==
    IF Wait(kind, NextRound(h)) \in Row(h).requests
    THEN Replayed(h, "suspending")
    ELSE IF Row(h).phase = "Evaluating" /\ Row(h).active = NoWait
    THEN Commit(h, Asked(h, kind, phase, entry), "suspending")
    ELSE Throw(h)

(* RoundAggregator.CompleteAsync, its second write: the problems go back   *)
(* to the submitter.                                                       *)
OpenRemediation(h) ==
    /\ pc[h] = "asking"
    /\ ~AllPassed(Recorded(h))
    /\ Ask(h, "Remediation", "WaitingForRemediation", "RemediationRequested")
    /\ UNCHANGED <<checkpoint, gate, job, reply>>

(* DecisionSnapshotBuilder.BuildAsync and OpenHumanDecisionRequestAsync:   *)
(* the round goes to a human, its results frozen in the snapshot, which is *)
(* the approval wait's round.                                              *)
OpenApproval(h) ==
    /\ pc[h] = "asking"
    /\ AllPassed(Recorded(h))
    /\ IF Len(Row(h).rounds) = NextRound(h)
       THEN Ask(h, "Approval", "WaitingForApproval", "ApprovalRequested")
       ELSE Throw(h)
    /\ UNCHANGED <<checkpoint, gate, job, reply>>

\* Mutant: the superstep that exposes the request is not checkpointed.
ReachWaitUnsaved(h) ==
    /\ pc[h] = "suspending"
    /\ Goto(h, "correlating")
    /\ UNCHANGED <<db, checkpoint, gate, job, tracked, reply>>

(* The framework checkpoints the superstep that exposed the request. *)
ReachWait(h) ==
    /\ pc[h] = "suspending"
    /\ checkpoint' = [checkpoint EXCEPT ![job[h].release] = Row(h).active]
    /\ Goto(h, "correlating")
    /\ UNCHANGED <<db, gate, job, tracked, reply>>

(* SavePendingWaitAsync; when it commits, the turn is over and its gate is *)
(* released.                                                               *)
SaveCorrelation(h) ==
    /\ pc[h] = "correlating"
    /\ UNCHANGED checkpoint
    /\ \/ /\ Row(h).phase \notin Terminal
          /\ db' = [db EXCEPT ![job[h].release].correlation = Row(h).active]
          /\ Leave(h, "ok")
       \/ /\ Row(h).phase \notin Terminal
          /\ "commit" \in Faults
          /\ Goto(h, "failing")
          /\ tracked' = [tracked EXCEPT ![h] =
                {[Row(h) EXCEPT !.correlation = Row(h).active]}]
          /\ UNCHANGED <<db, gate, job, reply>>
       \/ /\ Row(h).phase \in Terminal
          /\ Throw(h)
          /\ UNCHANGED <<gate, job, reply>>
-----------------------------------------------------------------------------
(* Deciding.                                                               *)

\* Mutant: any decision sent with this form's identity is the same response.
SameForm(response, other) == response.id = other.id

\* IsExactReplay: the response on record is this one, whenever it was given.
SameDecision(response, other) ==
    response.id = other.id /\ response.decision = other.decision

(* DecisionInteractionService.SubmitAsync up to its turn. *)
PostDecision(h, r, id, decision) ==
    LET response == [id |-> id, decision |-> decision, round |-> 0] IN
    /\ pc[h] = "idle"
    /\ IF db[r].response # NoResponse
       THEN Answer(h, IF SameDecision(db[r].response, response) THEN "ok" ELSE "no")
       ELSE IF Resolve(db[r]).kind # "Approval"
       THEN Answer(h, "no")
       ELSE Begin(h, "queued",
                  [NoJob EXCEPT !.kind = "decide", !.release = r,
                                !.response = response])

(* ResumeApprovalCoreAsync.  Its replay test compares the whole response,  *)
(* RespondedAt included: two posts of one form are equal only if the clock *)
(* did not move between them.                                              *)
ResumeApproval(h) ==
    /\ pc[h] = "resuming"
    /\ job[h].kind = "decide"
    /\ UNCHANGED <<db, checkpoint>>
    /\ \/ /\ SameDecision(Row(h).response, job[h].response)
          /\ Leave(h, "ok")
       \/ LET expected == Resolve(Row(h)) IN
          /\ IF expected.kind = "Approval"
                /\ checkpoint[job[h].release] = expected
             THEN Goto(h, "deciding")
             ELSE Goto(h, "failing")
          /\ UNCHANGED <<gate, job, tracked, reply>>

\* The release with this decision, bound to the round of the open question.
Decided(h) ==
    [Row(h) EXCEPT
        !.phase = IF job[h].response.decision = "Approve"
                  THEN "Approved" ELSE "Rejected",
        !.response = [job[h].response EXCEPT !.round = Row(h).active.round],
        !.active = NoWait,
        !.timeline = Append(@, "HumanResponseAccepted")]

(* HumanDecisionHandler.HandleAsync and SaveHumanResponseAsync. *)
SaveResponse(h) ==
    /\ pc[h] = "deciding"
    /\ IF /\ Row(h).phase = "WaitingForApproval"
          /\ {Row(h).active} = Approvals(Row(h))
       THEN Commit(h, Decided(h), "finishing")
       ELSE Throw(h)
    /\ UNCHANGED <<checkpoint, gate, job, reply>>

(* The workflow completes and writes its last checkpoint.  If that fails,  *)
(* ResumeApprovalCoreAsync finds its own response on record and reports    *)
(* success all the same.                                                   *)
FinishApproval(h) ==
    /\ pc[h] = "finishing"
    /\ \/ checkpoint' = [checkpoint EXCEPT ![job[h].release] = Completed]
       \/ "technical" \in Faults /\ UNCHANGED checkpoint
    /\ Leave(h, "ok")
    /\ UNCHANGED db

(* DecisionInteractionService.GetActiveAsync, which renders the decision   *)
(* page: a first read, then a restore in a turn of its own.                *)
ViewDecision(h, r) ==
    /\ pc[h] = "idle"
    /\ IF Resolve(db[r]).kind # "Approval"
       THEN Answer(h, "no")
       ELSE Begin(h, "queued", [NoJob EXCEPT !.kind = "view", !.release = r])

RestoreForView(h) ==
    /\ pc[h] = "resuming"
    /\ job[h].kind = "view"
    /\ UNCHANGED <<db, checkpoint>>
    /\ LET expected == Resolve(Row(h)) IN
       IF expected # NoWait /\ checkpoint[job[h].release] = expected
       THEN Leave(h, "ok")
       ELSE /\ Goto(h, "failing")
            /\ UNCHANGED <<gate, job, tracked, reply>>
-----------------------------------------------------------------------------
(* Turns and failures.                                                     *)

\* Mutant: a handler starts its turn without waiting for the gate.
AcquireGateAtOnce(h) ==
    /\ pc[h] = "queued"
    /\ gate' = h
    /\ Goto(h, IF job[h].kind = "submit" THEN "planning" ELSE "resuming")
    /\ UNCHANGED <<db, checkpoint, job, tracked, reply>>

(* ExecuteExclusivelyAsync. *)
AcquireGate(h) ==
    /\ pc[h] = "queued"
    /\ gate = Nobody
    /\ gate' = h
    /\ Goto(h, IF job[h].kind = "submit" THEN "planning" ELSE "resuming")
    /\ UNCHANGED <<db, checkpoint, job, tracked, reply>>

\* Mutant: the rows stay tracked.
KeepTracker(rows) == rows

(* ChangeTracker.Clear(): what an earlier SaveChangesAsync could not write *)
(* is not written with the failure.                                        *)
ClearTracker(rows) == {}

\* The release as RequireMutableRelease loads it, tracked rows first.
Loaded(h) ==
    IF ClearTracker(tracked[h]) = {} THEN Row(h)
    ELSE CHOOSE row \in ClearTracker(tracked[h]) : TRUE

\* Mutants: any release can be failed; only one that waits can.
MayAlwaysFail(h) == TRUE
MayFailWaiting(h) == Row(h).phase \in Waiting

\* MarkFailedAsync leaves a failed release alone, RequireMutableRelease refuses
\* a decided one.
MayFail(h) == Row(h).phase # "Failed" /\ Loaded(h).phase \notin Terminal

\* The release marked as failed.
FailedRow(h) ==
    [Loaded(h) EXCEPT !.phase = "Failed",
                      !.timeline = Append(@, "WorkflowFailed")]

(* ExecuteWithFailureAsync, MarkFailedAsync and MarkWorkflowFailedAsync.   *)
(* Only a decision looks at the release again after this, outside the      *)
(* gate, and only if what it caught is a failure of its workflow           *)
(* (IsSafeInteractionFailure), not one of the database's own exceptions.   *)
MarkFailed(h) ==
    /\ pc[h] = "failing"
    /\ \/ MayFail(h) /\ db' = [db EXCEPT ![job[h].release] = FailedRow(h)]
       \/ (~MayFail(h) \/ "commit" \in Faults) /\ UNCHANGED db
    /\ \/ /\ job[h].kind = "decide"
          /\ Goto(h, "rereading")
          /\ gate' = Nobody
          /\ tracked' = [tracked EXCEPT ![h] = {}]
          /\ UNCHANGED <<job, reply>>
       \/ /\ job[h].kind = "decide" =>
                "technical" \in Faults /\ Row(h).phase \notin Terminal
          /\ Leave(h, "error")
    /\ UNCHANGED checkpoint

(* DecisionInteractionService.SubmitAsync's catch block. *)
Reread(h) ==
    /\ pc[h] = "rereading"
    /\ \/ Leave(h, IF Row(h).response = NoResponse THEN "unsafe"
                   ELSE IF SameDecision(Row(h).response, job[h].response) THEN "ok"
                   ELSE "no")
       \/ "technical" \in Faults /\ Leave(h, "error")
    /\ UNCHANGED <<db, checkpoint>>

(* An exception out of an executor, a provider, a read or the framework. *)
TechnicalFault(h) ==
    /\ "technical" \in Faults
    /\ pc[h] \in TurnSteps \ {"finishing", "failing"}
    /\ Throw(h)
    /\ UNCHANGED <<checkpoint, gate, job, reply>>

(* The client goes away: OperationCanceledException passes every catch     *)
(* block, and MarkFailedAsync is given the same cancelled token.           *)
Cancel(h) ==
    /\ "cancel" \in Faults
    /\ pc[h] # "idle"
    /\ Leave(h, "none")
    /\ UNCHANGED <<db, checkpoint>>

(* The process dies; SQLite and the checkpoint directory stay. *)
Crash ==
    /\ "crash" \in Faults
    /\ \E h \in Handlers : pc[h] # "idle"
    /\ pc' = [h \in Handlers |-> "idle"]
    /\ job' = [h \in Handlers |-> NoJob]
    /\ tracked' = [h \in Handlers |-> {}]
    /\ reply' = [h \in Handlers |-> "none"]
    /\ gate' = Nobody
    /\ UNCHANGED <<db, checkpoint>>

(* A session's checkpoint is removed or damaged on disk. *)
LoseCheckpoint(r) ==
    /\ "checkpoint" \in Faults
    /\ checkpoint[r].kind \in {"Remediation", "Approval"}
    /\ checkpoint' = [checkpoint EXCEPT ![r] = Unreadable]
    /\ UNCHANGED <<db, gate, pc, job, tracked, reply>>
-----------------------------------------------------------------------------
Fills == [Checks -> Verdicts \cup {NoEvidence}]

\* A client sends a request.
Post(h) ==
    \E r \in Releases :
        \/ \E fill \in Fills : PostNew(h, r, fill)
        \/ \E round \in 1 .. MaxRounds, fill \in Fills, rerun \in SUBSET Checks :
               PostRemediation(h, r, round, fill, rerun)
        \/ \E id \in ResponseIds, decision \in Decisions :
               PostDecision(h, r, id, decision)
        \/ ViewDecision(h, r)

\* The server works on it, its place in the queue apart.
Work(h) ==
    \/ InsertRelease(h)
    \/ CheckRemediation(h)
    \/ ResumeRemediation(h)
    \/ SaveSubmission(h)
    \/ PlanRound(h)
    \/ SaveRound(h)
    \/ OpenRemediation(h)
    \/ OpenApproval(h)
    \/ ReachWait(h)
    \/ SaveCorrelation(h)
    \/ ResumeApproval(h)
    \/ SaveResponse(h)
    \/ FinishApproval(h)
    \/ RestoreForView(h)
    \/ MarkFailed(h)
    \/ Reread(h)

Next ==
    \/ \E h \in Handlers :
           \/ Post(h)
           \/ Work(h)
           \/ AcquireGate(h)
           \/ TechnicalFault(h)
           \/ Cancel(h)
    \/ \E r \in Releases : LoseCheckpoint(r)
    \/ Crash

Spec == Init /\ [][Next]_vars

(* A handler that is running goes on running, and SemaphoreSlim hands the  *)
(* gate to those who wait for it.  Nothing makes a client send a request,  *)
(* and no fault has to happen.                                             *)
FairSpec ==
    /\ Spec
    /\ \A h \in Handlers : WF_vars(Work(h)) /\ SF_vars(AcquireGate(h))
=============================================================================
