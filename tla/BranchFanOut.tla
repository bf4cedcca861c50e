---------------------------- MODULE BranchFanOut ---------------------------
(***************************************************************************)
(* One turn that evaluates a round, from the inside: the planner sends one *)
(* work item to each branch, the branches run side by side in one          *)
(* superstep and meet in a fan-in barrier, and the aggregator receives     *)
(* their results one after the other and completes the round.              *)
(*                                                                         *)
(* Every part of a turn uses the one DbContext of its request, which must  *)
(* not be used by two operations at once.  The branches that execute are   *)
(* kept apart by _currentEvidenceGate, a semaphore of one slot; the        *)
(* planner, the aggregator and the failure handler by running before and   *)
(* after them.  A step here ends where the code awaits.                    *)
(***************************************************************************)
EXTENDS Naturals, Sequences, FiniteSets, RoundPlanning

CONSTANTS
    Checks,      \* readiness checks, each with its branch and its executor
    Verdicts,    \* what a policy may say of an evidence record
    MaxRounds,   \* bound: no remediation is posted after this many rounds
    Faults       \* what may go wrong in this run, see FaultKinds

FaultKinds ==
    {"transient",  \* a provider throws KnownTransientEvidenceProviderException
     "technical",  \* a read or a write throws anything else
     "cancel"}     \* the client goes away: HttpContext.RequestAborted

ASSUME ConstantsAssumption ==
    /\ Passed \in Verdicts
    /\ Verdicts \cap {MissingEvidence, TransientFailure, "None"} = {}
    /\ Checks # {}
    /\ IsFiniteSet(Checks)
    /\ MaxRounds \in Nat \ {0}
    /\ Faults \subseteq FaultKinds

VARIABLES
    evidence,   \* each branch's records by version, the last one is current
    rounds,     \* the rounds on record
    turn,       \* where the turn is, as its coordinator sees it
    branch,     \* what each branch executor is doing
    slots,      \* free slots of _currentEvidenceGate
    inbox,      \* branch results on the fan-in edge, in the order they came
    collected,  \* ReadinessAggregator._results
    aborted     \* the client went away during this turn

vars == <<evidence, rounds, turn, branch, slots, inbox, collected, aborted>>
-----------------------------------------------------------------------------
(* Branches.                                                               *)

\* EvidenceProviderRetry.MaximumAttempts.
MaximumAttempts == 3

\* A work item: the planner's reason, the result it compared with and the
\* current record it saw.  Only "UnchangedEvidence" is work to reuse.
WorkItem(reason, previous, version) ==
    [reason |-> reason, previous |-> previous, version |-> version]
NoWork == WorkItem("None", NoResult, 0)

\* failures: the record each failed attempt of the provider named;
\* pointer: the version the first read of the data service found.
NoBranch ==
    [step |-> "idle", work |-> NoWork, failures |-> <<>>, pointer |-> 0,
     result |-> NoResult]

\* Inside _currentEvidenceGate: reading the CurrentEvidence row, then the
\* EvidenceRecords row it points to.
Reading == {"finding", "loading"}
BranchSteps == {"idle", "ready", "queued", "done", "stopped"} \cup Reading

\* Steps of a turn; in the last four it has ended.
TurnSteps ==
    {"planning", "branches", "collecting", "completing", "disposing", "marking",
     "idle", "waiting", "failed", "aborted"}
Running == {"planning", "branches", "collecting", "completing", "disposing", "marking"}

\* Readers of the DbContext: the turn's own step and the branches that read.
OwnReads == {"planning", "completing", "marking"}
Readers ==
    {c \in Checks : branch[c].step \in Reading}

Latest(c) == IF rounds = <<>> THEN NoResult ELSE rounds[Len(rounds)][c]

Init ==
    /\ evidence = [c \in Checks |-> <<>>]
    /\ rounds = <<>>
    /\ turn = "idle"
    /\ branch = [c \in Checks |-> NoBranch]
    /\ slots = 1
    /\ inbox = <<>>
    /\ collected = <<>>
    /\ aborted = FALSE
-----------------------------------------------------------------------------
(* Turns begin.                                                            *)

\* A turn gets a workflow of its own: ReleaseWorkflowFactory.Create makes new
\* executors, among them a new aggregator; and the data service with its gate
\* is that of a new request.
BeginTurn ==
    /\ turn' = "planning"
    /\ branch' = [c \in Checks |-> NoBranch]
    /\ slots' = 1
    /\ inbox' = <<>>
    /\ collected' = <<>>
    /\ UNCHANGED <<rounds, aborted>>

\* A release is submitted with a first record for some of its branches.
Submit ==
    /\ turn = "idle"
    /\ \E first \in [Checks -> {<<>>} \cup {<<v>> : v \in Verdicts}] :
           evidence' = first
    /\ BeginTurn

\* The submitter answers a round that has a problem with new records.  The
\* checks to rerun go to the planner with the start of the round.  A turn that
\* is cut short after its round leaves no question to answer.
Remediate ==
    /\ turn = "waiting"
    /\ ~aborted
    /\ \E c \in Checks : Latest(c).outcome # Passed
    /\ Len(rounds) < MaxRounds
    /\ \E fill \in [Checks -> {<<>>} \cup {<<v>> : v \in Verdicts}] :
           evidence' = [c \in Checks |-> evidence[c] \o fill[c]]
    /\ BeginTurn

(* ReadinessPlanner.PlanAsync: one read of the release, three work items,  *)
(* which the conditional edges of the workflow route by their check.       *)
Plan ==
    /\ turn = "planning"
    /\ turn' = "branches"
    /\ \E rerun \in IF rounds = <<>> THEN {{}} ELSE SUBSET Checks :
           branch' = [c \in Checks |->
               [NoBranch EXCEPT
                   !.step = "ready",
                   !.work = WorkItem(
                       PlanningReason(Latest(c), c \in rerun, Len(evidence[c])),
                       Latest(c), Len(evidence[c]))]]
    /\ UNCHANGED <<evidence, rounds, slots, inbox, collected, aborted>>
-----------------------------------------------------------------------------
(* A branch.                                                               *)

\* The branch goes on to a step; `freed` slots of the evidence gate come free.
Goto(c, step, freed) ==
    /\ branch' = [branch EXCEPT ![c].step = step]
    /\ slots' = slots + freed
    /\ UNCHANGED <<evidence, rounds, turn, inbox, collected, aborted>>

\* It ends with a result, which is sent to the fan-in edge.
Finish(c, result, freed) ==
    /\ branch' = [branch EXCEPT ![c].step = "done", ![c].result = result]
    /\ inbox' = Append(inbox, [check |-> c, result |-> result])
    /\ slots' = slots + freed
    /\ UNCHANGED <<evidence, rounds, turn, collected, aborted>>

(* ReadinessBranchExecutor.EvaluateAsync: work to reuse is done at once,   *)
(* by ResultReuse.Create; other work asks the provider.                    *)
StartBranch(c) ==
    LET work == branch[c].work IN
    /\ branch[c].step = "ready"
    /\ IF work.reason # "UnchangedEvidence" THEN Goto(c, "queued", 0)
       ELSE IF ReuseVerified(work.previous, work.version)
       THEN Finish(c, Reuse(work.previous, Len(rounds) + 1), 0)
       ELSE Goto(c, "stopped", 0)

\* Mutant: there is no finally, the gate is only released on the way back.
GivenBackOnReturn(step) == 0

\* Mutant: the wait is inside the try block too.
GivenBackByAll(step) == IF step \in Reading \cup {"queued"} THEN 1 ELSE 0

\* The slot a branch gives back when an exception takes it out of its step:
\* the wait for the gate is outside the try block, the reads are inside.
GivenBack(step) == IF step \in Reading THEN 1 ELSE 0

(* GetCurrentEvidenceAsync enters _currentEvidenceGate. *)
EnterEvidenceGate(c) ==
    /\ branch[c].step = "queued"
    /\ slots > 0
    /\ branch' = [branch EXCEPT ![c].step = "finding"]
    /\ slots' = slots - 1
    /\ UNCHANGED <<evidence, rounds, turn, inbox, collected, aborted>>

(* Its first read: the pointer to the current record, if there is one.     *)
FindCurrent(c) ==
    /\ branch[c].step = "finding"
    /\ IF evidence[c] = <<>>
       THEN Finish(c, Execute(<<>>, FALSE), 1)
       ELSE /\ branch' = [branch EXCEPT ![c].step = "loading",
                                        ![c].pointer = Len(evidence[c])]
            /\ UNCHANGED <<evidence, rounds, turn, slots, inbox, collected, aborted>>

\* Mutant: it reads the branch's first record, which is not the current one.
LoadFirstRecord(c) ==
    /\ branch[c].step = "loading"
    /\ Finish(c, Execute(SubSeq(evidence[c], 1, 1), FALSE), 1)

(* Its second read: the record, which goes to the policy.  The gate is     *)
(* released on the way.                                                    *)
LoadRecord(c) ==
    /\ branch[c].step = "loading"
    /\ Finish(c, Execute(SubSeq(evidence[c], 1, branch[c].pointer), FALSE), 1)

\* The provider's failures are about one record.
SameRecord(failures, record) == \A i \in 1 .. Len(failures) : failures[i] = record

\* Mutant: the loop gives up one attempt early.
IsLastButOne(failures) == Len(failures) + 1 = MaximumAttempts - 1

\* This failure is that of the last attempt.
IsLastAttempt(failures) == Len(failures) + 1 = MaximumAttempts

(* EvidenceProviderRetry.GetCurrentAsync catches a known transient failure *)
(* that names a record: it asks again, gives up, or throws if the failures *)
(* are about different records.                                            *)
FailTransiently(c) ==
    /\ "transient" \in Faults
    /\ branch[c].step \in Reading
    /\ \E record \in 1 .. Len(evidence[c]) :
           IF ~SameRecord(branch[c].failures, record) THEN Goto(c, "stopped", GivenBack(branch[c].step))
           ELSE IF IsLastAttempt(branch[c].failures)
           THEN Finish(c, [outcome |-> TransientFailure, version |-> record,
                           source |-> Executed], GivenBack(branch[c].step))
           ELSE /\ branch' = [branch EXCEPT
                                 ![c].step = "queued",
                                 ![c].failures = Append(@, record)]
                /\ slots' = slots + GivenBack(branch[c].step)
                /\ UNCHANGED <<evidence, rounds, turn, inbox, collected, aborted>>

(* A read throws: the executor fails. *)
FailTechnically(c) ==
    /\ "technical" \in Faults
    /\ branch[c].step \in Reading
    /\ Goto(c, "stopped", GivenBack(branch[c].step))

(* The branch is cancelled where it waits or reads, or is not started: by  *)
(* the request's token, or by the run that is being disposed.              *)
StopBranch(c) ==
    /\ aborted \/ turn = "disposing"
    /\ branch[c].step \in {"ready", "queued"} \cup Reading
    /\ Goto(c, "stopped", GivenBack(branch[c].step))
-----------------------------------------------------------------------------
(* The turn.                                                               *)

Proceed(step) ==
    /\ turn' = step
    /\ UNCHANGED <<evidence, rounds, branch, slots, inbox, collected, aborted>>

(* AddFanInBarrierEdge: the results are handed on when every branch has    *)
(* sent one.                                                               *)
FanIn ==
    /\ turn = "branches"
    /\ \A c \in Checks : branch[c].step = "done"
    /\ Proceed("collecting")

\* Mutant: the result that completes the round is not looked at.
IsRepeated(list, item) == \E i \in 1 .. Len(list) : list[i].result = item.result

\* A second result of one branch.
IsDuplicate(list, item) == \E i \in 1 .. Len(list) : list[i].check = item.check

\* As many results as there are branches.
IsComplete(list) == Len(list) = Cardinality(Checks)

(* ReadinessAggregator.ReceiveAsync, once per result. *)
Receive ==
    /\ turn = "collecting"
    /\ inbox # <<>>
    /\ LET list == Append(collected, Head(inbox)) IN
       IF IsDuplicate(collected, Head(inbox))
       THEN Proceed("disposing")
       ELSE /\ collected' = list
            /\ inbox' = Tail(inbox)
            /\ turn' = IF IsComplete(list) THEN "completing" ELSE turn
            /\ UNCHANGED <<evidence, rounds, branch, slots, aborted>>

\* The one result a list holds for each check, as EvaluationRound wants it.
ResultOf(list, c) == list[CHOOSE i \in 1 .. Len(list) : list[i].check = c].result

(* RoundAggregator.CompleteAsync: the round is recorded, the turn goes on  *)
(* to its next wait and the list is cleared.  A round without a result for *)
(* every check is refused by the constructor of EvaluationRound.           *)
Complete ==
    /\ turn = "completing"
    /\ IF \A c \in Checks : \E i \in 1 .. Len(collected) : collected[i].check = c
       THEN /\ rounds' = Append(rounds, [c \in Checks |-> ResultOf(collected, c)])
            /\ collected' = <<>>
            /\ turn' = "waiting"
            /\ UNCHANGED <<evidence, branch, slots, inbox, aborted>>
       ELSE Proceed("disposing")

\* An ExecutorFailedEvent is in the stream.
FailureSeen == \E c \in Checks : branch[c].step = "stopped"

(* The coordinator's event loop ends: an ExecutorFailedEvent arrived, or   *)
(* the token it watches with was cancelled.                                *)
LeaveEventLoop ==
    /\ turn \in {"planning", "branches", "collecting", "completing"}
    /\ \/ aborted
       \/ FailureSeen
       \/ "technical" \in Faults /\ turn # "branches"
    /\ Proceed("disposing")

\* Mutant: the run is not disposed before the failure handler runs.
QuietAnyhow == TRUE

\* What disposing the run waits for: no executor is running any more.
Quiet == \A c \in Checks : branch[c].step \in {"idle", "done", "stopped"}

(* `await using var run`, then ExecuteWithFailureAsync: a cancelled turn   *)
(* goes no further, another one is marked as failed.                       *)
DisposeRun ==
    /\ turn = "disposing"
    /\ Quiet
    /\ Proceed(IF aborted THEN "aborted" ELSE "marking")

(* MarkFailedAsync, with the request's token. *)
MarkFailed ==
    /\ turn = "marking"
    /\ Proceed(IF aborted THEN "aborted" ELSE "failed")

(* The client goes away. *)
Abort ==
    /\ "cancel" \in Faults
    /\ turn \in Running
    /\ ~aborted
    /\ aborted' = TRUE
    /\ UNCHANGED <<evidence, rounds, turn, branch, slots, inbox, collected>>
-----------------------------------------------------------------------------
\* What a branch does of itself, but for its place in the gate's queue.
RunBranch(c) ==
    \/ StartBranch(c)
    \/ FindCurrent(c)
    \/ LoadRecord(c)
    \/ FailTransiently(c)
    \/ FailTechnically(c)
    \/ StopBranch(c)

\* What the turn does of itself.
RunTurn ==
    \/ Plan
    \/ FanIn
    \/ Receive
    \/ Complete
    \/ LeaveEventLoop
    \/ DisposeRun
    \/ MarkFailed

Next ==
    \/ Submit
    \/ Remediate
    \/ \E c \in Checks : RunBranch(c) \/ EnterEvidenceGate(c)
    \/ RunTurn
    \/ Abort

Spec == Init /\ [][Next]_vars

(* What has been started runs on, and SemaphoreSlim lets a waiter in when  *)
(* a slot comes free again and again.                                      *)
FairSpec ==
    /\ Spec
    /\ WF_vars(RunTurn)
    /\ \A c \in Checks : WF_vars(RunBranch(c)) /\ SF_vars(EnterEvidenceGate(c))
=============================================================================
