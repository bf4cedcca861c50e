----------------------- MODULE BranchFanOutProperties ----------------------
(***************************************************************************)
(* What BranchFanOut must keep true.                                       *)
(***************************************************************************)
EXTENDS BranchFanOut

Branches ==
    [step : BranchSteps,
     work : [reason : {"None", "InitialEvaluation", "ExplicitlySelected",
                       "EvidenceChanged", "PreviousResultNotPassed",
                       "UnchangedEvidence"},
             previous : Results(Verdicts),
             version : Nat],
     failures : Seq(Nat),
     pointer : Nat,
     result : Results(Verdicts)]

BranchResults == [check : Checks, result : Results(Verdicts)]

(* Every variable is of its kind; the evidence gate has one slot. *)
TypeOK ==
    /\ evidence \in [Checks -> Seq(Verdicts)]
    /\ rounds \in Seq([Checks -> Results(Verdicts)])
    /\ turn \in TurnSteps
    /\ branch \in [Checks -> Branches]
    /\ slots \in {0, 1}
    /\ inbox \in Seq(BranchResults)
    /\ collected \in Seq(BranchResults)
    /\ aborted \in BOOLEAN

(* The DbContext of the request is never used by two operations at once:   *)
(* not by two branches, and not by a branch and the planner, aggregator or *)
(* failure handler.  It rests on the evidence gate, on the barrier and on  *)
(* the disposal of the run before the failure handler starts.              *)
OneReader ==
    /\ \A c, d \in Readers : c = d
    /\ turn \in OwnReads => Readers = {}

(* The slot of the gate is taken by exactly the branch that reads: what    *)
(* enters leaves with it, however it leaves, and nothing else gives one    *)
(* back.                                                                   *)
SlotIsHeld == slots = (IF Readers = {} THEN 1 ELSE 0)

(* Only the superstep of the branches, and the disposal of its run, find a *)
(* branch that has not ended.                                              *)
BranchesEnd == turn \notin {"branches", "disposing"} => Quiet

(* What the first read of the data service found is still the current      *)
(* record at the second one: records and pointers only move between turns. *)
PointersFit ==
    \A c \in Checks :
        branch[c].step = "loading" =>
            evidence[c] # <<>> /\ branch[c].pointer = Len(evidence[c])

(* The inductive invariant behind OneReader. *)
IInv ==
    /\ TypeOK
    /\ OneReader
    /\ SlotIsHeld
    /\ BranchesEnd
    /\ PointersFit

(* A result is a TransientFailure only after as many failures as the code  *)
(* allows, all about the record the result names; and no branch asks its   *)
(* provider again after that many (EvidenceProviderRetry).                 *)
RetriesAreExact ==
    \A c \in Checks :
        /\ Len(branch[c].failures) < MaximumAttempts
        /\ branch[c].result.outcome = TransientFailure =>
               /\ Len(branch[c].failures) + 1 = MaximumAttempts
               /\ \A i \in 1 .. Len(branch[c].failures) :
                      branch[c].failures[i] = branch[c].result.version

(* No check of the code refuses what a turn does of itself: a branch that  *)
(* reuses finds its previous result fit for it, no result comes to the     *)
(* aggregator twice, and a round it completes has one for every check,     *)
(* whatever order the branches finish in and whatever failed before        *)
(* (ResultReuse.Create, ReadinessAggregator.ReceiveAsync, EvaluationRound).*)
ResultsAreAccepted ==
    /\ \A c \in Checks :
           branch[c].step = "ready" /\ branch[c].work.reason = "UnchangedEvidence"
               => ReuseVerified(branch[c].work.previous, branch[c].work.version)
    /\ turn = "collecting" /\ inbox # <<>> => ~IsDuplicate(collected, Head(inbox))
    /\ turn = "completing" => \A c \in Checks :
           \E i \in 1 .. Len(collected) : collected[i].check = c

RoundStatus ==
    CASE turn = "idle"    -> "none"
      [] turn = "waiting" -> "done"
      [] turn = "failed"  -> "failed"
      [] OTHER            -> "due"

Evaluation == INSTANCE RoundEvaluation WITH status <- RoundStatus

(* Three concurrent branches, a barrier and an aggregator that counts      *)
(* amount to one step: every round on record is RoundEvaluation's, one     *)
(* result per check, each on the evidence that is current.                 *)
ImplementsEvaluation == Evaluation!Spec

\* A branch before its result: it has none, and has failed too few times to
\* give up; what it only has to reuse does not take it to the gate.
Tried(b) ==
    /\ b.step # "done" => b.result = NoResult
    /\ b.step \in {"queued"} \cup Reading => b.work.reason # "UnchangedEvidence"
    /\ Len(b.failures) < MaximumAttempts
    /\ b.result.outcome = TransientFailure =>
           /\ Len(b.failures) + 1 = MaximumAttempts
           /\ SameRecord(b.failures, b.result.version)

\* A branch's work is what the planner makes of the latest round and of the
\* current evidence, and its result one RoundEvaluation allows.
OnPlan(b, past, history, c) ==
    LET previous == Evaluation!PreviousResult(past, c) IN
    /\ b.step # "idle" =>
           \E rerun \in BOOLEAN :
               b.work = WorkItem(PlanningReason(previous, rerun, Len(history)),
                                 previous, Len(history))
    /\ b.step = "done" =>
           \E rerun \in BOOLEAN :
               b.result \in Evaluation!MayResult(past, history, rerun, c)

\* Results on their way are those of branches that are done.
Sent(list) ==
    \A i \in 1 .. Len(list) :
        /\ branch[list[i].check].step = "done"
        /\ branch[list[i].check].result = list[i].result

\* No branch is twice in a list.
Once(list) ==
    \A i, j \in 1 .. Len(list) : list[i].check = list[j].check => i = j

(* The invariant behind RetriesAreExact, ResultsAreAccepted and            *)
(* ImplementsEvaluation.                                                   *)
FInv ==
    /\ IInv
    /\ \A c \in Checks : Tried(branch[c])
    /\ turn # "waiting" =>
           \A c \in Checks : OnPlan(branch[c], rounds, evidence[c], c)
    /\ Sent(inbox) /\ Once(inbox)
    /\ Sent(collected) /\ Once(collected)
    /\ \A i \in 1 .. Len(inbox) : ~IsDuplicate(collected, inbox[i])
    /\ turn = "planning" => inbox = <<>> /\ collected = <<>>
    /\ turn = "completing" => IsComplete(collected)
    /\ turn = "waiting" => rounds # <<>>
    /\ \A c \in Checks : Latest(c).outcome = Passed => Latest(c).version # 0

(* Under FairSpec: a turn ends, whatever its branches and their providers  *)
(* do, and no branch waits for the evidence gate for ever.  A branch that  *)
(* fails fails its turn, unless the client went away: the barrier, which   *)
(* waits for its result, does not hide it.                                 *)
TurnEnds ==
    turn \in Running ~>
        turn \notin Running /\ (FailureSeen => turn \in {"failed", "aborted"})
=============================================================================
