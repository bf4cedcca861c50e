---------------------------- MODULE RoundPlanning ---------------------------
(***************************************************************************)
(* How one check gets its result in a round: RoundPlanner decides whether  *)
(* to execute it or to reuse the previous result, BranchExecution and      *)
(* ResultReuse produce the BranchResult.                                   *)
(*                                                                         *)
(* An evidence record is the verdict its policy returns for it: the        *)
(* policies are deterministic functions of the release and the record.     *)
(* It is named by its version, its place in the branch's history; version  *)
(* 0 stands for "no evidence" (a null EvidenceId).                         *)
(***************************************************************************)
EXTENDS Naturals, Sequences

\* BranchOutcome values no policy returns; the executor gives them itself.
MissingEvidence == "MissingEvidence"
TransientFailure == "TransientFailure"
Passed == "Passed"

\* ReuseSourceRound of an executed result (null in the code).
Executed == 0

\* The result of a check nobody has evaluated yet (no previous result).
NoResult == [outcome |-> "None", version |-> 0, source |-> Executed]

Results(Verdicts) ==
    [outcome : Verdicts \cup {MissingEvidence, TransientFailure, "None"},
     version : Nat,
     source : Nat]

(* RoundPlanner.SelectReason with the first-evaluation case of Plan. *)
PlanningReason(previous, rerun, version) ==
    CASE previous = NoResult           -> "InitialEvaluation"
      [] previous # NoResult /\ rerun  -> "ExplicitlySelected"
      [] previous # NoResult /\ ~rerun /\ previous.version # version
                                       -> "EvidenceChanged"
      [] previous # NoResult /\ ~rerun /\ previous.version = version
           /\ previous.outcome # Passed -> "PreviousResultNotPassed"
      [] OTHER                         -> "UnchangedEvidence"

\* Mutant: the policy is given the branch's first record, not its current one.
ExecuteFirst(history, exhausted) ==
    [outcome |->
        IF history = <<>> THEN MissingEvidence
        ELSE IF exhausted THEN TransientFailure
        ELSE history[1],
     version |-> Len(history),
     source |-> Executed]

(* BranchExecution.ExecuteAsync on the branch's evidence history.  The     *)
(* provider is retried within the call; `exhausted` says every attempt     *)
(* failed with a known transient failure, which names a record.            *)
Execute(history, exhausted) ==
    [outcome |->
        IF history = <<>> THEN MissingEvidence
        ELSE IF exhausted THEN TransientFailure
        ELSE history[Len(history)],
     version |-> Len(history),
     source |-> Executed]

\* Mutant: the reused result names the round it is reused in as its source.
ReuseOfThisRound(previous, round) ==
    [outcome |-> Passed, version |-> previous.version, source |-> round]

(* ResultReuse.Create: the previous round's passing result, carried over. *)
Reuse(previous, round) ==
    [outcome |-> Passed, version |-> previous.version, source |-> round - 1]

(* ResultReuse's own checks of the result it is asked to carry over. *)
ReuseVerified(previous, version) ==
    /\ previous.outcome = Passed
    /\ previous.version # 0
    /\ previous.version = version

(* One branch of a round: plan it, then execute it or reuse. *)
Evaluate(previous, rerun, history, exhausted, round) ==
    IF PlanningReason(previous, rerun, Len(history)) = "UnchangedEvidence"
    THEN Reuse(previous, round)
    ELSE Execute(history, exhausted)
=============================================================================
