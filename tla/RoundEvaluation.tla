-------------------------- MODULE RoundEvaluation --------------------------
(***************************************************************************)
(* What the evaluation of one release promises, in the fewest steps: a     *)
(* round is planned, executed and recorded at once, on the evidence that   *)
(* is current when it is recorded.  The workflow takes many steps for it,  *)
(* and the three branches of a round run side by side; ReleaseWorkflow and *)
(* BranchFanOut are both shown to implement this.                          *)
(***************************************************************************)
EXTENDS Naturals, Sequences, RoundPlanning

CONSTANTS
    Checks,   \* readiness checks, each with its branch of evidence
    Verdicts  \* what a policy may say of an evidence record

VARIABLES
    status,    \* "none", a round is "due", the last one is "done", "failed"
    evidence,  \* each branch's records by version, the last one is current
    rounds     \* the rounds on record: one result per check

vars == <<status, evidence, rounds>>

\* The result the planner compares with: the one in the latest round.
PreviousResult(past, c) ==
    IF past = <<>> THEN NoResult ELSE past[Len(past)][c]

\* What an execution that exhausts its provider reports: the record the
\* provider failed on, which is for the provider to say.
Exhausted(version) ==
    [outcome |-> TransientFailure, version |-> version, source |-> Executed]

\* What a check may contribute to the round after `past`.
MayResult(past, history, rerun, c) ==
    LET previous == PreviousResult(past, c) IN
    {Evaluate(previous, rerun, history, FALSE, Len(past) + 1)}
    \cup {Exhausted(v) : v \in
            IF PlanningReason(previous, rerun, Len(history)) = "UnchangedEvidence"
            THEN {} ELSE 1 .. Len(history)}

\* A branch's history, as it is or with one record more.
Extensions(history) == {history} \cup {Append(history, v) : v \in Verdicts}

Init ==
    /\ status = "none"
    /\ evidence = [c \in Checks |-> <<>>]
    /\ rounds = <<>>

Submit ==
    /\ status = "none"
    /\ status' = "due"
    /\ \A c \in Checks : evidence'[c] \in Extensions(<<>>)
    /\ DOMAIN evidence' = Checks
    /\ UNCHANGED rounds

\* One result per check: a function of the evidence, the previous round and
\* the checks selected for rerun, but for providers that fail.
EvaluateRound ==
    /\ status = "due"
    /\ status' = "done"
    /\ \E rerun \in SUBSET Checks :
           LET May(c) == MayResult(rounds, evidence[c], c \in rerun, c) IN
           \E results \in [Checks -> UNION {May(c) : c \in Checks}] :
               /\ \A c \in Checks : results[c] \in May(c)
               /\ rounds' = Append(rounds, results)
    /\ UNCHANGED evidence

\* Only a round with a problem is answered.
Remediate ==
    /\ status = "done"
    /\ \E c \in Checks : rounds[Len(rounds)][c].outcome # Passed
    /\ status' = "due"
    /\ \A c \in Checks : evidence'[c] \in Extensions(evidence[c])
    /\ DOMAIN evidence' = Checks
    /\ UNCHANGED rounds

Fail ==
    /\ status \in {"due", "done"}
    /\ status' = "failed"
    /\ UNCHANGED <<evidence, rounds>>

Next == Submit \/ EvaluateRound \/ Remediate \/ Fail

Spec == Init /\ [][Next]_vars
=============================================================================
