-------------------------- MODULE ReleaseLifecycle --------------------------
(***************************************************************************)
(* What a release promises whoever looks at it, with no handler, request,  *)
(* checkpoint or evidence record in sight: rounds and answers alternate,   *)
(* only a round that passed everything is put before a human, one decision *)
(* is taken, and a release that ended stays as it ended.  ReleaseWorkflow  *)
(* is shown to implement this module.                                      *)
(***************************************************************************)
EXTENDS Naturals

CONSTANT Releases

VARIABLES
    phase,      \* ReleaseRow.Phase, "None" before the release exists
    evaluated,  \* how many rounds were completed
    answered,   \* how many remediation requests were answered
    passing     \* did the last completed round pass every check?

vars == <<phase, evaluated, answered, passing>>

\* IsTerminal covers the two decisions; MarkFailed treats Failed as an end too.
Ended == {"Approved", "Rejected", "Failed"}

Init ==
    /\ phase = [r \in Releases |-> "None"]
    /\ evaluated = [r \in Releases |-> 0]
    /\ answered = [r \in Releases |-> 0]
    /\ passing = [r \in Releases |-> FALSE]

Enter(r, from, to) ==
    /\ phase[r] = from
    /\ phase' = [phase EXCEPT ![r] = to]

Submit(r) ==
    /\ Enter(r, "None", "Evaluating")
    /\ UNCHANGED <<evaluated, answered, passing>>

\* A round is completed once per answer, the first one before any answer.
Evaluate(r) ==
    /\ phase[r] = "Evaluating"
    /\ evaluated[r] = answered[r]
    /\ evaluated' = [evaluated EXCEPT ![r] = @ + 1]
    /\ \E verdict \in BOOLEAN : passing' = [passing EXCEPT ![r] = verdict]
    /\ UNCHANGED <<phase, answered>>

AskRemediation(r) ==
    /\ Enter(r, "Evaluating", "WaitingForRemediation")
    /\ evaluated[r] = answered[r] + 1
    /\ ~passing[r]
    /\ UNCHANGED <<evaluated, answered, passing>>

AskApproval(r) ==
    /\ Enter(r, "Evaluating", "WaitingForApproval")
    /\ evaluated[r] = answered[r] + 1
    /\ passing[r]
    /\ UNCHANGED <<evaluated, answered, passing>>

Answer(r) ==
    /\ Enter(r, "WaitingForRemediation", "Evaluating")
    /\ answered' = [answered EXCEPT ![r] = @ + 1]
    /\ UNCHANGED <<evaluated, passing>>

Decide(r) ==
    /\ \E decision \in {"Approved", "Rejected"} :
           Enter(r, "WaitingForApproval", decision)
    /\ UNCHANGED <<evaluated, answered, passing>>

Fail(r) ==
    /\ phase[r] \notin Ended \cup {"None"}
    /\ phase' = [phase EXCEPT ![r] = "Failed"]
    /\ UNCHANGED <<evaluated, answered, passing>>

Next ==
    \E r \in Releases :
        \/ Submit(r)
        \/ Evaluate(r)
        \/ AskRemediation(r)
        \/ AskApproval(r)
        \/ Answer(r)
        \/ Decide(r)
        \/ Fail(r)

Spec == Init /\ [][Next]_vars
=============================================================================
