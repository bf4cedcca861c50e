--------------------------- MODULE ReleaseInstants --------------------------
(***************************************************************************)
(* The instants on a release's records.  Each is read from the clock at a  *)
(* moment of its own: a form's before it queues for the turn gate, a       *)
(* round's when it is completed, a request's and a failure's in the turn.  *)
(* The domain compares them when they are used and refuses one that is     *)
(* earlier than the one before it; a refused turn ends in the failure      *)
(* handler, which brings an instant of its own.                            *)
(*                                                                         *)
(* One release, at the level of its turns (ReleaseWorkflow has the steps). *)
(***************************************************************************)
EXTENDS Naturals, Sequences

CONSTANTS
    Handlers,   \* requests in flight that post a form
    MaxTime,    \* bound: the clock stops there
    MaxRounds,  \* bound: no remediation is posted after this many rounds
    Faults      \* "technical": something throws; "setback": the clock is

ASSUME ConstantsAssumption ==
    /\ MaxTime \in Nat
    /\ MaxRounds \in Nat \ {0}
    /\ Faults \subseteq {"technical", "setback"}

VARIABLES
    now,         \* TimeProvider.System
    submittedAt, \* ReleaseRow.SubmittedAtUtc
    phase,       \* ReleaseRow.Phase
    changedAt,   \* ReleaseRow.PhaseChangedAtUtc
    startedAt,   \* EvaluationRoundStart.StartedAt of the round under way
    rounds,      \* the rounds on record, with their two instants
    timeline,    \* the instants of the timeline entries, by sequence number
    forms,       \* the form each handler queues for the gate with
    turn,        \* what the turn that has the gate does next
    wasSetBack   \* history: the clock has been set back

vars ==
    <<now, submittedAt, phase, changedAt, startedAt, rounds, timeline, forms, turn,
      wasSetBack>>

Waiting == {"WaitingForRemediation", "WaitingForApproval"}
Ended == {"Approved", "Rejected", "Failed"}
Phases == {"None", "Evaluating"} \cup Waiting \cup Ended
TurnSteps == {"none", "evaluating", "asking", "approving", "failing"}

\* A form: its instant and the round whose question it answers.
NoForm == [at |-> 0, question |-> 0]

LastRound == rounds[Len(rounds)]

Init ==
    /\ now \in 0 .. MaxTime
    /\ submittedAt = 0
    /\ phase = "None"
    /\ changedAt = 0
    /\ startedAt = 0
    /\ rounds = <<>>
    /\ timeline = <<>>
    /\ forms = [h \in Handlers |-> NoForm]
    /\ turn = "none"
    /\ wasSetBack = FALSE
-----------------------------------------------------------------------------
(* The clock.  (External.)                                                 *)

Tick ==
    /\ now < MaxTime
    /\ now' = now + 1
    /\ UNCHANGED <<wasSetBack, submittedAt, phase, changedAt, startedAt, rounds, timeline,
                   forms, turn>>

SetBack ==
    /\ "setback" \in Faults
    /\ \E earlier \in 0 .. MaxTime : earlier < now /\ now' = earlier
    /\ wasSetBack' = TRUE
    /\ UNCHANGED <<submittedAt, phase, changedAt, startedAt, rounds, timeline, forms, turn>>
-----------------------------------------------------------------------------
(* What the domain refuses.                                                *)

\* ToDomain: a release in Evaluating is rehydrated as it was created, whatever
\* round it is in, one in another phase with the instant of that phase.
PhaseChangedAt == IF phase = "Evaluating" THEN submittedAt ELSE changedAt

\* Mutant: a phase that begins at the instant of the one before it is refused.
PredatesOrMeets(at) == at <= PhaseChangedAt

\* Mutant: a release in Evaluating has no instant to compare with.
PredatesWait(at) == phase # "Evaluating" /\ at < changedAt

\* Release.TransitionTo on the rehydrated release.
Predates(at) == at < PhaseChangedAt

\* The constructor of EvaluationRound.
CompletesEarly(at) == at < startedAt

\* Mutant: the row gets the instant of its new phase, but not the phase.
StampOnly(to, at) ==
    /\ phase' = phase
    /\ changedAt' = at
    /\ timeline' = Append(timeline, at)

\* The release goes into a phase, with an entry in its timeline.
Enter(to, at) ==
    /\ phase' = to
    /\ changedAt' = at
    /\ timeline' = Append(timeline, at)

\* The turn throws, which is for the failure handler.
Refuse ==
    /\ turn' = "failing"
    /\ UNCHANGED <<now, wasSetBack, submittedAt, phase, changedAt, startedAt, rounds, timeline>>
-----------------------------------------------------------------------------
(* Forms.                                                                  *)

(* NewModel.OnPostAsync: the submission's instant is that of the release,  *)
(* its first phase and its first round.                                    *)
Submit ==
    /\ phase = "None"
    /\ Enter("Evaluating", now)
    /\ startedAt' = now
    /\ turn' = "evaluating"
    /\ submittedAt' = now
    /\ UNCHANGED <<now, wasSetBack, rounds, forms>>

(* A remediation or decision is posted: its question is the open one when  *)
(* the form reads its instant, and then it queues for the gate.            *)
PostForm(h) ==
    /\ forms[h] = NoForm
    /\ phase \in Waiting
    /\ phase = "WaitingForRemediation" => Len(rounds) < MaxRounds
    /\ forms' = [forms EXCEPT ![h] = [at |-> now, question |-> Len(rounds)]]
    /\ UNCHANGED <<now, wasSetBack, submittedAt, phase, changedAt, startedAt, rounds,
                   timeline, turn>>

\* Mutant: the question a form answers is not looked at again under the gate.
AnswersSomething(form) == phase \in Waiting

\* Under the gate: the form answers the question that is open now.
AnswersOpenQuestion(form) == phase \in Waiting /\ form.question = Len(rounds)

(* ResumeRemediationAsync, ResumeApprovalAsync: the form's turn begins.    *)
Resume(h) ==
    LET form == forms[h] IN
    /\ form # NoForm
    /\ turn = "none"
    /\ forms' = [forms EXCEPT ![h] = NoForm]
    /\ IF ~AnswersOpenQuestion(form) \/ Predates(form.at) THEN Refuse
       ELSE IF phase = "WaitingForRemediation"
       THEN /\ Enter("Evaluating", form.at)
            /\ startedAt' = form.at
            /\ turn' = "evaluating"
            /\ UNCHANGED <<now, wasSetBack, submittedAt, rounds>>
       ELSE /\ \E decision \in {"Approved", "Rejected"} : Enter(decision, form.at)
            /\ UNCHANGED <<now, wasSetBack, submittedAt, startedAt, rounds, turn>>
-----------------------------------------------------------------------------
(* Turns.                                                                  *)

(* RoundAggregator.CompleteAsync reads the clock and records the round.    *)
CompleteRound ==
    /\ turn = "evaluating"
    /\ UNCHANGED forms
    /\ IF CompletesEarly(now) THEN Refuse
       ELSE /\ rounds' = Append(rounds, [started |-> startedAt, completed |-> now])
            /\ timeline' = Append(timeline, now)
            /\ turn' \in {"asking", "approving"}
            /\ UNCHANGED <<now, wasSetBack, submittedAt, phase, changedAt, startedAt>>

\* Mutant: the request is dated like the round it is about.
RequestedAtStart == startedAt

\* The remediation request has the instant of the round's completion.
RequestedAt == LastRound.completed

(* RoundAggregator.CompleteAsync goes on to OpenRemediationRequestAsync.   *)
AskRemediation ==
    /\ turn = "asking"
    /\ UNCHANGED forms
    /\ IF Predates(RequestedAt) THEN Refuse
       ELSE /\ Enter("WaitingForRemediation", RequestedAt)
            /\ turn' = "none"
            /\ UNCHANGED <<now, wasSetBack, submittedAt, startedAt, rounds>>

(* DecisionSnapshotBuilder.BuildAsync reads the clock again.               *)
AskApproval ==
    /\ turn = "approving"
    /\ UNCHANGED forms
    /\ IF Predates(now) THEN Refuse
       ELSE /\ Enter("WaitingForApproval", now)
            /\ turn' = "none"
            /\ UNCHANGED <<now, wasSetBack, submittedAt, startedAt, rounds>>

(* Anything else throws. *)
TechnicalFault ==
    /\ "technical" \in Faults
    /\ turn \in {"evaluating", "asking", "approving"}
    /\ UNCHANGED forms
    /\ Refuse

(* MarkFailedAsync: a failed release is left alone, and the transition of  *)
(* another one may be refused like any other.                              *)
MarkFailed ==
    /\ turn = "failing"
    /\ turn' = "none"
    /\ IF phase \in Ended \/ Predates(now)
       THEN UNCHANGED <<phase, changedAt, timeline>>
       ELSE Enter("Failed", now)
    /\ UNCHANGED <<now, wasSetBack, submittedAt, startedAt, rounds, forms>>

Next ==
    \/ Tick
    \/ SetBack
    \/ Submit
    \/ \E h \in Handlers : PostForm(h) \/ Resume(h)
    \/ CompleteRound
    \/ AskRemediation
    \/ AskApproval
    \/ TechnicalFault
    \/ MarkFailed

Spec == Init /\ [][Next]_vars
-----------------------------------------------------------------------------
(* Properties.                                                             *)

RoundRecords == [started : Nat, completed : Nat]

\* The variables keep their kinds, and a turn runs in the phase it is for:
\* a round is evaluated and a question asked only in Evaluating.
TypeOK ==
    /\ now \in Nat
    /\ submittedAt \in Nat
    /\ phase \in Phases
    /\ changedAt \in Nat
    /\ startedAt \in Nat
    /\ rounds \in Seq(RoundRecords)
    /\ timeline \in Seq(Nat)
    /\ forms \in [Handlers -> [at : Nat, question : Nat]]
    /\ turn \in TurnSteps
    /\ wasSetBack \in BOOLEAN
    /\ turn \in {"evaluating", "asking", "approving"} => phase = "Evaluating"

\* While the clock is not set back the domain refuses no instant, though
\* forms read theirs before they queue: the question a form answers under the
\* gate was open when the form read the clock (RemediationHandler.cs:80,
\* HumanDecisionHandler.cs:123 against Releases.cs:128 and Evaluations.cs:320).
NothingIsRefused ==
    ~wasSetBack =>
        /\ turn = "evaluating" => ~CompletesEarly(now)
        /\ turn = "asking" => ~Predates(LastRound.completed)
        /\ turn \in {"approving", "failing"} => ~Predates(now)
        /\ \A h \in Handlers :
               forms[h] # NoForm /\ AnswersOpenQuestion(forms[h])
                   => ~Predates(forms[h].at)

InOrder == \A i \in 1 .. Len(timeline) : \A j \in 1 .. i : timeline[j] <= timeline[i]

\* Until then the timeline, ordered by sequence number, is also in the order
\* of its instants, whoever read them (ReleaseDetailProjection).
TimelineInOrder == ~wasSetBack => InOrder

\* However often the clock is set back, the rounds on record do not overlap:
\* each starts no earlier than the one before it was completed, though only
\* phase instants are compared with each other, and in Evaluating only with
\* the submission's.
RoundsInOrder ==
    /\ \A i \in 1 .. Len(rounds) : rounds[i].started <= rounds[i].completed
    /\ \A i, j \in 1 .. Len(rounds) : j < i => rounds[j].completed <= rounds[i].started

\* However often the clock is set back, the release can be read: rehydrating
\* repeats its transition, which would refuse a row whose phase predates its
\* submission, and with it every later request (RehydrateRelease).
ReleaseIsReadable == phase # "None" => submittedAt <= changedAt

\* A turn that fails leaves a release that has ended, and not one in
\* Evaluating that no operation takes up again, unless the clock was set back:
\* then the failure's own instant may be refused (architecture.md:254,
\* ReleaseWorkflowService.MarkFailedAsync).
FailureIsRecorded ==
    [][turn = "failing" /\ turn' = "none" /\ ~wasSetBack => phase' \in Ended]_vars
=============================================================================
