------------------------ MODULE ReleaseInstants_proofs ----------------------
(***************************************************************************)
(* Proofs about the instants of a release, for any number of handlers and  *)
(* rounds and any length of time: rounds never overlap; and until the      *)
(* clock is set back nothing is refused, the timeline is in order and      *)
(* every failure is recorded.                                              *)
(***************************************************************************)
EXTENDS ReleaseInstants, TLAPS

Running == {"evaluating", "asking", "approving"}

\* What a step can rely on about the rounds: when the next round may start,
\* its start will not be before any round's completion.
RoundsInv ==
    /\ RoundsInOrder
    /\ phase = "None" =>
           rounds = <<>> /\ turn = "none" /\ \A h \in Handlers : forms[h] = NoForm
    /\ turn = "evaluating" =>
           \A i \in 1 .. Len(rounds) : rounds[i].completed <= startedAt
    /\ turn \in {"asking", "approving"} => rounds # <<>>
    /\ phase = "WaitingForRemediation" =>
           \A i \in 1 .. Len(rounds) : rounds[i].completed <= changedAt

RInv == TypeOK /\ RoundsInv /\ ReleaseIsReadable

\* A form in the queue: with its question open, nothing has happened since
\* it read the clock; while a round is on record that was not asked about,
\* no form is for it.
FormsInv ==
    \A h \in Handlers :
        forms[h] # NoForm =>
            /\ forms[h].question <= Len(rounds)
            /\ turn \in {"asking", "approving"} => forms[h].question < Len(rounds)
            /\ AnswersOpenQuestion(forms[h]) =>
                   /\ changedAt <= forms[h].at
                   /\ \A i \in 1 .. Len(timeline) : timeline[i] <= forms[h].at

\* Until the clock is set back, every instant on record is past, and a
\* release is not left in Evaluating without a turn.
ClockInv ==
    /\ InOrder
    /\ changedAt <= now
    /\ startedAt <= now
    /\ \A i \in 1 .. Len(timeline) : timeline[i] <= now
    /\ \A h \in Handlers : forms[h].at <= now
    /\ turn = "asking" =>
           /\ changedAt <= LastRound.completed
           /\ LastRound.completed <= now
           /\ \A i \in 1 .. Len(timeline) : timeline[i] <= LastRound.completed
    /\ phase = "Evaluating" => turn # "none"

CInv == RInv /\ FormsInv /\ ClockInv

HInv == RInv /\ (~wasSetBack => FormsInv /\ ClockInv)
-----------------------------------------------------------------------------
(* Type correctness.                                                       *)

\* Appending to a sequence, position by position.
LEMMA Appended ==
    ASSUME NEW S, NEW s \in Seq(S), NEW x \in S
    PROVE  /\ Append(s, x) \in Seq(S)
           /\ Append(s, x) # <<>>
           /\ Len(Append(s, x)) = Len(s) + 1
           /\ Append(s, x)[Len(s) + 1] = x
           /\ \A i \in 1 .. Len(s) : Append(s, x)[i] = s[i]
  OBVIOUS

\* The initial state is well typed (EmptySeq is needed by the provers).
LEMMA EmptySeq == ASSUME NEW S PROVE <<>> \in Seq(S) /\ Len(<<>>) = 0
  OBVIOUS

LEMMA TypeInit == Init => TypeOK
<1> SUFFICES ASSUME Init PROVE TypeOK
  OBVIOUS
<1>1. now \in Nat
  BY ConstantsAssumption DEF Init
<1>2. rounds \in Seq(RoundRecords) /\ timeline \in Seq(Nat)
  BY EmptySeq DEF Init
<1>3. forms \in [Handlers -> [at : Nat, question : Nat]]
  BY DEF Init, NoForm
<1> QED BY <1>1, <1>2, <1>3 DEF Init, TypeOK, Phases, TurnSteps

\* The last round is a round, where there is one.
LEMMA LastRoundType ==
    ASSUME TypeOK, rounds # <<>>
    PROVE  LastRound \in RoundRecords /\ Len(rounds) \in 1 .. Len(rounds)
  BY DEF TypeOK, LastRound

\* A refused turn keeps the types of all but the forms.
LEMMA RefuseType ==
    ASSUME TypeOK, Refuse, forms' \in [Handlers -> [at : Nat, question : Nat]]
    PROVE  TypeOK'
  BY DEF TypeOK, Refuse, TurnSteps

\* So does a phase that is entered with an instant.
LEMMA EnterType ==
    ASSUME TypeOK, NEW to \in Phases, NEW at \in Nat, Enter(to, at)
    PROVE  phase' \in Phases /\ changedAt' \in Nat /\ timeline' \in Seq(Nat)
  BY DEF TypeOK, Enter

\* Every step keeps the types; "asking" is only reached with a round.
LEMMA TypeNext == TypeOK /\ RoundsInv /\ [Next]_vars => TypeOK'
<1> SUFFICES ASSUME TypeOK, RoundsInv, [Next]_vars PROVE TypeOK'
  OBVIOUS
<1> USE DEF Phases, Waiting, Ended, TurnSteps
<1>1. CASE UNCHANGED vars \/ Tick
  BY <1>1 DEF TypeOK, vars, Tick
<1>2. CASE SetBack
  <2>1. now' \in Nat /\ wasSetBack' \in BOOLEAN
    BY <1>2, ConstantsAssumption DEF SetBack
  <2>2. UNCHANGED <<submittedAt, phase, changedAt, startedAt, rounds, timeline, forms, turn>>
    BY <1>2 DEF SetBack
  <2> QED BY <2>1, <2>2 DEF TypeOK
<1>3. CASE Submit
  <2>1. phase' \in Phases /\ changedAt' \in Nat /\ timeline' \in Seq(Nat)
    BY <1>3, EnterType DEF Submit, TypeOK
  <2> QED BY <1>3, <2>1 DEF TypeOK, Submit, Enter
<1>4. ASSUME NEW h \in Handlers, PostForm(h) PROVE TypeOK'
  <2>1. [at |-> now, question |-> Len(rounds)] \in [at : Nat, question : Nat]
    BY DEF TypeOK
  <2> QED BY <1>4, <2>1 DEF TypeOK, PostForm
<1>5. ASSUME NEW h \in Handlers, Resume(h) PROVE TypeOK'
  <2>1. forms' \in [Handlers -> [at : Nat, question : Nat]]
    BY <1>5 DEF TypeOK, Resume, NoForm
  <2>2. forms[h].at \in Nat
    BY DEF TypeOK
  <2>3. CASE Refuse
    BY <2>1, <2>3, RefuseType
  <2>4. CASE /\ Enter("Evaluating", forms[h].at)
             /\ startedAt' = forms[h].at
             /\ turn' = "evaluating"
             /\ UNCHANGED <<now, wasSetBack, submittedAt, rounds>>
    <3>1. phase' \in Phases /\ changedAt' \in Nat /\ timeline' \in Seq(Nat)
      BY <2>2, <2>4, EnterType
    <3> QED BY <2>1, <2>2, <2>4, <3>1 DEF TypeOK, Enter
  <2>5. CASE /\ \E decision \in {"Approved", "Rejected"} : Enter(decision, forms[h].at)
             /\ turn = "none"
             /\ UNCHANGED <<now, wasSetBack, submittedAt, startedAt, rounds, turn>>
    <3>1. PICK decision \in {"Approved", "Rejected"} : Enter(decision, forms[h].at)
      BY <2>5
    <3>2. phase' \in Phases /\ changedAt' \in Nat /\ timeline' \in Seq(Nat)
      BY <2>2, <3>1, EnterType
    <3> QED BY <2>1, <2>5, <3>2 DEF TypeOK
  <2> QED BY <1>5, <2>3, <2>4, <2>5 DEF Resume
<1>6. CASE CompleteRound
  <2>1. CASE Refuse
    BY <1>6, <2>1, RefuseType DEF CompleteRound, TypeOK
  <2>2. CASE ~Refuse
    <3>1. [started |-> startedAt, completed |-> now] \in RoundRecords
      BY DEF TypeOK, RoundRecords
    <3>2. /\ rounds' = Append(rounds, [started |-> startedAt, completed |-> now])
          /\ timeline' = Append(timeline, now)
      BY <1>6, <2>2 DEF CompleteRound
    <3>3. rounds' \in Seq(RoundRecords) /\ timeline' \in Seq(Nat)
      BY <3>1, <3>2 DEF TypeOK
    <3> QED BY <1>6, <2>2, <3>3 DEF TypeOK, CompleteRound
  <2> QED BY <2>1, <2>2
<1>7. CASE AskRemediation
  <2>1. CASE Refuse
    BY <1>7, <2>1, RefuseType DEF AskRemediation, TypeOK
  <2>2. CASE ~Refuse
    <3>1. RequestedAt \in Nat
      BY <1>7, LastRoundType DEF AskRemediation, RoundsInv, RequestedAt, RoundRecords
    <3>2. Enter("WaitingForRemediation", RequestedAt)
      BY <1>7, <2>2 DEF AskRemediation
    <3>3. phase' \in Phases /\ changedAt' \in Nat /\ timeline' \in Seq(Nat)
      BY <3>1, <3>2, EnterType
    <3> QED BY <1>7, <2>2, <3>3 DEF TypeOK, AskRemediation
  <2> QED BY <2>1, <2>2
<1>8. CASE AskApproval
  <2>1. CASE Refuse
    BY <1>8, <2>1, RefuseType DEF AskApproval, TypeOK
  <2>2. CASE ~Refuse
    <3>1. Enter("WaitingForApproval", now) /\ now \in Nat
      BY <1>8, <2>2 DEF AskApproval, TypeOK
    <3>2. phase' \in Phases /\ changedAt' \in Nat /\ timeline' \in Seq(Nat)
      BY <3>1, EnterType
    <3> QED BY <1>8, <2>2, <3>2 DEF TypeOK, AskApproval
  <2> QED BY <2>1, <2>2
<1>9. CASE TechnicalFault
  BY <1>9, RefuseType DEF TechnicalFault, TypeOK
<1>10. CASE MarkFailed
  <2>1. CASE Enter("Failed", now)
    <3>1. phase' \in Phases /\ changedAt' \in Nat /\ timeline' \in Seq(Nat)
      BY <2>1, EnterType DEF TypeOK
    <3> QED BY <1>10, <3>1 DEF TypeOK, MarkFailed
  <2>2. CASE UNCHANGED <<phase, changedAt, timeline>>
    BY <1>10, <2>2 DEF TypeOK, MarkFailed
  <2> QED BY <1>10, <2>1, <2>2 DEF MarkFailed
<1> QED
  BY <1>1, <1>2, <1>3, <1>4, <1>5, <1>6, <1>7, <1>8, <1>9, <1>10 DEF Next
-----------------------------------------------------------------------------
(* Rounds do not overlap, whatever the clock does.                         *)

LEMMA RoundsInit == Init => RoundsInv
  BY DEF Init, RoundsInv, RoundsInOrder

\* Every step keeps the rounds in order: only CompleteRound adds one, and
\* only Resume lets the next one start.
LEMMA RoundsNext == TypeOK /\ RoundsInv /\ [Next]_vars => RoundsInv'
<1> SUFFICES ASSUME TypeOK, RoundsInv, [Next]_vars PROVE RoundsInv'
  OBVIOUS
<1> USE DEF RoundsInv, RoundsInOrder
<1>1. CASE UNCHANGED vars \/ Tick \/ SetBack
  BY <1>1 DEF vars, Tick, SetBack
<1>2. CASE Submit
  BY <1>2 DEF Submit, Enter
<1>3. ASSUME NEW h \in Handlers, PostForm(h) PROVE RoundsInv'
  BY <1>3 DEF PostForm, Waiting
<1>4. ASSUME NEW h \in Handlers, Resume(h) PROVE RoundsInv'
  <2>1. CASE Refuse
    BY <1>4, <2>1 DEF Refuse, Resume
  <2>2. CASE ~Refuse /\ phase = "WaitingForRemediation"
    <3>1. changedAt <= forms[h].at /\ changedAt \in Nat /\ forms[h].at \in Nat
      BY <1>4, <2>2 DEF Resume, Predates, PhaseChangedAt, TypeOK
    <3>2. \A i \in 1 .. Len(rounds) : rounds[i].completed <= forms[h].at
      <4> TAKE i \in 1 .. Len(rounds)
      <4>1. rounds[i] \in RoundRecords /\ rounds[i].completed <= changedAt
        BY <2>2 DEF TypeOK
      <4>2. rounds[i].completed \in Nat
        BY <4>1 DEF RoundRecords
      <4> QED BY <4>1, <4>2, <3>1
    <3>3. /\ phase' = "Evaluating" /\ changedAt' = forms[h].at
          /\ startedAt' = forms[h].at /\ turn' = "evaluating" /\ rounds' = rounds
      BY <1>4, <2>2 DEF Resume, Enter
    <3> QED BY <3>2, <3>3
  <2>3. CASE ~Refuse /\ phase # "WaitingForRemediation"
    BY <1>4, <2>3 DEF Resume, Enter, TypeOK
  <2> QED BY <2>1, <2>2, <2>3
<1>5. CASE CompleteRound
  <2>1. CASE Refuse
    BY <1>5, <2>1 DEF Refuse, CompleteRound
  <2>2. CASE ~Refuse
    <3> DEFINE r == [started |-> startedAt, completed |-> now]
    <3>1. /\ rounds' = Append(rounds, r) /\ phase' = phase /\ changedAt' = changedAt
          /\ turn' \in {"asking", "approving"} /\ startedAt <= now
          /\ phase = "Evaluating"
      BY <1>5, <2>2 DEF CompleteRound, CompletesEarly, TypeOK
    <3>2. r \in RoundRecords
      BY DEF TypeOK, RoundRecords
    <3>3. /\ rounds' # <<>> /\ Len(rounds') = Len(rounds) + 1 /\ Len(rounds) \in Nat
          /\ rounds'[Len(rounds) + 1] = r
          /\ \A i \in 1 .. Len(rounds) : rounds'[i] = rounds[i]
      BY <3>1, <3>2, Appended DEF TypeOK
    <3>4. \A i \in 1 .. Len(rounds) : rounds[i].completed <= startedAt
      BY <1>5 DEF CompleteRound
    <3>5. RoundsInOrder'
      BY <3>1, <3>3, <3>4
    <3> QED BY <3>1, <3>3, <3>5
  <2> QED BY <2>1, <2>2
<1>6. CASE AskRemediation
  <2>1. CASE Refuse
    BY <1>6, <2>1 DEF Refuse, AskRemediation, TypeOK
  <2>2. CASE ~Refuse
    <3>1. /\ phase' = "WaitingForRemediation" /\ changedAt' = LastRound.completed
          /\ turn' = "none" /\ rounds' = rounds /\ rounds # <<>>
      BY <1>6, <2>2 DEF AskRemediation, Enter, RequestedAt
    <3>2. \A i \in 1 .. Len(rounds) : rounds[i].completed <= LastRound.completed
      <4> TAKE i \in 1 .. Len(rounds)
      <4>1. /\ rounds[i] \in RoundRecords /\ LastRound \in RoundRecords
            /\ Len(rounds) \in 1 .. Len(rounds)
        BY <3>1, LastRoundType DEF TypeOK
      <4>2. CASE i = Len(rounds)
        BY <4>1, <4>2 DEF LastRound, RoundRecords
      <4>3. CASE i < Len(rounds)
        <5>1. /\ rounds[i].completed <= LastRound.started
              /\ LastRound.started <= LastRound.completed
          BY <4>1, <4>3 DEF LastRound
        <5> QED BY <4>1, <5>1 DEF RoundRecords
      <4> QED BY <4>1, <4>2, <4>3
    <3> QED BY <3>1, <3>2
  <2> QED BY <2>1, <2>2
<1>7. CASE AskApproval
  BY <1>7 DEF AskApproval, Refuse, Enter, TypeOK
<1>8. CASE TechnicalFault
  BY <1>8 DEF TechnicalFault, Refuse, TypeOK
<1>9. CASE MarkFailed
  BY <1>9 DEF MarkFailed, Enter, TypeOK
<1> QED
  BY <1>1, <1>2, <1>3, <1>4, <1>5, <1>6, <1>7, <1>8, <1>9 DEF Next

\* Every transition is compared with the submission's instant, or with one
\* that is no earlier than it.
LEMMA ReadableNext == RInv /\ [Next]_vars => ReleaseIsReadable'
<1> SUFFICES ASSUME RInv, [Next]_vars PROVE ReleaseIsReadable'
  OBVIOUS
<1>t. /\ TypeOK /\ RoundsInv /\ ReleaseIsReadable
      /\ submittedAt \in Nat /\ changedAt \in Nat /\ now \in Nat
  BY DEF RInv, TypeOK
<1> DEFINE Stays == UNCHANGED <<submittedAt, phase, changedAt>>
<1>1. ASSUME Stays PROVE ReleaseIsReadable'
  BY <1>1, <1>t DEF ReleaseIsReadable
<1>2. ASSUME NEW to, NEW at \in Nat, Enter(to, at), submittedAt' = submittedAt,
             phase # "None", ~Predates(at)
      PROVE  ReleaseIsReadable'
  BY <1>2, <1>t DEF ReleaseIsReadable, Enter, Predates, PhaseChangedAt
<1>3. CASE UNCHANGED vars \/ Tick \/ SetBack \/ TechnicalFault
  BY <1>1, <1>3 DEF vars, Tick, SetBack, TechnicalFault, Refuse
<1>4. CASE Submit
  BY <1>4, <1>t DEF Submit, Enter, ReleaseIsReadable
<1>5. ASSUME NEW h \in Handlers, PostForm(h) PROVE ReleaseIsReadable'
  BY <1>1, <1>5 DEF PostForm
<1>6. ASSUME NEW h \in Handlers, Resume(h) PROVE ReleaseIsReadable'
  <2>1. CASE Refuse
    BY <1>1, <2>1 DEF Refuse
  <2>2. CASE ~Refuse
    <3>1. /\ AnswersOpenQuestion(forms[h]) /\ ~Predates(forms[h].at)
          /\ submittedAt' = submittedAt
      BY <1>6, <2>2 DEF Resume
    <3>2. PICK to \in {"Evaluating", "Approved", "Rejected"} : Enter(to, forms[h].at)
      BY <1>6, <2>2 DEF Resume
    <3>3. phase # "None" /\ forms[h].at \in Nat
      BY <1>t, <3>1 DEF AnswersOpenQuestion, Waiting, TypeOK
    <3> QED BY <1>2, <3>1, <3>2, <3>3
  <2> QED BY <2>1, <2>2
<1>7. CASE CompleteRound
  BY <1>1, <1>7 DEF CompleteRound, Refuse
<1>8. CASE AskRemediation
  <2>1. CASE Refuse
    BY <1>1, <2>1 DEF Refuse
  <2>2. CASE ~Refuse
    <3>1. /\ ~Predates(RequestedAt) /\ Enter("WaitingForRemediation", RequestedAt)
          /\ submittedAt' = submittedAt
      BY <1>8, <2>2 DEF AskRemediation
    <3>2. RequestedAt \in Nat /\ phase # "None"
      BY <1>8, <1>t, LastRoundType DEF AskRemediation, RoundsInv, RequestedAt, RoundRecords
    <3> QED BY <1>2, <3>1, <3>2
  <2> QED BY <2>1, <2>2
<1>9. CASE AskApproval
  <2>1. CASE Refuse
    BY <1>1, <2>1 DEF Refuse
  <2>2. CASE ~Refuse
    <3>1. /\ ~Predates(now) /\ Enter("WaitingForApproval", now) /\ submittedAt' = submittedAt
          /\ phase # "None"
      BY <1>9, <1>t, <2>2 DEF AskApproval, RoundsInv
    <3> QED BY <1>2, <1>t, <3>1
  <2> QED BY <2>1, <2>2
<1>10. CASE MarkFailed
  <2>1. CASE phase \in Ended \/ Predates(now)
    BY <1>1, <1>10, <2>1 DEF MarkFailed
  <2>2. CASE ~(phase \in Ended \/ Predates(now))
    <3>1. Enter("Failed", now) /\ submittedAt' = submittedAt /\ phase # "None"
      BY <1>10, <1>t, <2>2 DEF MarkFailed, RoundsInv
    <3> QED BY <1>2, <1>t, <2>2, <3>1
  <2> QED BY <2>1, <2>2
<1> QED
  BY <1>3, <1>4, <1>5, <1>6, <1>7, <1>8, <1>9, <1>10 DEF Next

\* Types, rounds and a release that can be read, in every reachable state.
THEOREM RoundsInvCorrect == Spec => []RInv
<1>1. Init => RInv
  BY TypeInit, RoundsInit DEF RInv, ReleaseIsReadable, Init
<1>2. RInv /\ [Next]_vars => RInv'
  BY TypeNext, RoundsNext, ReadableNext DEF RInv
<1> QED BY <1>1, <1>2, PTL DEF Spec

\* Type correctness, whatever the clock does.
THEOREM TypeCorrect == Spec => []TypeOK
<1>1. RInv => TypeOK
  BY DEF RInv
<1> QED BY <1>1, RoundsInvCorrect, PTL

\* The rounds on record do not overlap, however often the clock is set back.
THEOREM RoundsInOrderCorrect == Spec => []RoundsInOrder
<1>1. RInv => RoundsInOrder
  BY DEF RInv, RoundsInv
<1> QED BY <1>1, RoundsInvCorrect, PTL

\* A release on record can be read, however often the clock is set back.
THEOREM ReleaseIsReadableCorrect == Spec => []ReleaseIsReadable
<1>1. RInv => ReleaseIsReadable
  BY DEF RInv
<1> QED BY <1>1, RoundsInvCorrect, PTL
-----------------------------------------------------------------------------
(* Until the clock is set back nothing is refused.                         *)

LEMMA FormsInit == Init => FormsInv
  BY DEF Init, FormsInv

\* Every step keeps the forms' hold on their question: the timeline only
\* grows while no question is open, or by the turn of the one that is.
LEMMA FormsNext == CInv /\ Next => FormsInv'
<1> DEFINE Holds(g) ==
        /\ forms[g].question <= Len(rounds)
        /\ turn \in {"asking", "approving"} => forms[g].question < Len(rounds)
        /\ AnswersOpenQuestion(forms[g]) =>
               /\ changedAt <= forms[g].at
               /\ \A i \in 1 .. Len(timeline) : timeline[i] <= forms[g].at
<1> SUFFICES ASSUME CInv, Next, NEW g \in Handlers, (forms[g] # NoForm)'
             PROVE  Holds(g)'
  BY DEF FormsInv
<1> DEFINE Kept == forms[g] # NoForm /\ forms'[g] = forms[g]
<1> USE DEF AnswersOpenQuestion, Waiting
<1>1. CASE Tick \/ SetBack
  BY <1>1 DEF CInv, FormsInv, Tick, SetBack
<1>2. CASE Submit
  BY <1>2 DEF CInv, RInv, RoundsInv, Submit
<1>3. ASSUME NEW h \in Handlers, PostForm(h) PROVE Holds(g)'
  <2>1. CASE h = g
    <3>1. /\ forms'[g] = [at |-> now, question |-> Len(rounds)]
          /\ phase \in Waiting /\ turn' = turn /\ rounds' = rounds
          /\ phase' = phase /\ changedAt' = changedAt /\ timeline' = timeline
      BY <1>3, <2>1 DEF PostForm, CInv, RInv, TypeOK
    <3>2. Len(rounds) \in Nat
      BY DEF CInv, RInv, TypeOK
    <3>3. turn \notin {"asking", "approving"}
      BY <3>1 DEF CInv, RInv, TypeOK
    <3> QED BY <3>1, <3>2, <3>3 DEF CInv, ClockInv
  <2>2. CASE h # g
    <3>1. Kept
      BY <1>3, <2>2 DEF PostForm, CInv, RInv, TypeOK
    <3> QED BY <1>3, <3>1 DEF PostForm, CInv, FormsInv
  <2> QED BY <2>1, <2>2
<1>4. ASSUME NEW h \in Handlers, Resume(h) PROVE Holds(g)'
  <2>1. Kept /\ rounds' = rounds
    BY <1>4 DEF Resume, Refuse, CInv, RInv, TypeOK
  <2>2. CASE Refuse
    BY <2>1, <2>2 DEF Refuse, CInv, FormsInv
  <2>3. CASE ~Refuse
    <3>1. phase' \notin Waiting /\ turn' \notin {"asking", "approving"}
      BY <1>4, <2>3 DEF Resume, Enter
    <3> QED BY <2>1, <3>1 DEF CInv, FormsInv
  <2> QED BY <2>2, <2>3
<1>5. CASE CompleteRound
  <2>1. Kept
    BY <1>5 DEF CompleteRound
  <2>2. CASE Refuse
    BY <2>1, <2>2 DEF Refuse, CInv, FormsInv
  <2>3. CASE ~Refuse
    <3>1. /\ rounds' = Append(rounds, [started |-> startedAt, completed |-> now])
          /\ phase' = phase /\ phase = "Evaluating"
      BY <1>5, <2>3 DEF CompleteRound, CInv, RInv, TypeOK
    <3>2. Len(rounds') = Len(rounds) + 1 /\ Len(rounds) \in Nat
      BY <3>1 DEF CInv, RInv, TypeOK
    <3>3. forms[g].question <= Len(rounds) /\ forms[g].question \in Nat
      BY <2>1 DEF CInv, FormsInv, RInv, TypeOK
    <3> QED BY <2>1, <3>1, <3>2, <3>3
  <2> QED BY <2>2, <2>3
<1>6. CASE AskRemediation \/ AskApproval
  <2>1. Kept /\ rounds' = rounds
    BY <1>6 DEF AskRemediation, AskApproval, Refuse
  <2>2. /\ forms[g].question < Len(rounds) /\ forms[g].question \in Nat
        /\ Len(rounds) \in Nat /\ phase = "Evaluating"
    BY <1>6, <2>1 DEF AskRemediation, AskApproval, CInv, FormsInv, RInv, TypeOK
  <2> QED BY <1>6, <2>1, <2>2 DEF AskRemediation, AskApproval, Refuse
<1>7. CASE TechnicalFault
  BY <1>7 DEF TechnicalFault, Refuse, CInv, FormsInv
<1>8. CASE MarkFailed
  BY <1>8 DEF MarkFailed, Enter, CInv, FormsInv
<1> QED BY <1>1, <1>2, <1>3, <1>4, <1>5, <1>6, <1>7, <1>8 DEF Next

LEMMA ClockInit == Init => ClockInv
  BY ConstantsAssumption, EmptySeq DEF Init, ClockInv, InOrder, NoForm

\* An entry no earlier than the others keeps the timeline in order.
LEMMA InOrderAppend ==
    ASSUME TypeOK, InOrder, NEW at \in Nat,
           \A i \in 1 .. Len(timeline) : timeline[i] <= at,
           timeline' = Append(timeline, at)
    PROVE  /\ InOrder'
           /\ \A i \in 1 .. Len(timeline') : timeline'[i] <= at
<1>1. /\ Len(timeline') = Len(timeline) + 1 /\ Len(timeline) \in Nat
      /\ timeline'[Len(timeline) + 1] = at
      /\ \A i \in 1 .. Len(timeline) : timeline'[i] = timeline[i]
  BY Appended DEF TypeOK
<1>2. \A i \in 1 .. Len(timeline') : timeline'[i] <= at
  BY <1>1
<1>3. ASSUME NEW i \in 1 .. Len(timeline'), NEW j \in 1 .. i
      PROVE  timeline'[j] <= timeline'[i]
  <2>1. CASE i = Len(timeline) + 1
    BY <1>1, <1>2, <2>1
  <2>2. CASE i # Len(timeline) + 1
    BY <1>1, <2>2 DEF InOrder
  <2> QED BY <2>1, <2>2
<1> QED BY <1>2, <1>3 DEF InOrder

\* A phase entered with an instant that is past, and no earlier than the
\* timeline, leaves the clock part of the invariant in place.
LEMMA EnterClock ==
    ASSUME CInv, NEW to, NEW at \in Nat, Enter(to, at), at <= now, now' = now,
           \A i \in 1 .. Len(timeline) : timeline[i] <= at
    PROVE  /\ InOrder'
           /\ changedAt' <= now'
           /\ \A i \in 1 .. Len(timeline') : timeline'[i] <= now'
<1>1. /\ InOrder'
      /\ \A i \in 1 .. Len(timeline') : timeline'[i] <= at
  BY InOrderAppend DEF CInv, RInv, ClockInv, Enter
<1>2. timeline' \in Seq(Nat) /\ now \in Nat
  BY DEF CInv, RInv, TypeOK, Enter
<1>3. ASSUME NEW i \in 1 .. Len(timeline') PROVE timeline'[i] <= now'
  <2>1. timeline'[i] \in Nat /\ timeline'[i] <= at
    BY <1>1, <1>2
  <2> QED BY <2>1, <1>2
<1> QED BY <1>1, <1>3 DEF Enter

\* An instant no earlier than that of the phase is not refused.
LEMMA NotRefused ==
    ASSUME RInv, phase # "None", NEW at \in Nat, changedAt <= at
    PROVE  ~Predates(at)
  BY DEF RInv, TypeOK, ReleaseIsReadable, Predates, PhaseChangedAt

\* Every step but SetBack keeps the instants on record in the past.
LEMMA ClockNext == CInv /\ Next /\ ~wasSetBack' => ClockInv'
<1> SUFFICES ASSUME CInv, Next, ~wasSetBack' PROVE ClockInv'
  OBVIOUS
<1>t. TypeOK /\ RoundsInv /\ FormsInv /\ ClockInv
  BY DEF CInv, RInv
<1>1. CASE Tick
  <2>1. now' = now + 1 /\ now \in Nat /\ changedAt \in Nat /\ startedAt \in Nat
    BY <1>1, <1>t DEF Tick, TypeOK
  <2>2. \A i \in 1 .. Len(timeline) : timeline[i] \in Nat
    BY <1>t DEF TypeOK
  <2>3. \A h \in Handlers : forms[h].at \in Nat
    BY <1>t DEF TypeOK
  <2>4. turn = "asking" => LastRound.completed \in Nat
    BY <1>t, LastRoundType DEF RoundsInv, RoundRecords
  <2>5. UNCHANGED <<wasSetBack, submittedAt, phase, changedAt, startedAt, rounds, timeline, forms, turn>>
    BY <1>1 DEF Tick
  <2> QED BY <1>t, <2>1, <2>2, <2>3, <2>4, <2>5 DEF ClockInv, InOrder, LastRound
<1>2. CASE SetBack
  BY <1>2 DEF SetBack
<1>3. CASE Submit
  <2>1. Enter("Evaluating", now) /\ now' = now /\ now \in Nat
    BY <1>3, <1>t DEF Submit, TypeOK
  <2>2. /\ InOrder' /\ changedAt' <= now'
        /\ \A i \in 1 .. Len(timeline') : timeline'[i] <= now'
    BY <1>t, <2>1, EnterClock DEF ClockInv
  <2> QED BY <1>3, <1>t, <2>1, <2>2 DEF Submit, ClockInv
<1>4. ASSUME NEW h \in Handlers, PostForm(h) PROVE ClockInv'
  <2>1. \A g \in Handlers : (forms[g].at <= now)'
    BY <1>4, <1>t DEF PostForm, TypeOK, ClockInv
  <2> QED BY <1>4, <1>t, <2>1 DEF PostForm, ClockInv, InOrder, LastRound
<1>5. ASSUME NEW h \in Handlers, Resume(h) PROVE ClockInv'
  <2>1. now' = now /\ (\A g \in Handlers : (forms[g].at <= now)') /\ phase # "Evaluating"
    BY <1>5, <1>t DEF Resume, Refuse, TypeOK, ClockInv, NoForm
  <2>2. CASE Refuse
    BY <1>t, <2>1, <2>2 DEF Refuse, ClockInv, InOrder
  <2>3. CASE ~Refuse
    <3>1. /\ forms[h].at \in Nat /\ forms[h].at <= now
          /\ \A i \in 1 .. Len(timeline) : timeline[i] <= forms[h].at
      BY <1>5, <1>t, <2>3 DEF Resume, TypeOK, ClockInv, FormsInv
    <3>2. PICK to \in {"Evaluating", "Approved", "Rejected"} : Enter(to, forms[h].at)
      BY <1>5, <2>3 DEF Resume
    <3>3. /\ InOrder' /\ changedAt' <= now'
          /\ \A i \in 1 .. Len(timeline') : timeline'[i] <= now'
      BY <2>1, <3>1, <3>2, EnterClock
    <3>4. /\ startedAt' <= now'
          /\ turn' # "asking"
          /\ phase' = "Evaluating" => turn' # "none"
      BY <1>5, <1>t, <2>1, <2>3, <3>1 DEF Resume, Enter, ClockInv
    <3> QED BY <2>1, <3>3, <3>4 DEF ClockInv
  <2> QED BY <2>2, <2>3
<1>6. CASE CompleteRound
  <2>1. CASE Refuse
    BY <1>6, <1>t, <2>1 DEF CompleteRound, Refuse, ClockInv, InOrder
  <2>2. CASE ~Refuse
    <3> DEFINE r == [started |-> startedAt, completed |-> now]
    <3>1. /\ rounds' = Append(rounds, r) /\ timeline' = Append(timeline, now)
          /\ turn' \in {"asking", "approving"}
          /\ UNCHANGED <<now, wasSetBack, submittedAt, phase, changedAt, startedAt, forms>>
      BY <1>6, <2>2 DEF CompleteRound
    <3>2. now \in Nat /\ r \in RoundRecords
      BY <1>t DEF TypeOK, RoundRecords
    <3>3. InOrder' /\ \A i \in 1 .. Len(timeline') : timeline'[i] <= now
      BY <1>t, <3>1, <3>2, InOrderAppend DEF ClockInv
    <3>4. LastRound' = r
      BY <1>t, <3>1, <3>2, Appended DEF TypeOK, LastRound
    <3>5. LastRound'.completed = now
      BY <3>4
    <3> HIDE DEF r
    <3> QED BY <1>t, <3>1, <3>2, <3>3, <3>5 DEF ClockInv
  <2> QED BY <2>1, <2>2
<1>7. CASE AskRemediation
  <2>1. CASE Refuse
    BY <1>7, <1>t, <2>1 DEF AskRemediation, Refuse, ClockInv, InOrder
  <2>2. CASE ~Refuse
    <3>1. /\ Enter("WaitingForRemediation", LastRound.completed)
          /\ turn' = "none" /\ UNCHANGED <<now, wasSetBack, submittedAt, startedAt, rounds, forms>>
      BY <1>7, <2>2 DEF AskRemediation, RequestedAt
    <3>2. /\ LastRound.completed \in Nat /\ LastRound.completed <= now
          /\ \A i \in 1 .. Len(timeline) : timeline[i] <= LastRound.completed
      BY <1>7, <1>t, LastRoundType DEF AskRemediation, RoundsInv, RoundRecords, ClockInv
    <3>3. /\ InOrder' /\ changedAt' <= now'
          /\ \A i \in 1 .. Len(timeline') : timeline'[i] <= now'
      BY <3>1, <3>2, EnterClock
    <3> QED BY <1>t, <3>1, <3>3 DEF Enter, ClockInv
  <2> QED BY <2>1, <2>2
<1>8. CASE AskApproval
  <2>1. CASE Refuse
    BY <1>8, <1>t, <2>1 DEF AskApproval, Refuse, ClockInv, InOrder
  <2>2. CASE ~Refuse
    <3>1. /\ Enter("WaitingForApproval", now) /\ now \in Nat /\ now <= now
          /\ turn' = "none" /\ UNCHANGED <<now, wasSetBack, submittedAt, startedAt, rounds, forms>>
      BY <1>8, <1>t, <2>2 DEF AskApproval, TypeOK
    <3>2. /\ InOrder' /\ changedAt' <= now'
          /\ \A i \in 1 .. Len(timeline') : timeline'[i] <= now'
      BY <1>t, <3>1, EnterClock DEF ClockInv
    <3> QED BY <1>t, <3>1, <3>2 DEF Enter, ClockInv
  <2> QED BY <2>1, <2>2
<1>9. CASE TechnicalFault
  BY <1>9, <1>t DEF TechnicalFault, Refuse, ClockInv, InOrder
<1>10. CASE MarkFailed
  <2>1. ~Predates(now)
    BY <1>10, <1>t, NotRefused DEF MarkFailed, CInv, RoundsInv, ClockInv, TypeOK
  <2>2. CASE phase \in Ended
    BY <1>10, <1>t, <2>2 DEF MarkFailed, ClockInv, InOrder, Ended
  <2>3. CASE phase \notin Ended
    <3>1. /\ Enter("Failed", now) /\ now \in Nat /\ now <= now
          /\ turn' = "none" /\ UNCHANGED <<now, wasSetBack, submittedAt, startedAt, rounds, forms>>
      BY <1>10, <1>t, <2>1, <2>3 DEF MarkFailed, TypeOK
    <3>2. /\ InOrder' /\ changedAt' <= now'
          /\ \A i \in 1 .. Len(timeline') : timeline'[i] <= now'
      BY <1>t, <3>1, EnterClock DEF ClockInv
    <3> QED BY <1>t, <3>1, <3>2 DEF Enter, ClockInv
  <2> QED BY <2>2, <2>3
<1> QED
  BY <1>1, <1>2, <1>3, <1>4, <1>5, <1>6, <1>7, <1>8, <1>9, <1>10 DEF Next

\* A clock that has been set back has been for good.
LEMMA SetBackStays == [Next]_vars /\ ~wasSetBack' => ~wasSetBack
  BY DEF Next, vars, Tick, SetBack, Submit, PostForm, Resume, Refuse, CompleteRound,
         AskRemediation, AskApproval, TechnicalFault, MarkFailed

\* The whole invariant: rounds for good, forms and clock until it is set back.
THEOREM ClockInvCorrect == Spec => []HInv
<1>1. Init => HInv
  BY TypeInit, RoundsInit, FormsInit, ClockInit DEF RInv, HInv, ReleaseIsReadable, Init
<1>2. HInv /\ [Next]_vars => HInv'
  <2> SUFFICES ASSUME HInv, [Next]_vars PROVE HInv'
    OBVIOUS
  <2>1. RInv'
    BY TypeNext, RoundsNext, ReadableNext DEF HInv, RInv
  <2>2. ASSUME ~wasSetBack' PROVE FormsInv' /\ ClockInv'
    <3>1. CInv
      BY <2>2, SetBackStays DEF HInv, CInv
    <3>2. CASE Next
      BY <2>2, <3>1, <3>2, FormsNext, ClockNext
    <3>3. CASE UNCHANGED vars
      BY <3>1, <3>3
      DEF vars, CInv, FormsInv, ClockInv, InOrder, LastRound, AnswersOpenQuestion
    <3> QED BY <3>2, <3>3
  <2> QED BY <2>1, <2>2 DEF HInv
<1> QED BY <1>1, <1>2, PTL DEF Spec

\* The domain refuses no instant until the clock is set back, though forms
\* read theirs before they queue for the gate.
THEOREM NothingIsRefusedCorrect == Spec => []NothingIsRefused
<1>1. HInv => NothingIsRefused
  <2> SUFFICES ASSUME HInv, ~wasSetBack PROVE
          /\ turn = "evaluating" => ~CompletesEarly(now)
          /\ turn = "asking" => ~Predates(LastRound.completed)
          /\ turn \in {"approving", "failing"} => ~Predates(now)
          /\ \A h \in Handlers :
                 forms[h] # NoForm /\ AnswersOpenQuestion(forms[h])
                     => ~Predates(forms[h].at)
    BY DEF NothingIsRefused
  <2>0. CInv
    BY DEF HInv, CInv
  <2>1. /\ turn = "evaluating" => ~CompletesEarly(now)
        /\ turn \in {"approving", "failing"} => ~Predates(now)
    <3>1. turn \in {"approving", "failing"} => phase # "None"
      BY <2>0 DEF CInv, RInv, RoundsInv
    <3>2. RInv /\ now \in Nat /\ startedAt \in Nat /\ changedAt <= now /\ startedAt <= now
      BY <2>0 DEF CInv, RInv, TypeOK, ClockInv
    <3> QED BY <3>1, <3>2, NotRefused DEF CompletesEarly
  <2>2. turn = "asking" => ~Predates(LastRound.completed)
    <3> SUFFICES ASSUME turn = "asking" PROVE ~Predates(LastRound.completed)
      OBVIOUS
    <3>1. LastRound.completed \in Nat /\ phase # "None"
      BY <2>0, LastRoundType DEF CInv, RInv, RoundsInv, RoundRecords
    <3>2. RInv /\ changedAt <= LastRound.completed
      BY <2>0 DEF CInv, ClockInv
    <3> QED BY <3>1, <3>2, NotRefused
  <2>3. \A h \in Handlers :
            forms[h] # NoForm /\ AnswersOpenQuestion(forms[h]) => ~Predates(forms[h].at)
    BY <2>0, NotRefused DEF CInv, RInv, TypeOK, FormsInv, AnswersOpenQuestion, Waiting
  <2> QED BY <2>1, <2>2, <2>3
<1> QED BY <1>1, ClockInvCorrect, PTL

\* The timeline is in the order of its instants until then.
THEOREM TimelineInOrderCorrect == Spec => []TimelineInOrder
<1>1. HInv => TimelineInOrder
  BY DEF HInv, ClockInv, TimelineInOrder
<1> QED BY <1>1, ClockInvCorrect, PTL

\* And a turn that fails leaves a release that has ended: the instant of the
\* failure is not refused.
THEOREM FailureIsRecordedCorrect == Spec => FailureIsRecorded
<1> DEFINE Recorded == turn = "failing" /\ turn' = "none" /\ ~wasSetBack => phase' \in Ended
<1>1. HInv /\ [Next]_vars => [Recorded]_vars
  <2> SUFFICES ASSUME HInv, Next, turn = "failing", turn' = "none", ~wasSetBack
               PROVE  phase' \in Ended
    OBVIOUS
  <2>1. ~Predates(now)
    BY NotRefused DEF HInv, RInv, TypeOK, RoundsInv, ClockInv
  <2>2. MarkFailed
    BY DEF Next, Tick, SetBack, Submit, PostForm, Resume, CompleteRound, AskRemediation,
           AskApproval, TechnicalFault, HInv, RInv, RoundsInv
  <2> QED BY <2>1, <2>2 DEF MarkFailed, Enter, Ended
<1> QED BY <1>1, ClockInvCorrect, PTL DEF Spec, FailureIsRecorded
=============================================================================
