------------------------ MODULE BranchFanOut_proofs ------------------------
(***************************************************************************)
(* Proofs about BranchFanOut, for any checks, verdicts and faults: the     *)
(* DbContext of a turn has one reader at a time, retries are exact, no     *)
(* check refuses what a turn does of itself, and a turn of branches is one *)
(* evaluation.                                                             *)
(***************************************************************************)
EXTENDS BranchFanOutProperties, FiniteSetTheorems, SequenceTheorems, TLAPS

LEMMA EmptySequence ==
    ASSUME NEW S
    PROVE  <<>> \in Seq(S)
OBVIOUS

\* What a form posts for a branch: no record or one.
LEMMA FillType ==
    ASSUME NEW fill \in [Checks -> {<<>>} \cup {<<v>> : v \in Verdicts}]
    PROVE  fill \in [Checks -> Seq(Verdicts)]
<1>1. <<>> \in Seq(Verdicts)
  BY EmptySequence
<1>2. \A v \in Verdicts : <<v>> \in Seq(Verdicts)
  OBVIOUS
<1>3. {<<>>} \cup {<<v>> : v \in Verdicts} \subseteq Seq(Verdicts)
  BY <1>1, <1>2
<1> QED
  BY <1>3

(* A branch executes, or reuses, to a well-formed result. *)
LEMMA ExecuteType ==
    ASSUME NEW history \in Seq(Verdicts), NEW exhausted
    PROVE  Execute(history, exhausted) \in Results(Verdicts)
BY DEF Execute, Results, Executed, MissingEvidence, TransientFailure

LEMMA ReuseType ==
    ASSUME NEW previous \in Results(Verdicts), NEW round \in Nat \ {0}
    PROVE  Reuse(previous, round) \in Results(Verdicts)
<1>1. Passed \in Verdicts
  BY ConstantsAssumption
<1>2. round - 1 \in Nat
  OBVIOUS
<1> QED
  BY <1>1, <1>2 DEF Reuse, Results

LEMMA NoResultType == NoResult \in Results(Verdicts)
BY DEF NoResult, Results, Executed

LEMMA NoBranchType == NoBranch \in Branches
BY NoResultType DEF NoBranch, NoWork, WorkItem, Branches, BranchSteps

LEMMA LatestType ==
    ASSUME TypeOK, NEW c \in Checks
    PROVE  Latest(c) \in Results(Verdicts)
<1>1. CASE rounds = <<>>
  BY <1>1, NoResultType DEF Latest
<1>2. CASE rounds # <<>>
  <2>1. rounds[Len(rounds)] \in [Checks -> Results(Verdicts)]
    BY <1>2 DEF TypeOK
  <2> QED
    BY <1>2, <2>1 DEF Latest
<1> QED
  BY <1>1, <1>2

\* What is known of one branch.
LEMMA BranchType ==
    ASSUME TypeOK, NEW c \in Checks
    PROVE  /\ branch[c] \in Branches
           /\ branch[c].step \in BranchSteps
           /\ branch[c].work.previous \in Results(Verdicts)
           /\ branch[c].work.version \in Nat
           /\ branch[c].failures \in Seq(Nat)
           /\ branch[c].pointer \in Nat
           /\ branch[c].result \in Results(Verdicts)
           /\ evidence[c] \in Seq(Verdicts)
BY DEF TypeOK, Branches
-----------------------------------------------------------------------------
(* One branch moves: the slot goes with it.                                *)

LEMMA BranchMoves ==
    ASSUME IInv, NEW c \in Checks, NEW new \in Branches,
           branch' = [branch EXCEPT ![c] = new],
           turn \in {"branches", "disposing"},
           inbox' \in Seq(BranchResults),
           new.step \in Reading =>
               \/ branch[c].step \in Reading /\ slots' = slots
               \/ slots = 1 /\ slots' = 0,
           new.step \notin Reading =>
               slots' = slots + GivenBack(branch[c].step),
           new.step = "loading" =>
               evidence[c] # <<>> /\ new.pointer = Len(evidence[c]),
           UNCHANGED <<evidence, rounds, turn, collected, aborted>>
    PROVE  IInv'
<1>1. Readers' = IF new.step \in Reading THEN Readers \cup {c} ELSE Readers \ {c}
  BY DEF Readers, IInv, TypeOK
<1>2. c \in Readers <=> branch[c].step \in Reading
  BY DEF Readers
<1>3. slots' = IF Readers' = {} THEN 1 ELSE 0
  <2>1. CASE new.step \in Reading
    BY <1>1, <1>2, <2>1 DEF IInv, SlotIsHeld
  <2>2. CASE new.step \notin Reading /\ branch[c].step \in Reading
    BY <1>1, <1>2, <2>2 DEF IInv, SlotIsHeld, OneReader, GivenBack
  <2>3. CASE new.step \notin Reading /\ branch[c].step \notin Reading
    BY <1>1, <1>2, <2>3 DEF IInv, SlotIsHeld, GivenBack
  <2> QED
    BY <2>1, <2>2, <2>3
<1>4. \A d, e \in Readers' : d = e
  <2>1. CASE new.step \in Reading
    BY <1>1, <1>2, <2>1 DEF IInv, SlotIsHeld, OneReader
  <2>2. CASE new.step \notin Reading
    BY <1>1, <2>2 DEF IInv, OneReader
  <2> QED
    BY <2>1, <2>2
<1>5. TypeOK'
  BY <1>3 DEF IInv, TypeOK
<1>6. OneReader'
  BY <1>4 DEF OneReader, OwnReads
<1>7. SlotIsHeld'
  BY <1>3 DEF SlotIsHeld
<1>8. BranchesEnd'
  BY DEF BranchesEnd
<1>9. PointersFit'
  BY DEF IInv, TypeOK, PointersFit
<1> QED
  BY <1>5, <1>6, <1>7, <1>8, <1>9 DEF IInv

\* A branch that has not ended runs in its superstep or while it is disposed.
LEMMA ActiveBranch ==
    ASSUME IInv, NEW c \in Checks,
           branch[c].step \in {"ready", "queued"} \cup Reading
    PROVE  turn \in {"branches", "disposing"}
BY DEF IInv, BranchesEnd, Quiet, Reading

\* A step that is not a read gives its branch's slot back.
LEMMA GotoKeeps ==
    ASSUME IInv, NEW c \in Checks, NEW step \in BranchSteps \ Reading,
           branch[c].step \in {"ready", "queued"} \cup Reading,
           Goto(c, step, GivenBack(branch[c].step))
    PROVE  IInv'
<1> DEFINE new == [branch[c] EXCEPT !.step = step]
<1>1. new \in Branches
  BY BranchType DEF IInv, Branches
<1>2. new.step = step
  BY BranchType DEF IInv, Branches
<1>3. branch' = [branch EXCEPT ![c] = new]
  BY DEF Goto, IInv, TypeOK
<1>4. turn \in {"branches", "disposing"}
  BY ActiveBranch
<1>5. step # "loading"
  BY DEF Reading
<1> HIDE DEF new
<1> QED
  BY <1>1, <1>2, <1>3, <1>4, <1>5, BranchMoves DEF Goto, IInv, TypeOK

LEMMA FinishKeeps ==
    ASSUME IInv, NEW c \in Checks, NEW result \in Results(Verdicts),
           branch[c].step \in {"ready", "queued"} \cup Reading,
           Finish(c, result, GivenBack(branch[c].step))
    PROVE  IInv'
<1> DEFINE new == [branch[c] EXCEPT !.step = "done", !.result = result]
<1>1. new \in Branches
  BY BranchType DEF IInv, Branches, BranchSteps
<1>2. new.step = "done" /\ "done" # "loading"
  BY BranchType DEF IInv, Branches
<1>3. branch' = [branch EXCEPT ![c] = new]
  BY DEF Finish, IInv, TypeOK
<1>4. turn \in {"branches", "disposing"}
  BY ActiveBranch
<1>5. inbox' \in Seq(BranchResults)
  BY DEF Finish, IInv, TypeOK, BranchResults
<1>6. "done" \notin Reading
  BY DEF Reading
<1> HIDE DEF new
<1> QED
  BY <1>1, <1>2, <1>3, <1>4, <1>5, <1>6, BranchMoves DEF Finish
-----------------------------------------------------------------------------
(* The actions of a branch.                                                *)

LEMMA StartBranchKeeps ==
    ASSUME IInv, NEW c \in Checks, StartBranch(c)
    PROVE  IInv'
<1>1. branch[c].step = "ready" /\ GivenBack("ready") = 0
  BY DEF StartBranch, GivenBack, Reading
<1>2. {"queued", "stopped"} \subseteq BranchSteps \ Reading
  BY DEF BranchSteps, Reading
<1>3. Reuse(branch[c].work.previous, Len(rounds) + 1) \in Results(Verdicts)
  <2>1. Len(rounds) + 1 \in Nat \ {0}
    BY DEF IInv, TypeOK
  <2> QED
    BY <2>1, BranchType, ReuseType DEF IInv
<1>4. CASE Goto(c, "queued", 0) \/ Goto(c, "stopped", 0)
  BY <1>1, <1>2, <1>4, GotoKeeps
<1>5. CASE Finish(c, Reuse(branch[c].work.previous, Len(rounds) + 1), 0)
  BY <1>1, <1>3, <1>5, FinishKeeps
<1> QED
  BY <1>4, <1>5 DEF StartBranch

LEMMA EnterEvidenceGateKeeps ==
    ASSUME IInv, NEW c \in Checks, EnterEvidenceGate(c)
    PROVE  IInv'
<1> DEFINE new == [branch[c] EXCEPT !.step = "finding"]
<1>1. new \in Branches
  BY BranchType DEF IInv, Branches, BranchSteps, Reading
<1>2. new.step \in Reading /\ new.step # "loading"
  BY BranchType DEF IInv, Branches, Reading
<1>3. branch' = [branch EXCEPT ![c] = new]
  BY DEF EnterEvidenceGate, IInv, TypeOK
<1>4. turn \in {"branches", "disposing"}
  BY ActiveBranch DEF EnterEvidenceGate
<1>5. slots = 1 /\ slots' = 0
  BY DEF EnterEvidenceGate, IInv, TypeOK
<1> HIDE DEF new
<1> QED
  BY <1>1, <1>2, <1>3, <1>4, <1>5, BranchMoves DEF EnterEvidenceGate, IInv, TypeOK

LEMMA FindCurrentKeeps ==
    ASSUME IInv, NEW c \in Checks, FindCurrent(c)
    PROVE  IInv'
<1>1. branch[c].step = "finding" /\ "finding" \in Reading
      /\ GivenBack("finding") = 1
  BY DEF FindCurrent, Reading, GivenBack
<1>2. CASE evidence[c] = <<>>
  <2>1. Execute(<<>>, FALSE) \in Results(Verdicts)
    BY EmptySequence, ExecuteType
  <2> QED
    BY <1>1, <1>2, <2>1, FinishKeeps DEF FindCurrent
<1>3. CASE evidence[c] # <<>>
  <2> DEFINE new == [branch[c] EXCEPT !.step = "loading", !.pointer = Len(evidence[c])]
  <2>1. new \in Branches
    <3>1. Len(evidence[c]) \in Nat
      BY BranchType DEF IInv
    <3> QED
      BY <3>1, BranchType DEF IInv, Branches, BranchSteps, Reading
  <2>2. new.step \in Reading
    BY BranchType DEF IInv, Branches, Reading
  <2>3. branch' = [branch EXCEPT ![c] = new]
    BY <1>3 DEF FindCurrent, IInv, TypeOK
  <2>4. turn \in {"branches", "disposing"}
    BY <1>1, ActiveBranch
  <2>5. new.pointer = Len(evidence[c])
    BY BranchType DEF IInv, Branches
  <2> HIDE DEF new
  <2> QED
    BY <1>1, <1>3, <2>5, <2>1, <2>2, <2>3, <2>4, BranchMoves DEF FindCurrent, IInv, TypeOK
<1> QED
  BY <1>2, <1>3

LEMMA LoadRecordKeeps ==
    ASSUME IInv, NEW c \in Checks, LoadRecord(c)
    PROVE  IInv'
<1>1. branch[c].step = "loading" /\ "loading" \in Reading
      /\ GivenBack("loading") = 1
  BY DEF LoadRecord, Reading, GivenBack
<1>2. SubSeq(evidence[c], 1, branch[c].pointer) \in Seq(Verdicts)
  BY <1>1, BranchType DEF IInv, PointersFit
<1>3. Execute(SubSeq(evidence[c], 1, branch[c].pointer), FALSE) \in Results(Verdicts)
  BY <1>2, ExecuteType
<1> QED
  BY <1>1, <1>3, FinishKeeps DEF LoadRecord

LEMMA FailTransientlyKeeps ==
    ASSUME IInv, NEW c \in Checks, FailTransiently(c)
    PROVE  IInv'
<1> DEFINE freed == GivenBack(branch[c].step)
           again(record) == [branch[c] EXCEPT !.step = "queued",
                                              !.failures = Append(@, record)]
           gaveUp(record) == [outcome |-> TransientFailure, version |-> record,
                              source |-> Executed]
<1>1. branch[c].step \in Reading
  BY DEF FailTransiently
<1>2. PICK record \in 1 .. Len(evidence[c]) :
          \/ Goto(c, "stopped", freed)
          \/ Finish(c, gaveUp(record), freed)
          \/ /\ branch' = [branch EXCEPT ![c].step = "queued",
                                         ![c].failures = Append(@, record)]
             /\ slots' = slots + freed
             /\ UNCHANGED <<evidence, rounds, turn, inbox, collected, aborted>>
  BY DEF FailTransiently
<1>3. record \in Nat
  BY BranchType DEF IInv
<1>4. CASE Goto(c, "stopped", freed)
  BY <1>1, <1>4, GotoKeeps DEF BranchSteps, Reading
<1>5. CASE Finish(c, gaveUp(record), freed)
  <2>1. gaveUp(record) \in Results(Verdicts)
    BY <1>3 DEF Results, Executed
  <2> QED
    BY <1>1, <1>5, <2>1, FinishKeeps
<1>6. CASE /\ branch' = [branch EXCEPT ![c].step = "queued",
                                       ![c].failures = Append(@, record)]
           /\ slots' = slots + freed
           /\ UNCHANGED <<evidence, rounds, turn, inbox, collected, aborted>>
  <2>1. again(record) \in Branches
    <3>1. Append(branch[c].failures, record) \in Seq(Nat)
      BY <1>3, BranchType DEF IInv
    <3> QED
      BY <3>1, BranchType DEF IInv, Branches, BranchSteps
  <2>2. again(record).step = "queued" /\ "queued" \notin Reading
    BY BranchType DEF IInv, Branches, Reading
  <2>3. branch' = [branch EXCEPT ![c] = again(record)]
    BY <1>6 DEF IInv, TypeOK
  <2>4. turn \in {"branches", "disposing"}
    BY <1>1, ActiveBranch
  <2>5. inbox' \in Seq(BranchResults)
    BY <1>6 DEF IInv, TypeOK
  <2>6. /\ slots' = slots + GivenBack(branch[c].step)
        /\ UNCHANGED <<evidence, rounds, turn, collected, aborted>>
    BY <1>6
  <2> HIDE DEF again
  <2> QED
    BY <2>1, <2>2, <2>3, <2>4, <2>5, <2>6, BranchMoves
<1> QED
  BY <1>2, <1>4, <1>5, <1>6

LEMMA StoppedKeeps ==
    ASSUME IInv, NEW c \in Checks, FailTechnically(c) \/ StopBranch(c)
    PROVE  IInv'
BY GotoKeeps DEF FailTechnically, StopBranch, BranchSteps, Reading
-----------------------------------------------------------------------------
(* The actions of the turn.                                                *)

\* Steps that leave the branches and the gate alone.
LEMMA TurnMoves ==
    ASSUME IInv, TypeOK', UNCHANGED <<branch, slots, evidence>>,
           turn' \notin {"branches", "disposing"} => Quiet
    PROVE  IInv'
<1>1. Readers' = Readers
  BY DEF Readers
<1>2. Quiet' = Quiet
  BY DEF Quiet
<1>3. Quiet => Readers = {}
  BY DEF Quiet, Readers, Reading
<1>4. OneReader'
  BY <1>1, <1>3 DEF IInv, OneReader, OwnReads
<1>5. SlotIsHeld'
  BY <1>1 DEF IInv, SlotIsHeld
<1>6. BranchesEnd'
  BY <1>2 DEF BranchesEnd
<1>7. PointersFit'
  BY DEF IInv, PointersFit
<1> QED
  BY <1>4, <1>5, <1>6, <1>7 DEF IInv

LEMMA ProceedKeeps ==
    ASSUME IInv, NEW step \in TurnSteps, Proceed(step),
           step \notin {"branches", "disposing"} => Quiet
    PROVE  IInv'
<1>1. TypeOK'
  BY DEF IInv, TypeOK, Proceed
<1> QED
  BY <1>1, TurnMoves DEF Proceed

\* A turn begins, or its branches are given their work: none of them reads.
LEMMA FreshBranches ==
    ASSUME TypeOK',
           slots' = 1,
           \A c \in Checks : branch'[c].step \in {"idle", "ready"},
           turn' # "branches" => \A c \in Checks : branch'[c].step = "idle",
           turn' \in {"idle", "planning", "branches"}
    PROVE  IInv'
<1>1. Readers' = {}
  BY DEF Readers, Reading
<1> QED
  BY <1>1 DEF IInv, OneReader, SlotIsHeld, BranchesEnd, PointersFit, Quiet, OwnReads

LEMMA BeginTurnKeeps ==
    ASSUME IInv, BeginTurn, evidence' \in [Checks -> Seq(Verdicts)]
    PROVE  IInv'
<1>1. TypeOK'
  BY NoBranchType DEF IInv, TypeOK, BeginTurn, TurnSteps
<1>2. \A c \in Checks : branch'[c].step = "idle"
  BY DEF BeginTurn, NoBranch
<1> QED
  BY <1>1, <1>2, FreshBranches DEF BeginTurn

LEMMA PlanKeeps ==
    ASSUME IInv, Plan
    PROVE  IInv'
<1>1. PICK rerun \in SUBSET Checks :
          branch' = [c \in Checks |->
              [NoBranch EXCEPT
                  !.step = "ready",
                  !.work = WorkItem(
                      PlanningReason(Latest(c), c \in rerun, Len(evidence[c])),
                      Latest(c), Len(evidence[c]))]]
  BY DEF Plan
<1>2. ASSUME NEW c \in Checks
      PROVE  branch'[c] \in Branches /\ branch'[c].step = "ready"
  <2> DEFINE reason == PlanningReason(Latest(c), c \in rerun, Len(evidence[c]))
             work == WorkItem(reason, Latest(c), Len(evidence[c]))
  <2>1. Len(evidence[c]) \in Nat
    BY BranchType DEF IInv
  <2>2. reason \in {"InitialEvaluation", "ExplicitlySelected", "EvidenceChanged",
                    "PreviousResultNotPassed", "UnchangedEvidence"}
    BY DEF PlanningReason
  <2>3. Latest(c) \in Results(Verdicts)
    BY LatestType DEF IInv
  <2>4. branch'[c] = [NoBranch EXCEPT !.step = "ready", !.work = work]
    BY <1>1
  <2>5. work \in [reason : {"None", "InitialEvaluation", "ExplicitlySelected",
                       "EvidenceChanged", "PreviousResultNotPassed",
                       "UnchangedEvidence"},
                  previous : Results(Verdicts),
                  version : Nat]
    <3> HIDE DEF reason
    <3> QED
      BY <2>1, <2>2, <2>3 DEF WorkItem
  <2> HIDE DEF work
  <2> QED
    BY <2>4, <2>5, NoBranchType DEF NoBranch, Branches, BranchSteps
<1>3. branch' \in [Checks -> Branches]
  BY <1>1, <1>2
<1>4. Readers = {}
  BY DEF Plan, IInv, OneReader, OwnReads
<1>5. slots' = 1
  BY <1>4 DEF Plan, IInv, SlotIsHeld
<1>6. TypeOK'
  BY <1>3 DEF Plan, IInv, TypeOK, TurnSteps
<1> QED
  BY <1>2, <1>5, <1>6, FreshBranches DEF Plan

LEMMA SubmitKeeps ==
    ASSUME IInv, Submit
    PROVE  IInv'
<1>1. evidence' \in [Checks -> Seq(Verdicts)]
  BY FillType DEF Submit
<1> QED
  BY <1>1, BeginTurnKeeps DEF Submit

LEMMA RemediateKeeps ==
    ASSUME IInv, Remediate
    PROVE  IInv'
<1>2. PICK fill \in [Checks -> {<<>>} \cup {<<v>> : v \in Verdicts}] :
          evidence' = [c \in Checks |-> evidence[c] \o fill[c]]
  BY DEF Remediate
<1>3. \A c \in Checks : fill[c] \in Seq(Verdicts)
  BY FillType
<1>4. \A c \in Checks : evidence[c] \o fill[c] \in Seq(Verdicts)
  BY <1>3, BranchType DEF IInv
<1>5. evidence' \in [Checks -> Seq(Verdicts)]
  BY <1>2, <1>4
<1> QED
  BY <1>5, BeginTurnKeeps DEF Remediate

LEMMA ReceiveKeeps ==
    ASSUME IInv, Receive
    PROVE  IInv'
<1>1. Head(inbox) \in BranchResults /\ Tail(inbox) \in Seq(BranchResults)
  BY DEF Receive, IInv, TypeOK
<1>2. Quiet
  BY DEF Receive, IInv, BranchesEnd
<1>3. CASE Proceed("disposing")
  BY <1>3, ProceedKeeps DEF TurnSteps
<1>4. CASE ~Proceed("disposing")
  <2>1. TypeOK'
    <3>1. /\ collected' = Append(collected, Head(inbox))
          /\ inbox' = Tail(inbox)
          /\ turn' \in {"completing", "collecting"}
          /\ UNCHANGED <<evidence, rounds, branch, slots, aborted>>
      BY <1>4 DEF Receive
    <3>2. collected' \in Seq(BranchResults)
      BY <1>1, <3>1 DEF IInv, TypeOK
    <3> QED
      BY <1>1, <3>1, <3>2 DEF IInv, TypeOK, TurnSteps
  <2>2. UNCHANGED <<branch, slots, evidence>>
    BY <1>4 DEF Receive
  <2> QED
    BY <1>2, <2>1, <2>2, TurnMoves
<1> QED
  BY <1>3, <1>4

LEMMA CompleteKeeps ==
    ASSUME IInv, Complete
    PROVE  IInv'
<1>1. Quiet
  BY DEF Complete, IInv, BranchesEnd
<1>2. CASE Proceed("disposing")
  BY <1>2, ProceedKeeps DEF TurnSteps
<1>3. CASE ~Proceed("disposing")
  <2>1. /\ \A c \in Checks : \E i \in 1 .. Len(collected) : collected[i].check = c
        /\ rounds' = Append(rounds, [c \in Checks |-> ResultOf(collected, c)])
        /\ collected' = <<>> /\ turn' = "waiting"
        /\ UNCHANGED <<evidence, branch, slots, inbox, aborted>>
    BY <1>3 DEF Complete
  <2>2. ASSUME NEW c \in Checks
        PROVE  ResultOf(collected, c) \in Results(Verdicts)
    <3>1. \E i \in 1 .. Len(collected) : collected[i].check = c
      BY <2>1
    <3> DEFINE i == CHOOSE i \in 1 .. Len(collected) : collected[i].check = c
    <3>2. i \in 1 .. Len(collected)
      BY <3>1
    <3>3. collected[i] \in BranchResults
      <4> HIDE DEF i
      <4> QED
        BY <3>2 DEF IInv, TypeOK
    <3> QED
      BY <3>3 DEF ResultOf, BranchResults
  <2>3. rounds' \in Seq([Checks -> Results(Verdicts)])
    BY <2>1, <2>2 DEF IInv, TypeOK
  <2>4. TypeOK'
    BY <2>1, <2>3 DEF IInv, TypeOK, TurnSteps
  <2> QED
    BY <1>1, <2>1, <2>4, TurnMoves
<1> QED
  BY <1>2, <1>3

LEMMA RestOfTurnKeeps ==
    ASSUME IInv, FanIn \/ LeaveEventLoop \/ DisposeRun \/ MarkFailed \/ Abort
    PROVE  IInv'
<1>1. CASE FanIn
  BY <1>1, ProceedKeeps DEF FanIn, Quiet, TurnSteps
<1>2. CASE LeaveEventLoop
  BY <1>2, ProceedKeeps DEF LeaveEventLoop, TurnSteps
<1>3. CASE DisposeRun
  BY <1>3, ProceedKeeps DEF DisposeRun, TurnSteps
<1>4. CASE MarkFailed
  BY <1>4, ProceedKeeps DEF MarkFailed, IInv, BranchesEnd, TurnSteps
<1>5. CASE Abort
  <2>1. TypeOK'
    BY <1>5 DEF Abort, IInv, TypeOK
  <2> QED
    BY <1>5, <2>1, TurnMoves DEF Abort, IInv, BranchesEnd
<1> QED
  BY <1>1, <1>2, <1>3, <1>4, <1>5
-----------------------------------------------------------------------------
(* The theorems.                                                           *)

LEMMA InitIInv ==
    ASSUME Init
    PROVE  IInv
<1>1. TypeOK
  <2>1. evidence \in [Checks -> Seq(Verdicts)]
    BY EmptySequence DEF Init
  <2>2. rounds \in Seq([Checks -> Results(Verdicts)])
    BY EmptySequence DEF Init
  <2>3. inbox \in Seq(BranchResults) /\ collected \in Seq(BranchResults)
    BY EmptySequence DEF Init
  <2> QED
    BY <2>1, <2>2, <2>3, NoBranchType DEF Init, TypeOK, TurnSteps
<1>2. \A c \in Checks : branch[c].step = "idle"
  BY DEF Init, NoBranch
<1> QED
  BY <1>1, <1>2
  DEF Init, IInv, OneReader, SlotIsHeld, BranchesEnd, PointersFit, Quiet, Readers,
      Reading, OwnReads

LEMMA NextKeeps ==
    ASSUME IInv, [Next]_vars
    PROVE  IInv'
<1>1. CASE Submit
  BY <1>1, SubmitKeeps
<1>2. CASE Remediate
  BY <1>2, RemediateKeeps
<1>3. ASSUME NEW c \in Checks, RunBranch(c)
      PROVE  IInv'
  BY <1>3, StartBranchKeeps, FindCurrentKeeps, LoadRecordKeeps, FailTransientlyKeeps,
     StoppedKeeps DEF RunBranch
<1>4. ASSUME NEW c \in Checks, EnterEvidenceGate(c)
      PROVE  IInv'
  BY <1>4, EnterEvidenceGateKeeps
<1>5. CASE RunTurn \/ Abort
  BY <1>5, PlanKeeps, ReceiveKeeps, CompleteKeeps, RestOfTurnKeeps DEF RunTurn
<1>6. CASE UNCHANGED vars
  BY <1>6
  DEF vars, IInv, TypeOK, OneReader, SlotIsHeld, BranchesEnd, PointersFit, Quiet, Readers
<1> QED
  BY <1>1, <1>2, <1>3, <1>4, <1>5, <1>6 DEF Next

(* The inductive invariant holds, whatever providers and clients do. *)
THEOREM InvariantCorrect == Spec => []IInv
BY InitIInv, NextKeeps, PTL DEF Spec

(* The DbContext has one reader at a time: branches exclude each other by  *)
(* the gate, the planner, the aggregator and the failure handler exclude   *)
(* them by their place in the turn.                                        *)
THEOREM OneReaderCorrect == Spec => []OneReader
<1>1. IInv => OneReader
  BY DEF IInv
<1> QED
  BY <1>1, InvariantCorrect, PTL
-----------------------------------------------------------------------------
(* FInv: results on their way from the branches to the round.              *)

\* RoundEvaluation plans and evaluates with the operators of RoundPlanning.
LEMMA SameOperators ==
    ASSUME NEW past, NEW history, NEW rerun, NEW c
    PROVE  LET previous == Evaluation!PreviousResult(past, c)
               reason == PlanningReason(previous, rerun, Len(history))
           IN  Evaluation!MayResult(past, history, rerun, c) =
                   {IF reason = "UnchangedEvidence" THEN Reuse(previous, Len(past) + 1)
                    ELSE Execute(history, FALSE)}
                   \cup {[outcome |-> TransientFailure, version |-> v, source |-> Executed] :
                         v \in IF reason = "UnchangedEvidence" THEN {}
                               ELSE 1 .. Len(history)}
<1>1. /\ Evaluation!Executed = Executed /\ Evaluation!Passed = Passed
      /\ Evaluation!MissingEvidence = MissingEvidence
      /\ Evaluation!TransientFailure = TransientFailure
  BY DEF Evaluation!Executed, Executed, Evaluation!Passed, Passed,
         Evaluation!MissingEvidence, MissingEvidence,
         Evaluation!TransientFailure, TransientFailure
<1>2. Evaluation!NoResult = NoResult
  BY <1>1 DEF Evaluation!NoResult, NoResult
<1>3. \A p, again, v :
          Evaluation!PlanningReason(p, again, v) = PlanningReason(p, again, v)
  BY <1>1, <1>2 DEF Evaluation!PlanningReason, PlanningReason
<1>4. \A p, round : Evaluation!Reuse(p, round) = Reuse(p, round)
  BY <1>1 DEF Evaluation!Reuse, Reuse
<1>5. Evaluation!Execute(history, FALSE) = Execute(history, FALSE)
  BY <1>1 DEF Evaluation!Execute, Execute
<1>6. \A v : Evaluation!Exhausted(v)
                 = [outcome |-> TransientFailure, version |-> v, source |-> Executed]
  BY <1>1 DEF Evaluation!Exhausted
<1> QED
  BY <1>3, <1>4, <1>5, <1>6 DEF Evaluation!MayResult, Evaluation!Evaluate

LEMMA LatestIsPrevious ==
    ASSUME NEW c
    PROVE  Latest(c) = Evaluation!PreviousResult(rounds, c)
<1>1. Evaluation!NoResult = NoResult
  BY DEF Evaluation!NoResult, NoResult, Evaluation!Executed, Executed
<1> QED
  BY <1>1 DEF Latest, Evaluation!PreviousResult

\* A branch in its superstep goes on, and perhaps sends what it found.
LEMMA BranchAdvances ==
    ASSUME FInv, IInv', NEW c \in Checks, NEW new \in Branches,
           branch[c].step \in {"ready", "queued"} \cup Reading,
           branch' = [branch EXCEPT ![c] = new],
           Tried(new), OnPlan(new, rounds, evidence[c], c),
           IF new.step = "done"
           THEN inbox' = Append(inbox, [check |-> c, result |-> new.result])
           ELSE inbox' = inbox,
           UNCHANGED <<evidence, rounds, turn, collected, aborted>>
    PROVE  FInv'
<1>1. /\ IInv /\ branch \in [Checks -> Branches] /\ inbox \in Seq(BranchResults)
      /\ collected \in Seq(BranchResults) /\ turn \in {"branches", "disposing"}
  BY ActiveBranch DEF FInv, IInv, TypeOK
<1>2. branch[c].step # "done" /\ \A d \in Checks : Latest(d)' = Latest(d)
  BY DEF Reading, Latest
<1>3. /\ branch'[c] = new
      /\ \A d \in Checks : d # c => branch'[d] = branch[d]
  BY <1>1
<1>4. /\ \A d \in Checks : Tried(branch'[d])
      /\ \A d \in Checks : OnPlan(branch'[d], rounds, evidence[d], d)
  BY <1>1, <1>3 DEF FInv
<1>5. ASSUME NEW list \in Seq(BranchResults), Sent(list)
      PROVE  \A i \in 1 .. Len(list) :
                 /\ list[i].check \in Checks /\ list[i].check # c
                 /\ branch'[list[i].check].step = "done"
                 /\ branch'[list[i].check].result = list[i].result
  <2> TAKE i \in 1 .. Len(list)
  <2>1. list[i] \in BranchResults
    BY <1>5
  <2> QED
    BY <1>2, <1>3, <1>5, <2>1 DEF Sent, BranchResults
<1>6. /\ Sent(collected)' /\ Once(collected)'
      /\ \A i \in 1 .. Len(collected) : collected[i].check # c
  <2>1. collected' = collected /\ Sent(collected) /\ Once(collected)
    BY DEF FInv
  <2>2. \A i \in 1 .. Len(collected) :
            /\ collected[i].check # c
            /\ branch'[collected[i].check].step = "done"
            /\ branch'[collected[i].check].result = collected[i].result
    BY <1>1, <1>5, <2>1
  <2> QED
    BY <2>1, <2>2 DEF Sent, Once
<1>7. CASE new.step # "done"
  <2>1. Sent(inbox)' /\ Once(inbox)'
    <3>1. inbox' = inbox /\ Sent(inbox) /\ Once(inbox)
      BY <1>7 DEF FInv
    <3>2. \A i \in 1 .. Len(inbox) :
              /\ branch'[inbox[i].check].step = "done"
              /\ branch'[inbox[i].check].result = inbox[i].result
      BY <1>1, <1>5, <3>1
    <3> QED
      BY <3>1, <3>2 DEF Sent, Once
  <2>2. \A i \in 1 .. Len(inbox') : ~IsDuplicate(collected', inbox'[i])
    BY <1>7 DEF FInv, IsDuplicate
  <2> QED
    BY <1>1, <1>2, <1>4, <1>6, <2>1, <2>2 DEF FInv
<1>8. CASE new.step = "done"
  <2> DEFINE sent == [check |-> c, result |-> new.result]
             n == Len(inbox)
  <2>1. inbox' = Append(inbox, sent)
    BY <1>8
  <2>2. /\ n \in Nat /\ Len(inbox') = n + 1 /\ inbox'[n + 1] = sent
        /\ \A i \in 1 .. n : inbox'[i] = inbox[i]
    BY <1>1, <2>1
  <2>3. sent.check = c /\ sent.result = new.result
    OBVIOUS
  <2> HIDE DEF sent, n
  <2>4. \A i \in 1 .. n + 1 : i \in 1 .. n \/ i = n + 1
    BY <2>2
  <2>5. \A i \in 1 .. n :
            /\ inbox[i].check # c
            /\ branch'[inbox[i].check].step = "done"
            /\ branch'[inbox[i].check].result = inbox[i].result
    BY <1>1, <1>5 DEF FInv, n
  <2>6. Sent(inbox)'
    <3>1. ASSUME NEW i \in 1 .. n + 1
          PROVE  /\ branch'[inbox'[i].check].step = "done"
                 /\ branch'[inbox'[i].check].result = inbox'[i].result
      BY <1>3, <1>8, <2>2, <2>3, <2>4, <2>5
    <3> QED
      BY <2>2, <3>1 DEF Sent
  <2>7. Once(inbox)'
    <3>1. Once(inbox)
      BY DEF FInv
    <3>2. ASSUME NEW i \in 1 .. n + 1, NEW j \in 1 .. n + 1,
                 inbox'[i].check = inbox'[j].check
          PROVE  i = j
      BY <2>2, <2>3, <2>4, <2>5, <3>1, <3>2 DEF Once, n
    <3> QED
      BY <2>2, <3>2 DEF Once
  <2>8. \A i \in 1 .. Len(inbox') : ~IsDuplicate(collected', inbox'[i])
    <3>1. \A i \in 1 .. n : ~IsDuplicate(collected, inbox[i])
      BY DEF FInv, n
    <3>2. ASSUME NEW i \in 1 .. n + 1
          PROVE  ~IsDuplicate(collected, inbox'[i])
      BY <1>6, <2>2, <2>3, <2>4, <3>1 DEF IsDuplicate
    <3> QED
      BY <2>2, <3>2 DEF IsDuplicate
  <2> QED
    BY <1>1, <1>2, <1>4, <1>6, <2>6, <2>7, <2>8 DEF FInv
<1> QED
  BY <1>7, <1>8

\* What is known of a branch that has not ended.
LEMMA OpenBranch ==
    ASSUME FInv, NEW c \in Checks,
           branch[c].step \in {"ready", "queued"} \cup Reading
    PROVE  /\ IInv /\ TypeOK /\ branch[c] \in Branches
           /\ evidence[c] \in Seq(Verdicts)
           /\ turn \in {"branches", "disposing"}
           /\ Tried(branch[c])
           /\ branch[c].result = NoResult
           /\ OnPlan(branch[c], rounds, evidence[c], c)
<1>1. IInv /\ TypeOK
  BY DEF FInv, IInv
<1>2. turn \in {"branches", "disposing"}
  BY <1>1, ActiveBranch
<1>3. branch[c].step # "done" /\ Tried(branch[c])
  BY DEF FInv, Reading
<1> QED
  BY <1>1, <1>2, <1>3, BranchType DEF FInv, Tried

LEMMA GotoAdvances ==
    ASSUME FInv, IInv', NEW c \in Checks, NEW step \in {"queued", "stopped"}, NEW freed,
           branch[c].step \in {"ready", "queued"} \cup Reading,
           step = "queued" => branch[c].work.reason # "UnchangedEvidence",
           Goto(c, step, freed)
    PROVE  FInv'
<1> DEFINE new == [branch[c] EXCEPT !.step = step]
<1>1. /\ branch \in [Checks -> Branches] /\ branch[c] \in Branches /\ Tried(branch[c])
      /\ OnPlan(branch[c], rounds, evidence[c], c) /\ branch[c].result = NoResult
  BY OpenBranch DEF TypeOK
<1>2. /\ new.step = step /\ new.work = branch[c].work
      /\ new.failures = branch[c].failures /\ new.result = branch[c].result
  BY <1>1 DEF Branches
<1>3. new \in Branches
  BY <1>1 DEF Branches, BranchSteps
<1>4. branch' = [branch EXCEPT ![c] = new]
  BY <1>1 DEF Goto
<1> HIDE DEF new
<1>5. Tried(new)
  BY <1>1, <1>2 DEF Tried, Reading
<1>6. OnPlan(new, rounds, evidence[c], c)
  <2>1. branch[c].step # "idle" /\ new.step # "done"
    BY <1>2 DEF Reading
  <2> QED
    BY <1>1, <1>2, <2>1 DEF OnPlan
<1> QED
  BY <1>2, <1>3, <1>4, <1>5, <1>6, BranchAdvances DEF Goto

LEMMA FinishAdvances ==
    ASSUME FInv, IInv', NEW c \in Checks, NEW result \in Results(Verdicts), NEW freed,
           branch[c].step \in {"ready", "queued"} \cup Reading,
           \E rerun \in BOOLEAN :
               result \in Evaluation!MayResult(rounds, evidence[c], rerun, c),
           result.outcome = TransientFailure =>
               /\ Len(branch[c].failures) + 1 = MaximumAttempts
               /\ SameRecord(branch[c].failures, result.version),
           Finish(c, result, freed)
    PROVE  FInv'
<1> DEFINE new == [branch[c] EXCEPT !.step = "done", !.result = result]
<1>1. /\ branch \in [Checks -> Branches] /\ branch[c] \in Branches /\ Tried(branch[c])
      /\ OnPlan(branch[c], rounds, evidence[c], c)
  BY OpenBranch DEF TypeOK
<1>2. /\ new.step = "done" /\ new.work = branch[c].work
      /\ new.failures = branch[c].failures /\ new.result = result
  BY <1>1 DEF Branches
<1>3. new \in Branches
  BY <1>1 DEF Branches, BranchSteps
<1>4. branch' = [branch EXCEPT ![c] = new]
  BY <1>1 DEF Finish
<1>5. /\ inbox' = Append(inbox, [check |-> c, result |-> new.result])
      /\ UNCHANGED <<evidence, rounds, turn, collected, aborted>>
  BY <1>2 DEF Finish
<1> HIDE DEF new
<1>6. Tried(new)
  BY <1>1, <1>2 DEF Tried, Reading
<1>7. OnPlan(new, rounds, evidence[c], c)
  <2>1. branch[c].step # "idle"
    BY DEF Reading
  <2> QED
    BY <1>1, <1>2, <2>1 DEF OnPlan
<1> QED
  BY <1>2, <1>3, <1>4, <1>5, <1>6, <1>7, BranchAdvances

\* The policies do not report a transient failure.
LEMMA ExecuteReports ==
    ASSUME NEW history \in Seq(Verdicts)
    PROVE  Execute(history, FALSE).outcome # TransientFailure
<1>1. history # <<>> => history[Len(history)] \in Verdicts
  OBVIOUS
<1>2. MissingEvidence # TransientFailure
  BY DEF MissingEvidence, TransientFailure
<1> QED
  BY <1>1, <1>2, ConstantsAssumption DEF Execute

\* The plan of a branch at the gate, and the results it may come back with.
LEMMA ExecutesOnPlan ==
    ASSUME FInv, NEW c \in Checks, branch[c].step \in {"queued"} \cup Reading
    PROVE  \E rerun \in BOOLEAN :
               /\ Execute(evidence[c], FALSE)
                      \in Evaluation!MayResult(rounds, evidence[c], rerun, c)
               /\ \A v \in 1 .. Len(evidence[c]) :
                      [outcome |-> TransientFailure, version |-> v, source |-> Executed]
                          \in Evaluation!MayResult(rounds, evidence[c], rerun, c)
<1> DEFINE previous == Evaluation!PreviousResult(rounds, c)
<1>1. /\ Tried(branch[c]) /\ OnPlan(branch[c], rounds, evidence[c], c)
      /\ branch[c].step # "idle"
  BY OpenBranch DEF Reading
<1>2. branch[c].work.reason # "UnchangedEvidence"
  BY <1>1 DEF Tried
<1>3. PICK rerun \in BOOLEAN :
          branch[c].work = WorkItem(PlanningReason(previous, rerun, Len(evidence[c])),
                                    previous, Len(evidence[c]))
  BY <1>1 DEF OnPlan
<1>4. PlanningReason(previous, rerun, Len(evidence[c])) # "UnchangedEvidence"
  BY <1>2, <1>3 DEF WorkItem
<1> HIDE DEF previous
<1>5. Evaluation!MayResult(rounds, evidence[c], rerun, c) =
          {Execute(evidence[c], FALSE)}
          \cup {[outcome |-> TransientFailure, version |-> v, source |-> Executed] :
                v \in 1 .. Len(evidence[c])}
  BY <1>4, SameOperators DEF previous
<1> QED
  BY <1>5

LEMMA StartBranchAdvances ==
    ASSUME FInv, IInv', NEW c \in Checks, StartBranch(c)
    PROVE  FInv'
<1> DEFINE work == branch[c].work
           previous == Evaluation!PreviousResult(rounds, c)
           result == Reuse(work.previous, Len(rounds) + 1)
<1>1. /\ branch[c].step = "ready" /\ IInv /\ TypeOK
      /\ OnPlan(branch[c], rounds, evidence[c], c) /\ "ready" # "idle"
  BY OpenBranch DEF StartBranch
<1>2. CASE work.reason # "UnchangedEvidence"
  <2>1. Goto(c, "queued", 0)
    BY <1>2 DEF StartBranch
  <2> QED
    BY <1>1, <1>2, <2>1, GotoAdvances
<1>3. CASE Goto(c, "stopped", 0)
  BY <1>1, <1>3, GotoAdvances
<1>4. CASE work.reason = "UnchangedEvidence" /\ Finish(c, result, 0)
  <2>1. PICK rerun \in BOOLEAN :
            work = WorkItem(PlanningReason(previous, rerun, Len(evidence[c])),
                            previous, Len(evidence[c]))
    BY <1>1 DEF OnPlan
  <2>2. /\ PlanningReason(previous, rerun, Len(evidence[c])) = "UnchangedEvidence"
        /\ work.previous = previous
    BY <1>4, <2>1 DEF WorkItem
  <2> HIDE DEF previous, work
  <2>3. result \in Evaluation!MayResult(rounds, evidence[c], rerun, c)
    BY <2>2, SameOperators DEF previous
  <2>4. result \in Results(Verdicts)
    <3>1. Len(rounds) + 1 \in Nat \ {0}
      BY <1>1 DEF TypeOK
    <3> QED
      BY <1>1, <3>1, BranchType, ReuseType DEF work
  <2>5. result.outcome # TransientFailure
    BY DEF Reuse, Passed, TransientFailure
  <2> HIDE DEF result
  <2> QED
    BY <1>1, <1>4, <2>3, <2>4, <2>5, FinishAdvances
<1> QED
  BY <1>2, <1>3, <1>4 DEF StartBranch

LEMMA EnterEvidenceGateAdvances ==
    ASSUME FInv, IInv', NEW c \in Checks, EnterEvidenceGate(c)
    PROVE  FInv'
<1> DEFINE new == [branch[c] EXCEPT !.step = "finding"]
<1>1. /\ branch \in [Checks -> Branches] /\ branch[c] \in Branches /\ Tried(branch[c])
      /\ OnPlan(branch[c], rounds, evidence[c], c) /\ branch[c].step = "queued"
  BY OpenBranch DEF TypeOK, EnterEvidenceGate
<1>2. /\ new.step = "finding" /\ new.work = branch[c].work
      /\ new.failures = branch[c].failures /\ new.result = branch[c].result
  BY <1>1 DEF Branches
<1>3. new \in Branches
  BY <1>1 DEF Branches, BranchSteps, Reading
<1>4. branch' = [branch EXCEPT ![c] = new]
  BY <1>1 DEF EnterEvidenceGate
<1> HIDE DEF new
<1>5. Tried(new)
  BY <1>1, <1>2 DEF Tried, Reading
<1>6. OnPlan(new, rounds, evidence[c], c)
  BY <1>1, <1>2 DEF OnPlan
<1> QED
  BY <1>1, <1>2, <1>3, <1>4, <1>5, <1>6, BranchAdvances DEF EnterEvidenceGate

LEMMA FindCurrentAdvances ==
    ASSUME FInv, IInv', NEW c \in Checks, FindCurrent(c)
    PROVE  FInv'
<1>1. branch[c].step = "finding" /\ "finding" \in Reading
  BY DEF FindCurrent, Reading
<1>2. CASE evidence[c] = <<>>
  <2>1. Finish(c, Execute(<<>>, FALSE), 1)
    BY <1>2 DEF FindCurrent
  <2>2. /\ Execute(<<>>, FALSE) \in Results(Verdicts)
        /\ Execute(<<>>, FALSE).outcome # TransientFailure
    BY EmptySequence, ExecuteType, ExecuteReports
  <2>3. \E rerun \in BOOLEAN :
            Execute(<<>>, FALSE) \in Evaluation!MayResult(rounds, evidence[c], rerun, c)
    BY <1>1, <1>2, ExecutesOnPlan
  <2> QED
    BY <1>1, <2>1, <2>2, <2>3, FinishAdvances
<1>3. CASE evidence[c] # <<>>
  <2> DEFINE new == [branch[c] EXCEPT !.step = "loading", !.pointer = Len(evidence[c])]
  <2>1. /\ branch \in [Checks -> Branches] /\ branch[c] \in Branches /\ Tried(branch[c])
        /\ OnPlan(branch[c], rounds, evidence[c], c) /\ Len(evidence[c]) \in Nat
    BY <1>1, OpenBranch DEF TypeOK
  <2>2. /\ new.step = "loading" /\ new.work = branch[c].work
        /\ new.failures = branch[c].failures /\ new.result = branch[c].result
    BY <2>1 DEF Branches
  <2>3. new \in Branches
    BY <2>1 DEF Branches, BranchSteps, Reading
  <2>4. /\ branch' = [branch EXCEPT ![c] = new]
        /\ UNCHANGED <<evidence, rounds, turn, slots, inbox, collected, aborted>>
    BY <1>3, <2>1 DEF FindCurrent
  <2> HIDE DEF new
  <2>5. Tried(new)
    BY <1>1, <2>1, <2>2 DEF Tried, Reading
  <2>6. OnPlan(new, rounds, evidence[c], c)
    BY <1>1, <2>1, <2>2 DEF OnPlan
  <2> QED
    BY <1>1, <2>2, <2>3, <2>4, <2>5, <2>6, BranchAdvances
<1> QED
  BY <1>2, <1>3

LEMMA LoadRecordAdvances ==
    ASSUME FInv, IInv', NEW c \in Checks, LoadRecord(c)
    PROVE  FInv'
<1> DEFINE read == SubSeq(evidence[c], 1, branch[c].pointer)
<1>1. /\ branch[c].step = "loading" /\ "loading" \in Reading /\ IInv
      /\ evidence[c] \in Seq(Verdicts) /\ evidence[c] # <<>>
      /\ branch[c].pointer = Len(evidence[c])
  BY OpenBranch DEF LoadRecord, Reading, IInv, PointersFit
<1>2. Execute(read, FALSE) = Execute(evidence[c], FALSE)
  <2>1. /\ Len(read) = Len(evidence[c])
        /\ read[Len(evidence[c])] = evidence[c][Len(evidence[c])]
        /\ read # <<>>
    BY <1>1
  <2> HIDE DEF read
  <2> QED
    BY <1>1, <2>1 DEF Execute
<1>3. /\ Execute(evidence[c], FALSE) \in Results(Verdicts)
      /\ Execute(evidence[c], FALSE).outcome # TransientFailure
  BY <1>1, ExecuteType, ExecuteReports
<1>4. \E rerun \in BOOLEAN :
          Execute(evidence[c], FALSE) \in Evaluation!MayResult(rounds, evidence[c], rerun, c)
  BY <1>1, ExecutesOnPlan
<1>5. Finish(c, Execute(evidence[c], FALSE), 1)
  BY <1>2 DEF LoadRecord
<1> QED
  BY <1>1, <1>3, <1>4, <1>5, FinishAdvances

LEMMA FailTransientlyAdvances ==
    ASSUME FInv, IInv', NEW c \in Checks, FailTransiently(c)
    PROVE  FInv'
<1> DEFINE freed == GivenBack(branch[c].step)
           failures == branch[c].failures
           gaveUp(record) == [outcome |-> TransientFailure, version |-> record,
                              source |-> Executed]
<1>1. /\ branch[c].step \in Reading /\ TypeOK /\ branch[c] \in Branches
      /\ evidence[c] \in Seq(Verdicts)
      /\ Tried(branch[c]) /\ OnPlan(branch[c], rounds, evidence[c], c)
      /\ branch[c].result = NoResult
  BY OpenBranch DEF FailTransiently
<1>2. PICK record \in 1 .. Len(evidence[c]) :
          \/ Goto(c, "stopped", freed)
          \/ /\ SameRecord(failures, record) /\ IsLastAttempt(failures)
             /\ Finish(c, gaveUp(record), freed)
          \/ /\ ~IsLastAttempt(failures)
             /\ branch' = [branch EXCEPT ![c].step = "queued",
                                         ![c].failures = Append(@, record)]
             /\ UNCHANGED <<evidence, rounds, turn, inbox, collected, aborted>>
  BY DEF FailTransiently
<1>3. record \in Nat
  BY <1>1
<1>4. CASE Goto(c, "stopped", freed)
  BY <1>1, <1>4, GotoAdvances
<1>5. CASE /\ SameRecord(failures, record) /\ IsLastAttempt(failures)
           /\ Finish(c, gaveUp(record), freed)
  <2>1. gaveUp(record) \in Results(Verdicts)
    BY <1>3 DEF Results, Executed
  <2>2. \E rerun \in BOOLEAN :
            gaveUp(record) \in Evaluation!MayResult(rounds, evidence[c], rerun, c)
    BY <1>1, ExecutesOnPlan
  <2>3. gaveUp(record).version = record
    OBVIOUS
  <2> HIDE DEF gaveUp
  <2> QED
    BY <1>1, <1>5, <2>1, <2>2, <2>3, FinishAdvances DEF IsLastAttempt
<1>6. CASE /\ ~IsLastAttempt(failures)
           /\ branch' = [branch EXCEPT ![c].step = "queued",
                                       ![c].failures = Append(@, record)]
           /\ UNCHANGED <<evidence, rounds, turn, inbox, collected, aborted>>
  <2> DEFINE new == [branch[c] EXCEPT !.step = "queued", !.failures = Append(@, record)]
  <2>1. failures \in Seq(Nat) /\ Append(failures, record) \in Seq(Nat)
        /\ Len(Append(failures, record)) = Len(failures) + 1
    BY <1>1, <1>3 DEF Branches
  <2>2. /\ new.step = "queued" /\ new.work = branch[c].work
        /\ new.failures = Append(failures, record) /\ new.result = branch[c].result
    BY <1>1 DEF Branches
  <2>3. new \in Branches
    BY <1>1, <2>1 DEF Branches, BranchSteps
  <2>4. branch' = [branch EXCEPT ![c] = new]
    BY <1>1, <1>6 DEF TypeOK
  <2> HIDE DEF new
  <2>5. Len(new.failures) < MaximumAttempts
    BY <1>1, <1>6, <2>1, <2>2 DEF Tried, IsLastAttempt, MaximumAttempts
  <2>6. new.result.outcome # TransientFailure
    BY <1>1, <2>2 DEF NoResult, TransientFailure
  <2>7. Tried(new)
    BY <1>1, <2>2, <2>5, <2>6 DEF Tried
  <2>8. OnPlan(new, rounds, evidence[c], c)
    BY <1>1, <2>2 DEF OnPlan, Reading
  <2> QED
    BY <1>1, <1>6, <2>2, <2>3, <2>4, <2>7, <2>8, BranchAdvances
<1> QED
  BY <1>2, <1>4, <1>5, <1>6

LEMMA StoppedAdvances ==
    ASSUME FInv, IInv', NEW c \in Checks, FailTechnically(c) \/ StopBranch(c)
    PROVE  FInv'
BY GotoAdvances DEF FailTechnically, StopBranch
-----------------------------------------------------------------------------
(* FInv and the turn.                                                      *)

\* What the turn does while its branches, and what they sent, stay as they are.
LEMMA TurnAdvances ==
    ASSUME FInv, IInv', UNCHANGED <<evidence, rounds, branch, inbox, collected>>,
           turn # "waiting" \/ turn' = "waiting",
           turn' \in {"planning", "completing", "waiting"} => turn' = turn
    PROVE  FInv'
<1>1. /\ \A c \in Checks : Tried(branch'[c]) /\ Latest(c)' = Latest(c)
      /\ Sent(inbox)' /\ Once(inbox)' /\ Sent(collected)' /\ Once(collected)'
      /\ \A i \in 1 .. Len(inbox') : ~IsDuplicate(collected', inbox'[i])
  BY DEF FInv, Sent, Once, IsDuplicate, Latest
<1>2. turn' # "waiting" =>
          \A c \in Checks : OnPlan(branch'[c], rounds', evidence'[c], c)
  BY DEF FInv
<1>3. turn' = "completing" => IsComplete(collected')
  BY DEF FInv
<1>4. /\ turn' = "waiting" => rounds' # <<>>
      /\ turn' = "planning" => inbox' = <<>> /\ collected' = <<>>
  BY DEF FInv
<1> QED
  BY <1>1, <1>2, <1>3, <1>4 DEF FInv

\* Branches without results, when nothing is on its way.
LEMMA FreshAdvances ==
    ASSUME FInv, IInv', UNCHANGED rounds, inbox' = <<>>, collected' = <<>>,
           turn' \in {"planning", "branches"},
           \A c \in Checks :
               /\ branch'[c].step \in {"idle", "ready"}
               /\ Tried(branch'[c]) /\ OnPlan(branch'[c], rounds', evidence'[c], c)
    PROVE  FInv'
<1>1. \A c \in Checks : Latest(c)' = Latest(c)
  BY DEF Latest
<1>2. Len(<<>>) = 0 /\ 1 .. 0 = {}
  OBVIOUS
<1>3. /\ Sent(inbox)' /\ Once(inbox)' /\ Sent(collected)' /\ Once(collected)'
      /\ \A i \in 1 .. Len(inbox') : ~IsDuplicate(collected', inbox'[i])
  BY <1>2 DEF Sent, Once
<1> QED
  BY <1>1, <1>3 DEF FInv

LEMMA NoBranchFits ==
    ASSUME NEW past, NEW history, NEW c
    PROVE  Tried(NoBranch) /\ OnPlan(NoBranch, past, history, c)
BY DEF Tried, OnPlan, NoBranch, NoResult, TransientFailure, MaximumAttempts, Reading

LEMMA BeginTurnAdvances ==
    ASSUME FInv, IInv', BeginTurn
    PROVE  FInv'
<1>1. \A c \in Checks : branch'[c] = NoBranch /\ branch'[c].step = "idle"
  BY DEF BeginTurn, NoBranch
<1>2. \A c \in Checks : Tried(branch'[c]) /\ OnPlan(branch'[c], rounds', evidence'[c], c)
  BY <1>1, NoBranchFits
<1> QED
  BY <1>1, <1>2, FreshAdvances DEF BeginTurn

\* A planner finds the lists of its turn empty, as the turn began with them.
LEMMA PlanAdvances ==
    ASSUME FInv, IInv', Plan
    PROVE  FInv'
<1>1. PICK rerun \in SUBSET Checks :
          branch' = [c \in Checks |->
              [NoBranch EXCEPT
                  !.step = "ready",
                  !.work = WorkItem(
                      PlanningReason(Latest(c), c \in rerun, Len(evidence[c])),
                      Latest(c), Len(evidence[c]))]]
  BY DEF Plan
<1>2. inbox = <<>> /\ collected = <<>>
  BY DEF Plan, FInv
<1>3. ASSUME NEW c \in Checks
      PROVE  /\ branch'[c].step \in {"idle", "ready"}
             /\ Tried(branch'[c]) /\ OnPlan(branch'[c], rounds', evidence'[c], c)
  <2> DEFINE work == WorkItem(
                         PlanningReason(Latest(c), c \in rerun, Len(evidence[c])),
                         Latest(c), Len(evidence[c]))
             new == [NoBranch EXCEPT !.step = "ready", !.work = work]
  <2>1. branch'[c] = new
    BY <1>1
  <2>2. /\ new.step = "ready" /\ new.work = work /\ new.failures = <<>>
        /\ new.result = NoResult
    BY DEF NoBranch
  <2>3. Tried(new)
    <3> HIDE DEF new
    <3> QED
      BY <2>2 DEF Tried, NoResult, TransientFailure, MaximumAttempts, Reading
  <2>4. OnPlan(new, rounds, evidence[c], c)
    <3>1. (c \in rerun) \in BOOLEAN
      OBVIOUS
    <3> HIDE DEF new
    <3> QED
      BY <2>2, <3>1, LatestIsPrevious DEF OnPlan
  <2> HIDE DEF new
  <2> QED
    BY <2>1, <2>2, <2>3, <2>4 DEF Plan
<1> QED
  BY <1>2, <1>3, FreshAdvances DEF Plan

LEMMA ReceiveAdvances ==
    ASSUME FInv, IInv', Receive
    PROVE  FInv'
<1> DEFINE item == Head(inbox)
           n == Len(collected)
           m == Len(inbox)
<1>1. /\ inbox \in Seq(BranchResults) /\ collected \in Seq(BranchResults)
      /\ turn = "collecting" /\ inbox # <<>>
      /\ Sent(inbox) /\ Once(inbox) /\ Sent(collected) /\ Once(collected)
      /\ \A i \in 1 .. m : ~IsDuplicate(collected, inbox[i])
  BY DEF Receive, FInv, IInv, TypeOK
<1>2. /\ n \in Nat /\ m \in Nat \ {0} /\ 1 \in 1 .. m
      /\ item = inbox[1] /\ item \in BranchResults
  BY <1>1
<1>3. /\ collected' = Append(collected, item) /\ inbox' = Tail(inbox)
      /\ turn' = IF IsComplete(Append(collected, item)) THEN "completing" ELSE turn
      /\ UNCHANGED <<evidence, rounds, branch, slots, aborted>>
  BY <1>1, <1>2 DEF Receive
<1>4. /\ Len(collected') = n + 1 /\ collected'[n + 1] = item
      /\ \A i \in 1 .. n : collected'[i] = collected[i]
  BY <1>1, <1>2, <1>3
<1>5. /\ Len(inbox') = m - 1
      /\ \A i \in 1 .. m - 1 : inbox'[i] = inbox[i + 1] /\ i + 1 \in 1 .. m /\ i + 1 # 1
  BY <1>1, <1>2, <1>3
<1>6. \A i \in 1 .. n + 1 : i \in 1 .. n \/ i = n + 1
  BY <1>2
<1>7. /\ \A c \in Checks : Tried(branch'[c]) /\ Latest(c)' = Latest(c)
      /\ \A c \in Checks : OnPlan(branch'[c], rounds', evidence'[c], c)
      /\ turn' \in {"completing", "collecting"}
      /\ turn' = "completing" => IsComplete(collected')
  BY <1>1, <1>3 DEF FInv, Latest
<1> HIDE DEF item, n, m
<1>8. Sent(collected)'
  <2>1. /\ branch[item.check].step = "done"
        /\ branch[item.check].result = item.result
    BY <1>1, <1>2 DEF Sent, m
  <2>2. \A i \in 1 .. n :
            /\ branch[collected[i].check].step = "done"
            /\ branch[collected[i].check].result = collected[i].result
    BY <1>1 DEF Sent, n
  <2>3. ASSUME NEW i \in 1 .. n + 1
        PROVE  /\ branch'[collected'[i].check].step = "done"
               /\ branch'[collected'[i].check].result = collected'[i].result
    BY <1>3, <1>4, <1>6, <2>1, <2>2
  <2> QED
    BY <1>4, <2>3 DEF Sent
<1>9. Once(collected)'
  <2>1. \A i \in 1 .. n : collected[i].check # item.check
    BY <1>1, <1>2 DEF IsDuplicate, n
  <2>2. ASSUME NEW i \in 1 .. n + 1, NEW j \in 1 .. n + 1,
               collected'[i].check = collected'[j].check
        PROVE  i = j
    BY <1>1, <1>4, <1>6, <2>1, <2>2 DEF Once, n
  <2> QED
    BY <1>4, <2>2 DEF Once
<1>10. Sent(inbox)'
  <2>1. \A i \in 1 .. m :
            /\ branch[inbox[i].check].step = "done"
            /\ branch[inbox[i].check].result = inbox[i].result
    BY <1>1 DEF Sent, m
  <2> QED
    BY <1>3, <1>5, <2>1 DEF Sent
<1>11. Once(inbox)'
  <2>1. ASSUME NEW i \in 1 .. m - 1, NEW j \in 1 .. m - 1,
               inbox'[i].check = inbox'[j].check
        PROVE  i = j
    <3>1. i + 1 = j + 1
      BY <1>1, <1>5, <2>1 DEF Once, m
    <3> QED
      BY <1>2, <3>1
  <2> QED
    BY <1>5, <2>1 DEF Once
<1>12. \A i \in 1 .. Len(inbox') : ~IsDuplicate(collected', inbox'[i])
  <2>1. ASSUME NEW i \in 1 .. m - 1, NEW j \in 1 .. n + 1
        PROVE  collected'[j].check # inbox'[i].check
    <3>1. CASE j \in 1 .. n
      BY <1>1, <1>4, <1>5, <3>1 DEF IsDuplicate, n
    <3>2. CASE j = n + 1
      <4>1. inbox[1].check # inbox[i + 1].check
        BY <1>1, <1>2, <1>5 DEF Once, m
      <4> QED
        BY <1>2, <1>4, <1>5, <3>2, <4>1
    <3> QED
      BY <1>6, <3>1, <3>2
  <2> QED
    BY <1>4, <1>5, <2>1 DEF IsDuplicate
<1> QED
  BY <1>7, <1>8, <1>9, <1>10, <1>11, <1>12 DEF FInv

\* As many results as there are branches, none twice: one for each branch.
LEMMA EveryBranchSent ==
    ASSUME NEW list \in Seq(BranchResults), Once(list), IsComplete(list)
    PROVE  \A c \in Checks : \E i \in 1 .. Len(list) : list[i].check = c
<1> DEFINE n == Len(list)
           f == [i \in 1 .. n |-> list[i].check]
<1>1. n \in Nat /\ n = Cardinality(Checks) /\ IsFiniteSet(Checks)
  BY ConstantsAssumption DEF IsComplete
<1>2. f \in Injection(1 .. n, Checks)
  <2>1. \A i \in 1 .. n : list[i] \in BranchResults
    OBVIOUS
  <2>2. \A i \in 1 .. n : list[i].check \in Checks
    BY <2>1 DEF BranchResults
  <2> QED
    BY <2>2 DEF Once, Injection, IsInjective
<1>3. Cardinality(1 .. n) = n
  <2> HIDE DEF n
  <2> QED
    BY <1>1, FS_Interval
<1> HIDE DEF n, f
<1>4. f \in Surjection(1 .. n, Checks)
  BY <1>1, <1>2, <1>3, FS_Injection
<1> QED
  BY <1>4 DEF Surjection, f, n

\* The result that completes a round for a check is that of its branch.
LEMMA ResultOfBranch ==
    ASSUME FInv, turn = "completing", NEW c \in Checks
    PROVE  /\ branch[c].step = "done"
           /\ ResultOf(collected, c) = branch[c].result
<1>1. /\ collected \in Seq(BranchResults) /\ Once(collected) /\ Sent(collected)
      /\ IsComplete(collected)
  BY DEF FInv, IInv, TypeOK
<1>2. \E i \in 1 .. Len(collected) : collected[i].check = c
  BY <1>1, EveryBranchSent
<1> DEFINE i == CHOOSE i \in 1 .. Len(collected) : collected[i].check = c
<1>3. i \in 1 .. Len(collected) /\ collected[i].check = c
  BY <1>2
<1>4. ResultOf(collected, c) = collected[i].result
  BY DEF ResultOf
<1> HIDE DEF i
<1> QED
  BY <1>1, <1>3, <1>4 DEF Sent

\* A result RoundEvaluation allows that passed is about a record.
LEMMA PassedHasRecord ==
    ASSUME NEW history \in Seq(Verdicts), NEW rerun, NEW c, NEW result,
           Latest(c).outcome = Passed => Latest(c).version # 0,
           result \in Evaluation!MayResult(rounds, history, rerun, c),
           result.outcome = Passed
    PROVE  result.version # 0
<1> DEFINE previous == Evaluation!PreviousResult(rounds, c)
           reason == PlanningReason(previous, rerun, Len(history))
<1>1. previous = Latest(c)
  BY LatestIsPrevious
<1>2. reason = "UnchangedEvidence" => previous.outcome = Passed
  BY DEF PlanningReason
<1>3. CASE reason = "UnchangedEvidence"
  <2>1. result = Reuse(previous, Len(rounds) + 1)
    BY <1>3, SameOperators
  <2> HIDE DEF previous, reason
  <2> QED
    BY <1>1, <1>2, <1>3, <2>1 DEF Reuse
<1>4. CASE reason # "UnchangedEvidence"
  <2>1. \/ result = Execute(history, FALSE)
        \/ \E v \in 1 .. Len(history) :
               result = [outcome |-> TransientFailure, version |-> v, source |-> Executed]
    BY <1>4, SameOperators
  <2>2. CASE result = Execute(history, FALSE)
    <3>1. MissingEvidence # Passed
      BY DEF MissingEvidence, Passed
    <3>2. history # <<>>
      BY <2>2, <3>1 DEF Execute
    <3> QED
      BY <2>2, <3>2 DEF Execute
  <2>3. ASSUME NEW v \in 1 .. Len(history),
               result = [outcome |-> TransientFailure, version |-> v, source |-> Executed]
        PROVE  FALSE
    BY <2>3 DEF TransientFailure, Passed
  <2> QED
    BY <2>1, <2>2, <2>3
<1> QED
  BY <1>3, <1>4

LEMMA CompleteAdvances ==
    ASSUME FInv, IInv', Complete
    PROVE  FInv'
<1>1. /\ IInv /\ TypeOK /\ turn = "completing" /\ collected \in Seq(BranchResults)
      /\ Once(collected) /\ IsComplete(collected)
      /\ rounds \in Seq([Checks -> Results(Verdicts)])
  BY DEF Complete, FInv, IInv, TypeOK
<1>2. \A c \in Checks : \E i \in 1 .. Len(collected) : collected[i].check = c
  BY <1>1, EveryBranchSent
<1> DEFINE results == [c \in Checks |-> ResultOf(collected, c)]
<1>3. /\ rounds' = Append(rounds, results) /\ collected' = <<>> /\ turn' = "waiting"
      /\ UNCHANGED <<evidence, branch, slots, inbox, aborted>>
  BY <1>2 DEF Complete
<1>4. \A c \in Checks : results[c] = branch[c].result
  BY <1>1, ResultOfBranch
<1> HIDE DEF results
<1>5. rounds' # <<>> /\ rounds'[Len(rounds')] = results
  BY <1>1, <1>3
<1>6. ASSUME NEW c \in Checks, Latest(c)'.outcome = Passed
      PROVE  Latest(c)'.version # 0
  <2>1. Latest(c)' = branch[c].result
    BY <1>4, <1>5 DEF Latest
  <2>2. PICK rerun \in BOOLEAN :
            branch[c].result \in Evaluation!MayResult(rounds, evidence[c], rerun, c)
    <3>1. branch[c].step = "done" /\ OnPlan(branch[c], rounds, evidence[c], c)
      BY <1>1, ResultOfBranch DEF FInv
    <3> QED
      BY <3>1 DEF OnPlan
  <2>3. /\ evidence[c] \in Seq(Verdicts)
        /\ Latest(c).outcome = Passed => Latest(c).version # 0
    BY <1>1, BranchType DEF FInv
  <2> QED
    BY <1>6, <2>1, <2>2, <2>3, PassedHasRecord
<1>7. Len(<<>>) = 0 /\ 1 .. 0 = {}
  OBVIOUS
<1>8. Sent(collected)' /\ Once(collected)'
  BY <1>3, <1>7 DEF Sent, Once
<1>9. Sent(inbox)' /\ Once(inbox)' /\ \A c \in Checks : Tried(branch'[c])
  BY <1>3 DEF FInv, Sent, Once
<1>10. \A i \in 1 .. Len(inbox') : ~IsDuplicate(collected', inbox'[i])
  BY <1>3, <1>7 DEF IsDuplicate
<1> QED
  BY <1>3, <1>5, <1>6, <1>8, <1>9, <1>10 DEF FInv

LEMMA InitFInv ==
    ASSUME Init
    PROVE  FInv
<1>1. IInv /\ rounds = <<>> /\ inbox = <<>> /\ collected = <<>> /\ turn = "idle"
  BY InitIInv DEF Init
<1>2. \A c \in Checks : branch[c] = NoBranch
  BY DEF Init
<1>3. \A c \in Checks :
          /\ Tried(branch[c]) /\ OnPlan(branch[c], rounds, evidence[c], c)
          /\ Latest(c).outcome # Passed
  BY <1>1, <1>2, NoBranchFits DEF Latest, NoResult, Passed
<1>4. Len(<<>>) = 0 /\ 1 .. 0 = {}
  OBVIOUS
<1>5. /\ Sent(inbox) /\ Once(inbox) /\ Sent(collected) /\ Once(collected)
      /\ \A i \in 1 .. Len(inbox) : ~IsDuplicate(collected, inbox[i])
  BY <1>1, <1>4 DEF Sent, Once
<1> QED
  BY <1>1, <1>3, <1>5 DEF FInv

LEMMA NextAdvances ==
    ASSUME FInv, [Next]_vars
    PROVE  FInv'
<1>1. IInv /\ IInv'
  BY NextKeeps DEF FInv
<1>2. CASE Submit \/ Remediate
  BY <1>1, <1>2, BeginTurnAdvances DEF Submit, Remediate
<1>3. ASSUME NEW c \in Checks, RunBranch(c) \/ EnterEvidenceGate(c)
      PROVE  FInv'
  BY <1>1, <1>3, StartBranchAdvances, EnterEvidenceGateAdvances, FindCurrentAdvances,
     LoadRecordAdvances, FailTransientlyAdvances, StoppedAdvances DEF RunBranch
<1>4. CASE Plan \/ Receive \/ Complete
  BY <1>1, <1>4, PlanAdvances, ReceiveAdvances, CompleteAdvances
<1>5. CASE FanIn \/ LeaveEventLoop \/ DisposeRun \/ MarkFailed
  BY <1>1, <1>5, TurnAdvances DEF FanIn, LeaveEventLoop, DisposeRun, MarkFailed, Proceed
<1>6. CASE Abort \/ UNCHANGED vars
  BY <1>1, <1>6, TurnAdvances DEF Abort, vars
<1> QED
  BY <1>2, <1>3, <1>4, <1>5, <1>6 DEF Next, RunTurn

LEMMA FInvHolds == Spec => []FInv
BY InitFInv, NextAdvances, PTL DEF Spec

(* A provider is given up after exactly as many failures as the code       *)
(* allows, all about the record the result names, however attempts and     *)
(* branches interleave.                                                    *)
THEOREM RetriesAreExactCorrect == Spec => []RetriesAreExact
<1>1. FInv => RetriesAreExact
  BY DEF FInv, Tried, RetriesAreExact, SameRecord
<1> QED
  BY <1>1, FInvHolds, PTL

(* No check of the code refuses a result, an order of results or a round   *)
(* that a turn comes to by itself, for any number of branches.             *)
THEOREM ResultsAreAcceptedCorrect == Spec => []ResultsAreAccepted
<1>1. ASSUME FInv PROVE ResultsAreAccepted
  <2>1. ASSUME NEW c \in Checks, branch[c].step = "ready",
               branch[c].work.reason = "UnchangedEvidence"
        PROVE  ReuseVerified(branch[c].work.previous, branch[c].work.version)
    <3>1. OnPlan(branch[c], rounds, evidence[c], c)
          /\ (Latest(c).outcome = Passed => Latest(c).version # 0)
      BY <1>1, <2>1, OpenBranch DEF FInv
    <3>2. PICK rerun \in BOOLEAN :
              branch[c].work = WorkItem(PlanningReason(Latest(c), rerun, Len(evidence[c])),
                                        Latest(c), Len(evidence[c]))
      BY <2>1, <3>1, LatestIsPrevious DEF OnPlan
    <3>3. /\ branch[c].work.previous = Latest(c)
          /\ branch[c].work.version = Len(evidence[c])
          /\ PlanningReason(Latest(c), rerun, Len(evidence[c])) = "UnchangedEvidence"
      BY <2>1, <3>2 DEF WorkItem
    <3>4. Latest(c).outcome = Passed /\ Latest(c).version = Len(evidence[c])
      BY <3>3 DEF PlanningReason
    <3> QED
      BY <3>1, <3>3, <3>4 DEF ReuseVerified
  <2>2. ASSUME turn = "collecting", inbox # <<>>
        PROVE  ~IsDuplicate(collected, Head(inbox))
    <3>1. inbox \in Seq(BranchResults)
      BY <1>1 DEF FInv, IInv, TypeOK
    <3>2. 1 \in 1 .. Len(inbox) /\ Head(inbox) = inbox[1]
      BY <2>2, <3>1
    <3> QED
      BY <1>1, <3>2 DEF FInv
  <2>3. ASSUME turn = "completing"
        PROVE  \A c \in Checks : \E i \in 1 .. Len(collected) : collected[i].check = c
    BY <1>1, <2>3, EveryBranchSent DEF FInv, IInv, TypeOK
  <2> QED
    BY <2>1, <2>2, <2>3 DEF ResultsAreAccepted
<1> QED
  BY <1>1, FInvHolds, PTL
-----------------------------------------------------------------------------
(* The refinement of RoundEvaluation.                                      *)

\* A history with what a form posts for its branch.
LEMMA ExtensionOf ==
    ASSUME NEW history \in Seq(Verdicts), NEW fill \in {<<>>} \cup {<<v>> : v \in Verdicts}
    PROVE  history \o fill \in Evaluation!Extensions(history)
<1>1. CASE fill = <<>>
  BY <1>1, ConcatEmptySeq DEF Evaluation!Extensions
<1>2. CASE fill # <<>>
  <2>1. PICK v \in Verdicts : fill = <<v>>
    BY <1>2
  <2>2. history \o fill = Append(history, v)
    BY <2>1, AppendIsConcat
  <2> QED
    BY <2>2 DEF Evaluation!Extensions
<1> QED
  BY <1>1, <1>2

LEMMA SubmitRefines ==
    ASSUME IInv, Submit
    PROVE  Evaluation!Next
<1>1. PICK first \in [Checks -> {<<>>} \cup {<<v>> : v \in Verdicts}] : evidence' = first
  BY DEF Submit
<1>2. ASSUME NEW c \in Checks
      PROVE  evidence'[c] \in Evaluation!Extensions(<<>>)
  <2>1. first[c] \in {<<>>} \cup {<<v>> : v \in Verdicts} /\ first[c] \in Seq(Verdicts)
    BY FillType
  <2>2. <<>> \o first[c] = first[c]
    BY <2>1, ConcatEmptySeq
  <2> QED
    BY <1>1, <2>1, <2>2, EmptySequence, ExtensionOf
<1>3. RoundStatus = "none" /\ RoundStatus' = "due"
  BY DEF RoundStatus, Submit, BeginTurn
<1>4. DOMAIN evidence' = Checks /\ UNCHANGED rounds
  BY <1>1 DEF Submit, BeginTurn
<1> QED
  BY <1>2, <1>3, <1>4 DEF Evaluation!Submit, Evaluation!Next

LEMMA RemediateRefines ==
    ASSUME FInv, Remediate
    PROVE  Evaluation!Next
<1>1. PICK fill \in [Checks -> {<<>>} \cup {<<v>> : v \in Verdicts}] :
          evidence' = [c \in Checks |-> evidence[c] \o fill[c]]
  BY DEF Remediate
<1>2. ASSUME NEW c \in Checks
      PROVE  evidence'[c] \in Evaluation!Extensions(evidence[c])
  <2>1. evidence[c] \in Seq(Verdicts)
    BY DEF FInv, IInv, TypeOK
  <2> QED
    BY <1>1, <2>1, ExtensionOf
<1>3. RoundStatus = "done" /\ RoundStatus' = "due"
  BY DEF RoundStatus, Remediate, BeginTurn
<1>4. \E c \in Checks : rounds[Len(rounds)][c].outcome # Evaluation!Passed
  <2>1. rounds # <<>>
    BY DEF FInv, Remediate
  <2> QED
    BY <2>1 DEF Remediate, Latest, Evaluation!Passed, Passed
<1>5. DOMAIN evidence' = Checks /\ UNCHANGED rounds
  BY <1>1 DEF Remediate, BeginTurn
<1> QED
  BY <1>2, <1>3, <1>4, <1>5 DEF Evaluation!Remediate, Evaluation!Next

\* The branches chose their reasons one by one; together they are a choice of
\* checks to rerun.
LEMMA CompleteRefines ==
    ASSUME FInv, Complete
    PROVE  Evaluation!Next
<1> DEFINE results == [c \in Checks |-> ResultOf(collected, c)]
           rerun == {c \in Checks :
                        results[c] \in Evaluation!MayResult(rounds, evidence[c], TRUE, c)}
           May(c) == Evaluation!MayResult(rounds, evidence[c], c \in rerun, c)
<1>1. turn = "completing" /\ collected \in Seq(BranchResults)
  BY DEF Complete, FInv, IInv, TypeOK
<1>2. /\ rounds' = Append(rounds, results) /\ turn' = "waiting" /\ UNCHANGED evidence
  <2>1. \A c \in Checks : \E i \in 1 .. Len(collected) : collected[i].check = c
    BY <1>1, EveryBranchSent DEF FInv
  <2> QED
    BY <2>1 DEF Complete
<1>3. ASSUME NEW c \in Checks
      PROVE  results[c] \in May(c)
  <2>1. branch[c].step = "done" /\ results[c] = branch[c].result
    BY <1>1, ResultOfBranch
  <2>2. \E again \in BOOLEAN :
            results[c] \in Evaluation!MayResult(rounds, evidence[c], again, c)
    <3>1. OnPlan(branch[c], rounds, evidence[c], c)
      BY <1>1 DEF FInv
    <3> HIDE DEF results
    <3> QED
      BY <2>1, <3>1 DEF OnPlan
  <2>3. CASE c \in rerun
    <3>1. results[c] \in Evaluation!MayResult(rounds, evidence[c], TRUE, c)
      BY <2>3
    <3>2. (c \in rerun) = TRUE
      BY <2>3
    <3> HIDE DEF rerun, results
    <3> QED
      BY <3>1, <3>2
  <2>4. CASE c \notin rerun
    <3>1. results[c] \notin Evaluation!MayResult(rounds, evidence[c], TRUE, c)
      BY <2>4
    <3> HIDE DEF rerun, results
    <3>2. (c \in rerun) = FALSE
      BY <2>4
    <3>3. results[c] \in Evaluation!MayResult(rounds, evidence[c], FALSE, c)
      BY <2>2, <3>1
    <3> QED
      BY <3>2, <3>3
  <2> QED
    BY <2>3, <2>4
<1>4. results \in [Checks -> UNION {May(c) : c \in Checks}]
  <2>1. results = [c \in Checks |-> results[c]]
    OBVIOUS
  <2> HIDE DEF May, results
  <2> QED
    BY <1>3, <2>1
<1>5. RoundStatus = "due" /\ RoundStatus' = "done"
  BY <1>1, <1>2 DEF RoundStatus
<1>6. rerun \in SUBSET Checks
  OBVIOUS
<1> HIDE DEF results, rerun
<1>7. \E set \in [Checks -> UNION {May(c) : c \in Checks}] :
          /\ \A c \in Checks : set[c] \in May(c)
          /\ rounds' = Append(rounds, set)
  BY <1>2, <1>3, <1>4
<1>8. Evaluation!EvaluateRound
  BY <1>2, <1>5, <1>6, <1>7 DEF Evaluation!EvaluateRound
<1> QED
  BY <1>8 DEF Evaluation!Next

LEMMA StepRefines ==
    ASSUME FInv, [Next]_vars
    PROVE  [Evaluation!Next]_(Evaluation!vars)
<1>1. CASE Submit
  BY <1>1, SubmitRefines DEF FInv
<1>2. CASE Remediate
  BY <1>2, RemediateRefines
<1>3. CASE Complete
  BY <1>3, CompleteRefines
<1>4. CASE MarkFailed
  <2>1. RoundStatus = "due" /\ UNCHANGED <<evidence, rounds>>
    BY <1>4 DEF MarkFailed, Proceed, RoundStatus
  <2>2. RoundStatus' \in {"due", "failed"}
    BY <1>4 DEF MarkFailed, Proceed, RoundStatus
  <2> QED
    BY <2>1, <2>2 DEF Evaluation!vars, Evaluation!Fail, Evaluation!Next
<1>5. ASSUME NEW c \in Checks, RunBranch(c) \/ EnterEvidenceGate(c)
      PROVE  UNCHANGED <<evidence, rounds, turn>>
  BY <1>5
  DEF RunBranch, StartBranch, EnterEvidenceGate, FindCurrent, LoadRecord,
      FailTransiently, FailTechnically, StopBranch, Goto, Finish
<1>6. CASE Plan \/ FanIn \/ Receive \/ LeaveEventLoop \/ DisposeRun
  <2>1. UNCHANGED <<evidence, rounds>>
    BY <1>6 DEF Plan, FanIn, Receive, LeaveEventLoop, DisposeRun, Proceed
  <2>2. turn \notin {"idle", "waiting", "failed"} /\ turn' \notin {"idle", "waiting", "failed"}
    BY <1>6 DEF Plan, FanIn, Receive, LeaveEventLoop, DisposeRun, Proceed
  <2> QED
    BY <2>1, <2>2 DEF RoundStatus, Evaluation!vars
<1>7. CASE Abort \/ UNCHANGED vars
  BY <1>7 DEF Abort, vars, RoundStatus, Evaluation!vars
<1>8. ASSUME UNCHANGED <<evidence, rounds, turn>>
      PROVE  UNCHANGED Evaluation!vars
  BY <1>8 DEF RoundStatus, Evaluation!vars
<1> QED
  BY <1>1, <1>2, <1>3, <1>4, <1>5, <1>6, <1>7, <1>8 DEF Next, RunTurn

(* Branches side by side, a barrier and an aggregator that counts amount   *)
(* to one evaluation of the current evidence, for any number of branches   *)
(* and any faults.                                                         *)
THEOREM ImplementsEvaluationCorrect == Spec => ImplementsEvaluation
<1>1. Init => Evaluation!Init
  BY DEF Init, Evaluation!Init, RoundStatus
<1> QED
  BY <1>1, StepRefines, FInvHolds, PTL DEF Spec, ImplementsEvaluation, Evaluation!Spec
=============================================================================
