-------------------- MODULE ReleaseWorkflowSafety_proofs --------------------
(***************************************************************************)
(* IInv is kept by every step of ReleaseWorkflow, for any releases,        *)
(* handlers, checks, verdicts, number of rounds and faults; the safety     *)
(* properties that follow from it.                                         *)
(*                                                                         *)
(* The argument: only the handler that holds the gate writes to a release  *)
(* that exists, so what a turn has read or written still holds at its next *)
(* step; and each of its commits takes rows that agree with each other to  *)
(* rows that agree with each other.                                        *)
(***************************************************************************)
EXTENDS ReleaseWorkflow_proofs

(* Each commit keeps the rows of its release in agreement.  The length of  *)
(* the rounds is a parameter so that no step has to compute it twice.      *)
LEMMA InsertedAgrees ==
    ASSUME NEW row \in Rows, NEW evidence, NEW timeline, NEW n \in Nat,
           row.phase = "None", RequestsAgree(row, n)
    PROVE  RequestsAgree([row EXCEPT !.phase = "Evaluating",
                                     !.evidence = evidence,
                                     !.timeline = timeline], n)
BY DEF RequestsAgree, Unanswered, Approvals, Rows, Terminal

LEMMA AnsweredAgrees ==
    ASSUME TypeOK, NEW h \in Handlers, NEW n \in Nat,
           Row(h).phase = "WaitingForRemediation",
           Row(h).active = Wait("Remediation", job[h].round),
           RequestsAgree(Row(h), n)
    PROVE  /\ RequestsAgree(Answered(h), n)
           /\ job[h].round = n
           /\ Answered(h).phase = "Evaluating"
           /\ Answered(h).rounds = Row(h).rounds
           /\ Answered(h).requests = Row(h).requests
<1>1. Row(h) \in Rows /\ job[h] \in Jobs
  BY RowType
<1> DEFINE row == Answered(h)
<1>2. /\ row.phase = "Evaluating" /\ row.active = NoWait
      /\ row.requests = Row(h).requests /\ row.rounds = Row(h).rounds
      /\ row.submissions = Row(h).submissions \cup {job[h].round}
  BY <1>1 DEF Answered, Rows
<1>3. /\ Row(h).active = Wait("Remediation", n)
      /\ Unanswered(Row(h)) = {Row(h).active} /\ Approvals(Row(h)) = {}
      /\ Row(h).submissions \subseteq 1 .. n
  BY DEF RequestsAgree
<1>4. job[h].round = n
  BY <1>3 DEF Wait
<1>5. n \in 1 .. n
  BY <1>3 DEF RequestsAgree, Unanswered, Wait
<1>6. Unanswered(row) = {}
  BY <1>2, <1>3, <1>4 DEF Unanswered, Wait
<1>7. Approvals(row) = {}
  BY <1>2, <1>3 DEF Approvals
<1> QED
  BY <1>2, <1>3, <1>4, <1>5, <1>6, <1>7 DEF RequestsAgree, Terminal

LEMMA EvaluatedAgrees ==
    ASSUME TypeOK, NEW h \in Handlers,
           Row(h).phase = "Evaluating",
           RequestsAgree(Row(h), Len(Row(h).rounds))
    PROVE  /\ Len(Evaluated(h).rounds) = Len(Row(h).rounds) + 1
           /\ RequestsAgree(Evaluated(h), Len(Row(h).rounds) + 1)
           /\ Evaluated(h).phase = "Evaluating"
           /\ Evaluated(h).requests = Row(h).requests
           /\ Evaluated(h).rounds[Len(Row(h).rounds) + 1] = job[h].results
           /\ Len(Row(h).rounds) + 1 \notin Evaluated(h).submissions
<1>1. Row(h) \in Rows /\ job[h] \in Jobs
  BY RowType
<1> DEFINE row == Evaluated(h)
           n == Len(Row(h).rounds)
<1>2. /\ row.phase = "Evaluating" /\ row.active = Row(h).active
      /\ row.requests = Row(h).requests
      /\ row.rounds = Append(Row(h).rounds, job[h].results)
      /\ row.submissions = Row(h).submissions
  BY <1>1 DEF Evaluated, Rows
<1>3. Row(h).rounds \in Seq([Checks -> Results(Verdicts)]) /\ n \in Nat
  BY <1>1 DEF Rows
<1>4. /\ Len(row.rounds) = n + 1 /\ row.rounds[n + 1] = job[h].results
  BY <1>1, <1>2, <1>3 DEF Jobs
<1>5. Unanswered(row) = Unanswered(Row(h)) /\ Approvals(row) = Approvals(Row(h))
  BY <1>2 DEF Unanswered, Approvals
<1> HIDE DEF n
<1>6. RequestsAgree(row, n + 1)
  BY <1>2, <1>3, <1>5 DEF RequestsAgree, Terminal, n
<1>7. n + 1 \notin row.submissions
  BY <1>2, <1>3 DEF RequestsAgree, n
<1> QED
  BY <1>2, <1>4, <1>6, <1>7 DEF n

LEMMA AskedAgrees ==
    ASSUME TypeOK, NEW h \in Handlers, NEW n \in Nat,
           NEW kind, NEW phase, NEW entry,
           \/ kind = "Remediation" /\ phase = "WaitingForRemediation"
           \/ kind = "Approval" /\ phase = "WaitingForApproval",
           Row(h).phase = "Evaluating",
           job[h].round + 1 = n,
           n \notin Row(h).submissions,
           RequestsAgree(Row(h), n)
    PROVE  /\ RequestsAgree(Asked(h, kind, phase, entry), n)
           /\ Asked(h, kind, phase, entry).phase = phase
           /\ Asked(h, kind, phase, entry).rounds = Row(h).rounds
           /\ Row(h).requests \subseteq Asked(h, kind, phase, entry).requests
<1>1. Row(h) \in Rows /\ job[h] \in Jobs
  BY RowType
<1> DEFINE row == Asked(h, kind, phase, entry)
<1>2. /\ row.phase = phase /\ row.active = Wait(kind, n)
      /\ row.requests = Row(h).requests \cup {Wait(kind, n)}
      /\ row.rounds = Row(h).rounds
      /\ row.submissions = Row(h).submissions
  BY <1>1 DEF Asked, Rows, NextRound
<1>3. /\ Unanswered(Row(h)) = {} /\ Approvals(Row(h)) = {}
      /\ Row(h).submissions \subseteq 1 .. n
      /\ \A w \in Row(h).requests :
             w.kind \in {"Remediation", "Approval"} /\ w.round \in 1 .. n
  BY DEF RequestsAgree
<1>4. n \in 1 .. n
  BY <1>1 DEF Jobs
<1>5. \A w \in row.requests :
          w.kind \in {"Remediation", "Approval"} /\ w.round \in 1 .. n
  BY <1>2, <1>3, <1>4 DEF Wait
<1>6. CASE kind = "Remediation" /\ phase = "WaitingForRemediation"
  <2>1. Unanswered(row) = {Wait(kind, n)}
    BY <1>2, <1>3, <1>6 DEF Unanswered, Wait
  <2>2. Approvals(row) = {}
    BY <1>2, <1>3, <1>6 DEF Approvals, Wait
  <2> QED
    BY <1>2, <1>3, <1>5, <1>6, <2>1, <2>2 DEF RequestsAgree, Terminal
<1>7. CASE kind = "Approval" /\ phase = "WaitingForApproval"
  <2>1. Unanswered(row) = {}
    BY <1>2, <1>3, <1>7 DEF Unanswered, Wait
  <2>2. Approvals(row) = {Wait(kind, n)}
    BY <1>2, <1>3, <1>7 DEF Approvals, Wait
  <2> QED
    BY <1>2, <1>3, <1>5, <1>7, <2>1, <2>2 DEF RequestsAgree, Terminal
<1> QED
  BY <1>2, <1>6, <1>7

LEMMA DecidedAgrees ==
    ASSUME TypeOK, NEW h \in Handlers, NEW n \in Nat,
           Row(h).phase = "WaitingForApproval",
           RequestsAgree(Row(h), n)
    PROVE  /\ RequestsAgree(Decided(h), n)
           /\ Decided(h).phase \in Terminal
           /\ Decided(h).rounds = Row(h).rounds
           /\ Decided(h).requests = Row(h).requests
           /\ SameDecision(Decided(h).response, job[h].response)
<1>1. Row(h) \in Rows /\ job[h] \in Jobs
  BY RowType
<1> DEFINE row == Decided(h)
<1>2. /\ row.phase \in Terminal /\ row.active = NoWait
      /\ row.requests = Row(h).requests
      /\ row.rounds = Row(h).rounds
      /\ row.submissions = Row(h).submissions
      /\ row.response = [job[h].response EXCEPT !.round = Row(h).active.round]
  BY <1>1 DEF Decided, Rows, Terminal
<1>3. Unanswered(row) = Unanswered(Row(h)) /\ Approvals(row) = Approvals(Row(h))
  BY <1>2 DEF Unanswered, Approvals
<1>4. Approvals(Row(h)) = {Wait("Approval", n)}
  BY DEF RequestsAgree
<1>5. RequestsAgree(row, n)
  BY <1>2, <1>3, <1>4 DEF RequestsAgree, Terminal
<1>6. SameDecision(row.response, job[h].response)
  BY <1>1, <1>2 DEF SameDecision, Jobs, Responses
<1> QED
  BY <1>2, <1>5, <1>6

LEMMA FailedAgrees ==
    ASSUME TypeOK, NEW h \in Handlers, NEW n \in Nat,
           RequestsAgree(Row(h), n)
    PROVE  /\ FailedRow(h) = [Row(h) EXCEPT !.phase = "Failed",
                                            !.timeline = Append(@, "WorkflowFailed")]
           /\ RequestsAgree(FailedRow(h), n)
           /\ FailedRow(h).phase = "Failed"
           /\ FailedRow(h).rounds = Row(h).rounds
           /\ FailedRow(h).requests = Row(h).requests
<1>1. Row(h) \in Rows
  BY RowType
<1>2. Loaded(h) = Row(h)
  BY DEF Loaded, ClearTracker
<1> QED
  BY <1>1, <1>2 DEF FailedRow, RequestsAgree, Rows, Terminal

LEMMA CorrelatedAgrees ==
    ASSUME NEW row \in Rows, NEW wait, NEW n \in Nat, RequestsAgree(row, n)
    PROVE  RequestsAgree([row EXCEPT !.correlation = wait], n)
BY DEF RequestsAgree, Unanswered, Approvals, Rows, Terminal
-----------------------------------------------------------------------------
(* How a step leaves the other handlers alone.                             *)

(* Handler g alone moves: the gate stays in order and no other release's   *)
(* workflow is started.                                                    *)
OnlyMoves(g) ==
    /\ \A h \in Handlers \ {g} :
           /\ pc'[h] = pc[h] /\ job'[h] = job[h]
           /\ (gate' = h) <=> (gate = h)
    /\ (pc'[g] \in TurnSteps) <=> (gate' = g)
    /\ job'[g].kind = "submit" /\ pc'[g] # "inserting" =>
           /\ job[g].kind = "submit" /\ job'[g].release = job[g].release
           /\ pc[g] # "inserting" \/ Row(g).phase = "None"

LEMMA GateKept ==
    ASSUME TurnsExclude, NEW g \in Handlers, OnlyMoves(g)
    PROVE  TurnsExclude'
BY DEF TurnsExclude, OnlyMoves

LEMMA OneStartsKept ==
    ASSUME IInv, NEW g \in Handlers, OnlyMoves(g)
    PROVE  OneStarts'
<1> SUFFICES ASSUME NEW f \in Handlers, NEW h \in Handlers, f # h,
                    job'[f].kind = "submit", job'[h].kind = "submit",
                    pc'[f] # "inserting", pc'[h] # "inserting"
             PROVE  job'[f].release # job'[h].release
  BY DEF OneStarts
<1>1. ASSUME NEW h1 \in Handlers \ {g},
             job'[h1].kind = "submit", pc'[h1] # "inserting",
             job'[g].kind = "submit", pc'[g] # "inserting"
      PROVE  job'[h1].release # job'[g].release
  <2>1. /\ job[h1].kind = "submit" /\ pc[h1] # "inserting"
        /\ job'[h1].release = job[h1].release
    BY <1>1 DEF OnlyMoves
  <2>2. /\ job[g].kind = "submit" /\ job'[g].release = job[g].release
        /\ pc[g] # "inserting" \/ Row(g).phase = "None"
    BY <1>1 DEF OnlyMoves
  <2>3. CASE pc[g] # "inserting"
    BY <1>1, <2>1, <2>2, <2>3 DEF IInv, OneStarts
  <2>4. CASE Row(g).phase = "None"
    <3>1. Row(h1).phase # "None"
      BY <2>1 DEF IInv, JobFits
    <3> QED
      BY <2>1, <2>2, <2>4, <3>1 DEF Row
  <2> QED
    BY <2>2, <2>3, <2>4
<1>2. CASE f # g /\ h # g
  BY <1>2 DEF IInv, OneStarts, OnlyMoves
<1>3. CASE f = g
  BY <1>1, <1>3
<1>4. CASE h = g
  BY <1>1, <1>4
<1> QED
  BY <1>2, <1>3, <1>4

(* A step that writes nothing to the database. *)
LEMMA QuietStep ==
    ASSUME IInv, TypeOK', NEW g \in Handlers, OnlyMoves(g), db' = db,
           StateLeft(pc'[g], job'[g], db[job'[g].release],
                     Len(db[job'[g].release].rounds)),
           JobFits(pc'[g], job'[g], db[job'[g].release])
    PROVE  IInv'
<1>1. TurnsExclude'
  BY GateKept DEF IInv
<1>2. OneStarts'
  BY OneStartsKept
<1>3. OneOpenQuestion'
  BY DEF IInv, OneOpenQuestion
<1>4. ASSUME NEW h \in Handlers
      PROVE  /\ StateLeft(pc[h], job[h], Row(h), Len(Row(h).rounds))'
             /\ JobFits(pc[h], job[h], Row(h))'
  <2>1. CASE h = g
    BY <2>1 DEF Row
  <2>2. CASE h # g
    <3>1. pc'[h] = pc[h] /\ job'[h] = job[h] /\ Row(h)' = Row(h)
      BY <2>2 DEF OnlyMoves, Row
    <3>2. /\ StateLeft(pc[h], job[h], Row(h), Len(Row(h).rounds))
          /\ JobFits(pc[h], job[h], Row(h))
      BY DEF IInv, TurnFindsWhatItLeft
    <3> QED
      BY <3>1, <3>2
  <2> QED
    BY <2>1, <2>2
<1> QED
  BY <1>1, <1>2, <1>3, <1>4 DEF IInv, TurnFindsWhatItLeft

(* A commit: by a turn, or the insert of a release that is not there yet.  *)
LEMMA WriteStep ==
    ASSUME IInv, TypeOK', NEW g \in Handlers, OnlyMoves(g),
           pc[g] \in TurnSteps \/ Row(g).phase = "None",
           pc[g] # "idle",
           job'[g] = job[g] \/ job'[g] = NoJob,
           NEW row \in Rows, db' = [db EXCEPT ![job[g].release] = row],
           RequestsAgree(row, Len(row.rounds)),
           row.phase # "None",
           Row(g).requests \subseteq row.requests,
           job'[g] = job[g] =>
               /\ StateLeft(pc'[g], job[g], row, Len(row.rounds))
               /\ JobFits(pc'[g], job[g], row),
           job'[g] = NoJob => pc'[g] = "idle"
    PROVE  IInv'
<1>0. job[g].release \in Releases
  BY RowType DEF IInv
<1>1. TurnsExclude'
  BY GateKept DEF IInv
<1>2. OneStarts'
  BY OneStartsKept
<1>3. OneOpenQuestion'
  <2> SUFFICES ASSUME NEW r \in Releases
               PROVE  RequestsAgree(db'[r], Len(db'[r].rounds))
    BY DEF OneOpenQuestion
  <2>1. CASE r = job[g].release
    BY <1>0, <2>1 DEF IInv, TypeOK
  <2>2. CASE r # job[g].release
    <3>1. db'[r] = db[r]
      BY <1>0, <2>2 DEF IInv, TypeOK
    <3> QED
      BY <3>1 DEF IInv, OneOpenQuestion
  <2> QED
    BY <2>1, <2>2
<1>4. ASSUME NEW h \in Handlers
      PROVE  /\ StateLeft(pc[h], job[h], Row(h), Len(Row(h).rounds))'
             /\ JobFits(pc[h], job[h], Row(h))'
  <2>1. CASE h = g /\ job'[g] = job[g]
    <3>1. Row(h)' = row
      BY <1>0, <2>1 DEF Row, IInv, TypeOK
    <3> QED
      BY <2>1, <3>1
  <2>2. CASE h = g /\ job'[g] = NoJob
    BY <2>2 DEF StateLeft, JobFits, NoJob
  <2>3. CASE h # g
    <3>1. pc'[h] = pc[h] /\ job'[h] = job[h]
      BY <2>3 DEF OnlyMoves
    <3>2. /\ StateLeft(pc[h], job[h], Row(h), Len(Row(h).rounds))
          /\ JobFits(pc[h], job[h], Row(h))
      BY DEF IInv, TurnFindsWhatItLeft
    <3>3. CASE job[h].release # job[g].release
      <4>1. Row(h)' = Row(h)
        BY <1>0, <3>1, <3>3, RowType DEF Row, IInv, TypeOK
      <4> QED
        BY <3>1, <3>2, <4>1
    <3>4. CASE job[h].release = job[g].release
      <4>1. Row(h)' = row /\ Row(h) = Row(g)
        BY <1>0, <3>1, <3>4 DEF Row, IInv, TypeOK
      <4>2. pc[h] \notin {"answering", "planning", "saving", "asking", "suspending",
                          "correlating", "deciding", "finishing"}
        <5>1. CASE pc[g] \in TurnSteps
          BY <2>3, <5>1 DEF IInv, TurnsExclude, TurnSteps
        <5>2. CASE Row(g).phase = "None"
          BY <3>2, <4>1, <5>2 DEF StateLeft, Waiting, Terminal
        <5> QED
          BY <5>1, <5>2
      <4>3. StateLeft(pc[h], job[h], row, Len(row.rounds))
        BY <4>2 DEF StateLeft
      <4>4. ~(job[h].kind = "submit" /\ pc[h] = "queued")
        <5> SUFFICES ASSUME job[h].kind = "submit", pc[h] = "queued"
                     PROVE  FALSE
          OBVIOUS
        <5>1. Row(g).phase = "Evaluating" /\ Row(g).requests = {}
          BY <3>2, <4>1 DEF JobFits
        <5>2. pc[g] \in TurnSteps
          BY <5>1
        <5>3. JobFits(pc[g], job[g], Row(g)) /\ job[g] \in Jobs
          BY RowType DEF IInv
        <5>4. job[g].kind = "submit"
          BY <5>1, <5>3 DEF JobFits, Jobs
        <5>5. pc[g] # "inserting"
          BY <5>2 DEF TurnSteps
        <5> QED
          BY <2>3, <3>4, <5>4, <5>5 DEF IInv, OneStarts
      <4>5. JobFits(pc[h], job[h], row)
        BY <3>2, <4>1, <4>4 DEF JobFits
      <4> QED
        BY <3>1, <4>1, <4>3, <4>5
    <3> QED
      BY <3>3, <3>4
  <2> QED
    BY <2>1, <2>2, <2>3
<1> QED
  BY <1>1, <1>2, <1>3, <1>4 DEF IInv, TurnFindsWhatItLeft
-----------------------------------------------------------------------------
(* The forms of a step.                                                    *)

LEMMA LeaveMoves ==
    ASSUME TypeOK, NEW g \in Handlers, NEW answer, Leave(g, answer)
    PROVE  OnlyMoves(g) /\ job'[g] = NoJob /\ pc'[g] = "idle"
<1>1. /\ pc' = [pc EXCEPT ![g] = "idle"] /\ job' = [job EXCEPT ![g] = NoJob]
      /\ gate' = IF gate = g THEN Nobody ELSE gate
  BY DEF Leave, Goto
<1>2. NoJob.kind # "submit"
  BY DEF NoJob
<1>3. "idle" \notin TurnSteps
  BY DEF TurnSteps
<1> QED
  BY <1>1, <1>2, <1>3, ConstantsAssumption DEF OnlyMoves, TypeOK

LEMMA LeaveStep ==
    ASSUME IInv, TypeOK', NEW g \in Handlers, NEW answer,
           Leave(g, answer), db' = db
    PROVE  IInv'
<1>1. OnlyMoves(g) /\ job'[g] = NoJob /\ pc'[g] = "idle"
  BY LeaveMoves DEF IInv
<1>2. StateLeft(pc'[g], job'[g], db[job'[g].release], Len(db[job'[g].release].rounds))
  BY <1>1 DEF StateLeft
<1>3. JobFits(pc'[g], job'[g], db[job'[g].release])
  BY <1>1 DEF JobFits, NoJob
<1> QED
  BY <1>1, <1>2, <1>3, QuietStep

\* A handler goes on within its turn, or waits in the queue.
LEMMA GotoMoves ==
    ASSUME IInv, NEW g \in Handlers, NEW step,
           Goto(g, step), UNCHANGED <<gate, job>>,
           pc[g] \in TurnSteps <=> step \in TurnSteps,
           pc[g] # "inserting" \/ Row(g).phase = "None"
    PROVE  OnlyMoves(g) /\ job'[g] = job[g] /\ pc'[g] = step
BY DEF Goto, OnlyMoves, IInv, TypeOK, TurnsExclude

LEMMA ThrowStep ==
    ASSUME IInv, TypeOK', NEW g \in Handlers, pc[g] \in TurnSteps,
           Goto(g, "failing"), UNCHANGED <<db, gate, job>>
    PROVE  IInv'
<1>1. "failing" \in TurnSteps /\ pc[g] \notin {"idle", "inserting", "posting", "queued"}
  BY DEF TurnSteps
<1>2. OnlyMoves(g) /\ job'[g] = job[g] /\ pc'[g] = "failing"
  BY <1>1, GotoMoves
<1>3. StateLeft(pc'[g], job[g], Row(g), Len(Row(g).rounds))
  BY <1>2 DEF StateLeft
<1>4. JobFits(pc'[g], job[g], Row(g))
  BY <1>1, <1>2 DEF IInv, JobFits
<1> QED
  BY <1>2, <1>3, <1>4, QuietStep DEF Row

\* A turn goes on to its next step without writing to the database.
LEMMA TurnStep ==
    ASSUME IInv, TypeOK', NEW g \in Handlers, pc[g] \in TurnSteps,
           NEW step \in TurnSteps,
           Goto(g, step), UNCHANGED <<db, gate, job>>,
           StateLeft(step, job[g], Row(g), Len(Row(g).rounds))
    PROVE  IInv'
<1>1. TurnSteps \cap {"idle", "inserting", "posting", "queued"} = {}
  BY DEF TurnSteps
<1>2. OnlyMoves(g) /\ job'[g] = job[g] /\ pc'[g] = step
  BY <1>1, GotoMoves
<1>3. JobFits(step, job[g], Row(g))
  BY <1>1 DEF IInv, JobFits
<1> QED
  BY <1>2, <1>3, QuietStep DEF Row

LEMMA CommitStep ==
    ASSUME IInv, TypeOK', NEW g \in Handlers, pc[g] \in TurnSteps,
           NEW row \in Rows, NEW step \in TurnSteps,
           Commit(g, row, step), UNCHANGED <<gate, job>>,
           RequestsAgree(row, Len(row.rounds)),
           row.phase # "None",
           Row(g).requests \subseteq row.requests,
           StateLeft(step, job[g], row, Len(row.rounds))
    PROVE  IInv'
<1>1. TurnSteps \cap {"idle", "inserting", "posting", "queued"} = {}
  BY DEF TurnSteps
<1>2. CASE Goto(g, step) /\ db' = [db EXCEPT ![job[g].release] = row]
  <2>1. OnlyMoves(g) /\ job'[g] = job[g] /\ pc'[g] = step
    BY <1>1, <1>2, GotoMoves
  <2>2. JobFits(step, job[g], row)
    BY <1>1 DEF IInv, JobFits
  <2>3. job[g] # NoJob
    BY <1>1 DEF IInv, JobFits, NoJob
  <2> QED
    BY <1>1, <1>2, <2>1, <2>2, <2>3, WriteStep
<1>3. CASE Goto(g, "failing") /\ UNCHANGED db
  BY <1>3, ThrowStep
<1> QED
  BY <1>2, <1>3 DEF Commit
-----------------------------------------------------------------------------
(* The actions, one by one.                                                *)

LEMMA BeginStep ==
    ASSUME IInv, TypeOK', NEW g \in Handlers, pc[g] = "idle",
           NEW step \in {"inserting", "posting", "queued"}, NEW request \in Jobs,
           Begin(g, step, request),
           request.kind # "none",
           step = "inserting" => request.kind = "submit" /\ request.round = 0,
           step = "posting" => request.kind = "remediate",
           step # "inserting" =>
               /\ request.kind \in {"remediate", "decide", "view"}
               /\ db[request.release].requests # {}
    PROVE  IInv'
<1>1. "idle" \notin TurnSteps /\ step \notin TurnSteps
  BY DEF TurnSteps
<1>2. /\ job' = [job EXCEPT ![g] = request] /\ pc' = [pc EXCEPT ![g] = step]
      /\ gate' = gate /\ db' = db
  BY DEF Begin, Goto
<1>3. job'[g] = request /\ pc'[g] = step
  BY <1>2 DEF IInv, TypeOK
<1>4. OnlyMoves(g)
  BY <1>1, <1>2, <1>3 DEF OnlyMoves, IInv, TypeOK, TurnsExclude
<1>5. StateLeft(step, request, db[request.release], Len(db[request.release].rounds))
  BY DEF StateLeft
<1>6. JobFits(step, request, db[request.release])
  BY DEF JobFits
<1> QED
  BY <1>2, <1>3, <1>4, <1>5, <1>6, QuietStep

LEMMA AnswerStep ==
    ASSUME IInv, TypeOK', NEW g \in Handlers, NEW answer, Answer(g, answer)
    PROVE  IInv'
BY DEF Answer, IInv, TurnsExclude, OneOpenQuestion, TurnFindsWhatItLeft, OneStarts, Row

\* A release with an open question has put a question.
LEMMA ResolvedAsked ==
    ASSUME NEW row \in Rows, Resolve(row).kind \in {"Remediation", "Approval"}
    PROVE  row.requests # {}
BY DEF Resolve, Unanswered, Approvals, NoWait, Wait

LEMMA PostStep ==
    ASSUME IInv, TypeOK', NEW g \in Handlers, Post(g)
    PROVE  IInv'
<1>1. ASSUME NEW r \in Releases, NEW fill \in Fills, PostNew(g, r, fill)
      PROVE  IInv'
  <2> DEFINE request == [NoJob EXCEPT !.kind = "submit", !.release = r, !.fill = fill]
  <2>1. request \in Jobs /\ request.kind = "submit" /\ request.round = 0
    BY NoJobType DEF Jobs, Fills, NoJob
  <2> HIDE DEF request
  <2>2. CASE Begin(g, "inserting", request)
    BY <1>1, <2>1, <2>2, BeginStep DEF PostNew
  <2> QED
    BY <1>1, <2>2, AnswerStep DEF PostNew, request
<1>2. ASSUME NEW r \in Releases, NEW round \in 1 .. MaxRounds, NEW fill \in Fills,
             NEW rerun \in SUBSET Checks, PostRemediation(g, r, round, fill, rerun)
      PROVE  IInv'
  <2> DEFINE request == [NoJob EXCEPT !.kind = "remediate",
                                      !.release = r,
                                      !.round = round,
                                      !.fill = fill,
                                      !.base = [c \in Checks |-> Len(db[r].evidence[c])],
                                      !.rerun = rerun]
  <2>1. request \in Jobs /\ request.kind = "remediate" /\ request.release = r
    <3>1. [c \in Checks |-> Len(db[r].evidence[c])] \in [Checks -> Nat]
      BY DEF IInv, TypeOK, Rows
    <3>2. round \in Nat
      BY ConstantsAssumption
    <3> QED
      BY <3>1, <3>2, NoJobType DEF Jobs, Fills
  <2>2. db[r].requests # {}
    BY <1>2 DEF PostRemediation
  <2> HIDE DEF request
  <2>3. CASE Begin(g, "posting", request)
    BY <1>2, <2>1, <2>2, <2>3, BeginStep DEF PostRemediation
  <2> QED
    BY <1>2, <2>3, AnswerStep DEF PostRemediation, request
<1>3. ASSUME NEW r \in Releases, NEW id \in ResponseIds, NEW decision \in Decisions,
             PostDecision(g, r, id, decision)
      PROVE  IInv'
  <2> DEFINE response == [id |-> id, decision |-> decision, round |-> 0]
             request == [NoJob EXCEPT !.kind = "decide", !.release = r,
                                      !.response = response]
  <2>1. request \in Jobs /\ request.kind = "decide" /\ request.release = r
    BY NoJobType DEF Jobs, Responses
  <2>2. CASE Resolve(db[r]).kind = "Approval" /\ Begin(g, "queued", request)
    <3>1. db[r].requests # {}
      BY <2>2, ResolvedAsked DEF IInv, TypeOK
    <3> HIDE DEF request
    <3> QED
      BY <1>3, <2>1, <2>2, <3>1, BeginStep DEF PostDecision
  <2>3. CASE \E answer \in Replies : Answer(g, answer)
    BY <2>3, AnswerStep
  <2>4. \/ \E answer \in Replies : Answer(g, answer)
        \/ Resolve(db[r]).kind = "Approval" /\ Begin(g, "queued", request)
    BY <1>3 DEF PostDecision, Replies
  <2> QED
    BY <2>2, <2>3, <2>4
<1>4. ASSUME NEW r \in Releases, ViewDecision(g, r)
      PROVE  IInv'
  <2> DEFINE request == [NoJob EXCEPT !.kind = "view", !.release = r]
  <2>1. request \in Jobs /\ request.kind = "view" /\ request.release = r
    BY NoJobType DEF Jobs
  <2>2. CASE Resolve(db[r]).kind = "Approval" /\ Begin(g, "queued", request)
    <3>1. db[r].requests # {}
      BY <2>2, ResolvedAsked DEF IInv, TypeOK
    <3> HIDE DEF request
    <3> QED
      BY <1>4, <2>1, <2>2, <3>1, BeginStep DEF ViewDecision
  <2> QED
    BY <1>4, <2>2, AnswerStep DEF ViewDecision
<1> QED
  BY <1>1, <1>2, <1>3, <1>4 DEF Post

LEMMA InsertStep ==
    ASSUME IInv, TypeOK', NEW g \in Handlers, InsertRelease(g)
    PROVE  IInv'
<1>0. pc[g] = "inserting" /\ job[g].kind = "submit" /\ job[g].round = 0
  BY DEF InsertRelease, IInv, JobFits
<1> DEFINE row == [Row(g) EXCEPT !.phase = "Evaluating",
                                 !.evidence = FirstRecords(job[g].fill),
                                 !.timeline = <<"ReleaseSubmitted">>]
<1>1. CASE /\ Row(g).phase = "None"
           /\ db' = [db EXCEPT ![job[g].release] = row]
           /\ Goto(g, "queued") /\ UNCHANGED <<gate, job>>
  <2>1. /\ Row(g) \in Rows /\ job[g].release \in Releases
        /\ RequestsAgree(Row(g), Len(Row(g).rounds)) /\ Len(Row(g).rounds) \in Nat
    BY RowType DEF IInv, OneOpenQuestion, Rows, Row
  <2>2. Row(g).requests = {} /\ Len(Row(g).rounds) = 0
    BY <1>1, <2>1 DEF RequestsAgree
  <2>3. Row(g).rounds = <<>>
    BY <2>1, <2>2 DEF Rows
  <2>4. /\ row.phase = "Evaluating" /\ row.rounds = <<>> /\ row.requests = {}
        /\ row.rounds = Row(g).rounds
    BY <2>1, <2>2, <2>3 DEF Rows
  <2>5. RequestsAgree(row, Len(row.rounds))
    BY <1>1, <2>1, <2>4, InsertedAgrees
  <2>6. row \in Rows
    <3>1. db'[job[g].release] = row
      BY <1>1, <2>1 DEF IInv, TypeOK
    <3> QED
      BY <2>1, <3>1 DEF TypeOK
  <2> HIDE DEF row
  <2>7. TurnSteps \cap {"inserting", "queued"} = {}
    BY DEF TurnSteps
  <2>8. OnlyMoves(g) /\ job'[g] = job[g] /\ pc'[g] = "queued"
    BY <1>0, <1>1, <2>7, GotoMoves
  <2>9. StateLeft("queued", job[g], row, Len(row.rounds))
    BY DEF StateLeft
  <2>10. JobFits("queued", job[g], row)
    BY <1>0, <2>4 DEF JobFits
  <2>11. job[g] # NoJob
    BY <1>0 DEF NoJob
  <2> QED
    BY <1>0, <1>1, <2>2, <2>4, <2>5, <2>6, <2>8, <2>9, <2>10, <2>11, WriteStep
<1>2. CASE Leave(g, "error") /\ UNCHANGED db
  BY <1>2, LeaveStep
<1>3. db[job[g].release] = Row(g)
  BY DEF Row
<1> QED
  BY <1>1, <1>2, <1>3 DEF InsertRelease

LEMMA CheckStep ==
    ASSUME IInv, TypeOK', NEW g \in Handlers, CheckRemediation(g)
    PROVE  IInv'
<1>1. CASE Resolve(Row(g)) = Wait("Remediation", job[g].round)
  <2>1. pc[g] = "posting" /\ Goto(g, "queued") /\ UNCHANGED <<db, gate, job>>
    BY <1>1 DEF CheckRemediation
  <2>2. OnlyMoves(g) /\ job'[g] = job[g] /\ pc'[g] = "queued"
    BY <2>1, GotoMoves DEF TurnSteps
  <2>3. StateLeft("queued", job[g], Row(g), Len(Row(g).rounds))
    BY DEF StateLeft
  <2>4. Row(g) \in Rows /\ RequestsAgree(Row(g), Len(Row(g).rounds))
    BY RowType DEF IInv, OneOpenQuestion, Row
  <2>5. /\ Resolve(Row(g)).kind = "Remediation"
        /\ Row(g).phase \in Waiting
    BY <1>1 DEF Resolve, Wait, NoWait, Waiting
  <2>6. Row(g).requests # {}
    BY <2>4, <2>5, ResolvedAsked
  <2>7. JobFits("queued", job[g], Row(g))
    BY <2>1, <2>6 DEF IInv, JobFits
  <2> QED
    BY <2>1, <2>2, <2>3, <2>7, QuietStep DEF Row
<1>2. CASE Resolve(Row(g)) # Wait("Remediation", job[g].round)
  BY <1>2, LeaveStep DEF CheckRemediation
<1> QED
  BY <1>1, <1>2

(* What IInv says of the release a turn works on. *)
LEMMA TurnFacts ==
    ASSUME IInv, NEW g \in Handlers
    PROVE  /\ Row(g) \in Rows /\ job[g] \in Jobs
           /\ Len(Row(g).rounds) \in Nat
           /\ RequestsAgree(Row(g), Len(Row(g).rounds))
           /\ StateLeft(pc[g], job[g], Row(g), Len(Row(g).rounds))
           /\ JobFits(pc[g], job[g], Row(g))
<1>1. Row(g) \in Rows /\ job[g] \in Jobs /\ job[g].release \in Releases
  BY RowType DEF IInv
<1>2. RequestsAgree(Row(g), Len(Row(g).rounds))
  BY <1>1 DEF IInv, OneOpenQuestion, Row
<1>3. Len(Row(g).rounds) \in Nat
  BY <1>1 DEF Rows
<1> QED
  BY <1>1, <1>2, <1>3 DEF IInv, TurnFindsWhatItLeft

LEMMA ResumeRemediationStep ==
    ASSUME IInv, TypeOK', NEW g \in Handlers, ResumeRemediation(g)
    PROVE  IInv'
<1>0. pc[g] \in TurnSteps /\ "answering" \in TurnSteps
  BY DEF ResumeRemediation, TurnSteps
<1>1. CASE AnswersOpenQuestion(g)
  <2>1. Resolve(Row(g)) = Wait("Remediation", job[g].round)
    BY <1>1 DEF AnswersOpenQuestion
  <2>2. /\ Row(g).phase = "WaitingForRemediation"
        /\ Unanswered(Row(g)) = {Wait("Remediation", job[g].round)}
    BY <2>1 DEF Resolve, Wait, NoWait
  <2>3. Unanswered(Row(g)) = {Row(g).active}
    BY <2>2, TurnFacts DEF RequestsAgree
  <2>4. StateLeft("answering", job[g], Row(g), Len(Row(g).rounds))
    BY <2>2, <2>3 DEF StateLeft
  <2> QED
    BY <1>0, <1>1, <2>4, TurnStep DEF ResumeRemediation
<1>2. CASE ~AnswersOpenQuestion(g)
  BY <1>0, <1>2, ThrowStep DEF ResumeRemediation, Throw
<1> QED
  BY <1>1, <1>2

LEMMA SaveSubmissionStep ==
    ASSUME IInv, TypeOK', NEW g \in Handlers, SaveSubmission(g)
    PROVE  IInv'
<1>0. pc[g] \in TurnSteps /\ "planning" \in TurnSteps
  BY DEF SaveSubmission, TurnSteps
<1>1. CASE /\ Row(g).phase = "WaitingForRemediation"
           /\ Row(g).active = Wait("Remediation", job[g].round)
           /\ Commit(g, Answered(g), "planning")
  <2> DEFINE n == Len(Row(g).rounds)
  <2>1. n \in Nat /\ RequestsAgree(Row(g), n)
    BY TurnFacts
  <2> HIDE DEF n
  <2>2. /\ RequestsAgree(Answered(g), n) /\ job[g].round = n
        /\ Answered(g).phase = "Evaluating"
        /\ Answered(g).rounds = Row(g).rounds
        /\ Answered(g).requests = Row(g).requests
    BY <1>1, <2>1, AnsweredAgrees DEF IInv
  <2>3. StateLeft("planning", job[g], Answered(g), n)
    BY <2>2 DEF StateLeft
  <2>4. Answered(g) \in Rows
    BY SubmissionRowType DEF IInv
  <2> QED
    BY <1>0, <1>1, <2>2, <2>3, <2>4, CommitStep DEF SaveSubmission, n
<1>2. CASE Throw(g)
  BY <1>0, <1>2, ThrowStep DEF SaveSubmission, Throw
<1> QED
  BY <1>1, <1>2 DEF SaveSubmission

LEMMA PlanStep ==
    ASSUME IInv, TypeOK', NEW g \in Handlers, PlanRound(g)
    PROVE  IInv'
<1>0. pc[g] = "planning" /\ TurnSteps \cap {"idle", "inserting", "posting", "queued"} = {}
  BY DEF PlanRound, TurnSteps
<1>1. CASE PlanAccepted(g)
  <2>1. PICK results : job' = [job EXCEPT ![g].results = results]
    BY <1>1 DEF PlanRound
  <2>2. /\ pc' = [pc EXCEPT ![g] = "saving"] /\ gate' = gate /\ db' = db
    BY <1>1 DEF PlanRound, Goto
  <2>3. /\ pc'[g] = "saving"
        /\ job'[g].release = job[g].release
        /\ job'[g].kind = job[g].kind
        /\ job'[g].round = job[g].round
    BY <2>1, <2>2, TurnFacts DEF Jobs, IInv, TypeOK
  <2>4. OnlyMoves(g)
    BY <1>0, <2>1, <2>2, <2>3 DEF OnlyMoves, IInv, TypeOK, TurnsExclude, TurnSteps
  <2>5. StateLeft("saving", job'[g], Row(g), Len(Row(g).rounds))
    BY <1>0, <2>3, TurnFacts DEF StateLeft
  <2>6. JobFits("saving", job'[g], Row(g))
    BY <1>0, <2>3, TurnFacts DEF JobFits
  <2> QED
    BY <2>2, <2>3, <2>4, <2>5, <2>6, QuietStep DEF Row
<1>2. CASE ~PlanAccepted(g)
  BY <1>0, <1>2, ThrowStep DEF PlanRound, Throw, TurnSteps
<1> QED
  BY <1>1, <1>2

LEMMA SaveRoundStep ==
    ASSUME IInv, TypeOK', NEW g \in Handlers, SaveRound(g)
    PROVE  IInv'
<1>0. pc[g] \in TurnSteps /\ "asking" \in TurnSteps /\ pc[g] = "saving"
  BY DEF SaveRound, TurnSteps
<1>1. CASE Row(g).phase = "Evaluating" /\ Commit(g, Evaluated(g), "asking")
  <2> DEFINE n == Len(Row(g).rounds)
  <2>1. n \in Nat /\ RequestsAgree(Row(g), n) /\ job[g].round = n
    BY <1>0, TurnFacts DEF StateLeft
  <2>2. /\ Len(Evaluated(g).rounds) = n + 1
        /\ RequestsAgree(Evaluated(g), n + 1)
        /\ Evaluated(g).phase = "Evaluating"
        /\ Evaluated(g).requests = Row(g).requests
        /\ Evaluated(g).rounds[n + 1] = job[g].results
        /\ n + 1 \notin Evaluated(g).submissions
    BY <1>1, <2>1, EvaluatedAgrees DEF IInv
  <2> HIDE DEF n
  <2>3. StateLeft("asking", job[g], Evaluated(g), n + 1)
    BY <2>1, <2>2 DEF StateLeft
  <2>4. Evaluated(g) \in Rows
    BY RoundRowType DEF IInv
  <2> QED
    BY <1>0, <1>1, <2>2, <2>3, <2>4, CommitStep DEF SaveRound
<1>2. CASE Throw(g)
  BY <1>0, <1>2, ThrowStep DEF SaveRound, Throw
<1>3. ~(NextRound(g) <= Len(Row(g).rounds))
  BY <1>0, TurnFacts DEF StateLeft, NextRound
<1> QED
  BY <1>1, <1>2, <1>3 DEF SaveRound

LEMMA AskStep ==
    ASSUME IInv, TypeOK', NEW g \in Handlers, pc[g] = "asking",
           UNCHANGED <<gate, job>>,
           NEW kind, NEW phase, NEW entry \in TimelineKinds,
           \/ kind = "Remediation" /\ phase = "WaitingForRemediation"
           \/ kind = "Approval" /\ phase = "WaitingForApproval",
           Ask(g, kind, phase, entry)
    PROVE  IInv'
<1>0. pc[g] \in TurnSteps /\ "suspending" \in TurnSteps
  BY DEF TurnSteps
<1>1. CASE Row(g).phase = "Evaluating" /\ Commit(g, Asked(g, kind, phase, entry), "suspending")
  <2> DEFINE n == Len(Row(g).rounds)
             row == Asked(g, kind, phase, entry)
  <2>1. /\ n \in Nat /\ RequestsAgree(Row(g), n) /\ job[g].round + 1 = n
        /\ n \notin Row(g).submissions
    BY TurnFacts DEF StateLeft
  <2> HIDE DEF n
  <2>2. /\ RequestsAgree(row, n)
        /\ row.phase = phase
        /\ row.rounds = Row(g).rounds
        /\ Row(g).requests \subseteq row.requests
    BY <1>1, <2>1, AskedAgrees DEF IInv
  <2>3. row \in Rows
    <3>1. Wait(kind, NextRound(g)) \in Waits
      BY TurnFacts DEF Jobs, NextRound, Wait, Waits
    <3>2. Row(g).requests \cup {Wait(kind, NextRound(g))} \in SUBSET Waits
      BY <3>1, TurnFacts DEF Rows
    <3>3. Append(Row(g).timeline, entry) \in Seq(TimelineKinds)
      BY TurnFacts DEF Rows
    <3>4. phase \in Phases
      BY DEF Phases, Waiting
    <3> QED
      BY <3>1, <3>2, <3>3, <3>4, TurnFacts DEF Asked, Rows
  <2> HIDE DEF row
  <2>4. phase \in Waiting
    BY DEF Waiting
  <2>5. StateLeft("suspending", job[g], row, n)
    BY <2>2, <2>4 DEF StateLeft
  <2>6. Commit(g, row, "suspending")
    BY <1>1 DEF row
  <2> QED
    BY <1>0, <2>2, <2>3, <2>4, <2>5, <2>6, CommitStep DEF n, Waiting
<1>2. CASE Throw(g)
  BY <1>0, <1>2, ThrowStep DEF Throw
<1>3. Wait(kind, NextRound(g)) \notin Row(g).requests
  <2>1. /\ Unanswered(Row(g)) = {} /\ Approvals(Row(g)) = {}
        /\ NextRound(g) \notin Row(g).submissions
    BY TurnFacts DEF StateLeft, RequestsAgree, NextRound
  <2> QED
    BY <2>1 DEF Unanswered, Approvals, Wait
<1> QED
  BY <1>1, <1>2, <1>3 DEF Ask

LEMMA OpenApprovalStep ==
    ASSUME IInv, TypeOK', NEW g \in Handlers, OpenApproval(g)
    PROVE  IInv'
<1>1. CASE Ask(g, "Approval", "WaitingForApproval", "ApprovalRequested")
  <2>1. "ApprovalRequested" \in TimelineKinds
    BY DEF TimelineKinds
  <2> QED
    BY <1>1, <2>1, AskStep DEF OpenApproval
<1>2. CASE Throw(g)
  BY <1>2, ThrowStep DEF OpenApproval, Throw, TurnSteps
<1> QED
  BY <1>1, <1>2 DEF OpenApproval

LEMMA ReachWaitStep ==
    ASSUME IInv, TypeOK', NEW g \in Handlers, ReachWait(g)
    PROVE  IInv'
<1>1. pc[g] = "suspending" /\ pc[g] \in TurnSteps /\ "correlating" \in TurnSteps
  BY DEF ReachWait, TurnSteps
<1>2. StateLeft("correlating", job[g], Row(g), Len(Row(g).rounds))
  BY <1>1, TurnFacts DEF StateLeft
<1> QED
  BY <1>1, <1>2, TurnStep DEF ReachWait

LEMMA SaveCorrelationStep ==
    ASSUME IInv, TypeOK', NEW g \in Handlers, SaveCorrelation(g)
    PROVE  IInv'
<1>0. pc[g] = "correlating" /\ pc[g] \in TurnSteps
  BY DEF SaveCorrelation, TurnSteps
<1> DEFINE row == [Row(g) EXCEPT !.correlation = Row(g).active]
<1>1. CASE /\ db' = [db EXCEPT ![job[g].release].correlation = Row(g).active]
           /\ Leave(g, "ok")
  <2>1. db' = [db EXCEPT ![job[g].release] = row]
    BY <1>1 DEF Row
  <2>2. /\ row \in Rows /\ row.phase = Row(g).phase /\ row.rounds = Row(g).rounds
        /\ row.requests = Row(g).requests
    BY TurnFacts DEF Rows
  <2>3. RequestsAgree(row, Len(row.rounds))
    BY <2>2, TurnFacts, CorrelatedAgrees
  <2>4. row.phase # "None"
    BY <1>0, <2>2, TurnFacts DEF StateLeft, Waiting
  <2>5. OnlyMoves(g) /\ job'[g] = NoJob /\ pc'[g] = "idle"
    BY <1>1, LeaveMoves DEF IInv
  <2>6. job[g] # NoJob /\ pc[g] # "idle"
    BY <1>0, TurnFacts DEF JobFits, NoJob
  <2> HIDE DEF row
  <2> QED
    BY <1>0, <2>1, <2>2, <2>3, <2>4, <2>5, <2>6, WriteStep
<1>2. CASE Goto(g, "failing") /\ UNCHANGED <<db, gate, job>>
  BY <1>0, <1>2, ThrowStep
<1> QED
  BY <1>1, <1>2 DEF SaveCorrelation, Throw

LEMMA ResumeApprovalStep ==
    ASSUME IInv, TypeOK', NEW g \in Handlers, ResumeApproval(g)
    PROVE  IInv'
<1>0. pc[g] \in TurnSteps /\ "deciding" \in TurnSteps
  BY DEF ResumeApproval, TurnSteps
<1>1. CASE Leave(g, "ok")
  BY <1>1, LeaveStep DEF ResumeApproval
<1>2. CASE /\ Resolve(Row(g)).kind = "Approval" /\ Goto(g, "deciding")
           /\ UNCHANGED <<gate, job>>
  <2>1. Row(g).phase = "WaitingForApproval"
    <3>1. Resolve(Row(g)) # NoWait
      BY <1>2 DEF NoWait, Wait
    <3> QED
      BY <1>2, <3>1 DEF Resolve
  <2>2. StateLeft("deciding", job[g], Row(g), Len(Row(g).rounds))
    BY <2>1 DEF StateLeft
  <2> QED
    BY <1>0, <1>2, <2>2, TurnStep DEF ResumeApproval
<1>3. CASE Goto(g, "failing") /\ UNCHANGED <<gate, job>>
  BY <1>0, <1>3, ThrowStep DEF ResumeApproval
<1> QED
  BY <1>1, <1>2, <1>3 DEF ResumeApproval

LEMMA SaveResponseStep ==
    ASSUME IInv, TypeOK', NEW g \in Handlers, SaveResponse(g)
    PROVE  IInv'
<1>0. pc[g] \in TurnSteps /\ "finishing" \in TurnSteps
  BY DEF SaveResponse, TurnSteps
<1>1. CASE Row(g).phase = "WaitingForApproval" /\ Commit(g, Decided(g), "finishing")
  <2> DEFINE n == Len(Row(g).rounds)
  <2>1. n \in Nat /\ RequestsAgree(Row(g), n)
    BY TurnFacts
  <2> HIDE DEF n
  <2>2. /\ RequestsAgree(Decided(g), n)
        /\ Decided(g).phase \in Terminal
        /\ Decided(g).rounds = Row(g).rounds
        /\ Decided(g).requests = Row(g).requests
        /\ SameDecision(Decided(g).response, job[g].response)
    BY <1>1, <2>1, DecidedAgrees DEF IInv
  <2>3. StateLeft("finishing", job[g], Decided(g), n)
    BY <2>2 DEF StateLeft
  <2>4. Decided(g) \in Rows
    BY DecisionRowType DEF IInv
  <2>5. Decided(g).phase # "None"
    BY <2>2 DEF Terminal
  <2> QED
    BY <1>0, <1>1, <2>2, <2>3, <2>4, <2>5, CommitStep DEF SaveResponse, n
<1>2. CASE Throw(g)
  BY <1>0, <1>2, ThrowStep DEF SaveResponse, Throw
<1> QED
  BY <1>1, <1>2 DEF SaveResponse

LEMMA RestoreForViewStep ==
    ASSUME IInv, TypeOK', NEW g \in Handlers, RestoreForView(g)
    PROVE  IInv'
<1>1. CASE Leave(g, "ok")
  BY <1>1, LeaveStep DEF RestoreForView
<1>2. CASE Goto(g, "failing") /\ UNCHANGED <<gate, job>>
  BY <1>2, ThrowStep DEF RestoreForView, TurnSteps
<1> QED
  BY <1>1, <1>2 DEF RestoreForView

LEMMA MarkFailedStep ==
    ASSUME IInv, TypeOK', NEW g \in Handlers, MarkFailed(g)
    PROVE  IInv'
<1>0. /\ pc[g] = "failing" /\ pc[g] \in TurnSteps /\ gate = g
      /\ "idle" \notin TurnSteps /\ "rereading" \notin TurnSteps
      /\ job[g].release \in Releases
  BY RowType DEF MarkFailed, TurnSteps, IInv, TurnsExclude
<1>1. /\ OnlyMoves(g)
      /\ \/ job'[g] = NoJob /\ pc'[g] = "idle"
         \/ job'[g] = job[g] /\ pc'[g] = "rereading"
  <2>1. CASE Leave(g, "error")
    BY <2>1, LeaveMoves DEF IInv
  <2>2. CASE Goto(g, "rereading") /\ gate' = Nobody /\ UNCHANGED job
    BY <1>0, <2>2, ConstantsAssumption DEF Goto, OnlyMoves, IInv, TypeOK
  <2> QED
    BY <2>1, <2>2 DEF MarkFailed
<1>2. /\ job[g] # NoJob /\ job[g].kind # "none"
  BY <1>0, TurnFacts DEF JobFits, NoJob
<1>3. \A row : StateLeft("rereading", job[g], row, Len(row.rounds))
  BY DEF StateLeft
<1>4. CASE UNCHANGED db
  <2>1. CASE job'[g] = NoJob
    BY <1>1, <1>2, <1>4, <2>1, QuietStep DEF StateLeft, JobFits, NoJob
  <2>2. CASE job'[g] = job[g]
    <3>1. JobFits("rereading", job[g], Row(g))
      BY <1>0, TurnFacts DEF JobFits
    <3> QED
      BY <1>1, <1>2, <1>3, <1>4, <2>2, <3>1, QuietStep DEF Row
  <2> QED
    BY <1>1, <2>1, <2>2
<1>5. CASE db' = [db EXCEPT ![job[g].release] = FailedRow(g)]
  <2>1. /\ RequestsAgree(FailedRow(g), Len(Row(g).rounds))
        /\ FailedRow(g).phase = "Failed"
        /\ FailedRow(g).rounds = Row(g).rounds
        /\ FailedRow(g).requests = Row(g).requests
    BY TurnFacts, FailedAgrees DEF IInv
  <2>2. FailedRow(g) \in Rows
    <3>1. db'[job[g].release] = FailedRow(g)
      BY <1>0, <1>5 DEF IInv, TypeOK
    <3> QED
      BY <1>0, <3>1 DEF TypeOK
  <2>3. JobFits("rereading", job[g], FailedRow(g))
    BY <1>0, <2>1, TurnFacts DEF JobFits
  <2> QED
    BY <1>0, <1>1, <1>2, <1>3, <1>5, <2>1, <2>2, <2>3, WriteStep
<1> QED
  BY <1>4, <1>5 DEF MarkFailed

LEMMA WorkStep ==
    ASSUME IInv, TypeOK', NEW g \in Handlers, Work(g)
    PROVE  IInv'
<1>1. CASE OpenRemediation(g)
  <2>1. "RemediationRequested" \in TimelineKinds
    BY DEF TimelineKinds
  <2> QED
    BY <1>1, <2>1, AskStep DEF OpenRemediation
<1>2. CASE FinishApproval(g)
  BY <1>2, LeaveStep DEF FinishApproval
<1>3. CASE Reread(g)
  BY <1>3, LeaveStep DEF Reread
<1> QED
  BY <1>1, <1>2, <1>3, InsertStep, CheckStep, ResumeRemediationStep,
     SaveSubmissionStep, PlanStep, SaveRoundStep, OpenApprovalStep, ReachWaitStep,
     SaveCorrelationStep, ResumeApprovalStep, SaveResponseStep,
     RestoreForViewStep, MarkFailedStep DEF Work
-----------------------------------------------------------------------------
LEMMA InvariantInit == Init => IInv
<1> SUFFICES ASSUME Init PROVE IInv
  OBVIOUS
<1>1. TypeOK
  BY TypeInit
<1>2. TurnsExclude
  BY ConstantsAssumption DEF Init, TurnsExclude, TurnSteps
<1>3. OneOpenQuestion
  <2>1. RequestsAgree(NoRelease, 0)
    BY DEF RequestsAgree, NoRelease, Terminal
  <2>2. Len(NoRelease.rounds) = 0
    BY DEF NoRelease
  <2> QED
    BY <2>1, <2>2 DEF Init, OneOpenQuestion
<1>4. TurnFindsWhatItLeft
  BY DEF Init, TurnFindsWhatItLeft, StateLeft
<1>5. \A h \in Handlers : JobFits(pc[h], job[h], Row(h))
  BY DEF Init, JobFits, NoJob
<1>6. OneStarts
  BY DEF Init, OneStarts, NoJob
<1> QED
  BY <1>1, <1>2, <1>3, <1>4, <1>5, <1>6 DEF IInv

LEMMA InvariantStep == IInv /\ [Next]_vars => IInv'
<1> SUFFICES ASSUME IInv, [Next]_vars PROVE IInv'
  OBVIOUS
<1>0. TypeOK'
  BY TypeStep DEF IInv
<1>1. ASSUME NEW h \in Handlers, Post(h) PROVE IInv'
  BY <1>0, <1>1, PostStep
<1>2. ASSUME NEW h \in Handlers, Work(h) PROVE IInv'
  BY <1>0, <1>2, WorkStep
<1>3. ASSUME NEW h \in Handlers, AcquireGate(h) PROVE IInv'
  <2> DEFINE step == IF job[h].kind = "submit" THEN "planning" ELSE "resuming"
  <2>1. /\ pc[h] = "queued" /\ gate = Nobody /\ gate' = h /\ db' = db /\ job' = job
        /\ pc' = [pc EXCEPT ![h] = step]
    BY <1>3 DEF AcquireGate, Goto
  <2>2. step \in TurnSteps /\ TurnSteps \cap {"idle", "inserting", "posting", "queued"} = {}
    BY DEF TurnSteps
  <2>3. OnlyMoves(h) /\ pc'[h] = step
    BY <2>1, <2>2, ConstantsAssumption DEF OnlyMoves, IInv, TypeOK, TurnsExclude
  <2>4. StateLeft(step, job[h], Row(h), Len(Row(h).rounds))
    <3>1. CASE job[h].kind = "submit"
      <4>1. Row(h).phase = "Evaluating" /\ Row(h).rounds = <<>> /\ job[h].round = 0
        BY <2>1, <3>1, TurnFacts DEF JobFits
      <4> QED
        BY <3>1, <4>1 DEF StateLeft
    <3>2. CASE job[h].kind # "submit"
      BY <3>2 DEF StateLeft
    <3> QED
      BY <3>1, <3>2
  <2>5. JobFits(step, job[h], Row(h))
    BY <2>1, <2>2, TurnFacts DEF JobFits
  <2> QED
    BY <1>0, <2>1, <2>3, <2>4, <2>5, QuietStep DEF Row
<1>4. ASSUME NEW h \in Handlers, TechnicalFault(h) PROVE IInv'
  BY <1>0, <1>4, ThrowStep DEF TechnicalFault, Throw
<1>5. ASSUME NEW h \in Handlers, Cancel(h) PROVE IInv'
  BY <1>0, <1>5, LeaveStep DEF Cancel
<1>6. ASSUME NEW r \in Releases, LoseCheckpoint(r) PROVE IInv'
  BY <1>0, <1>6 DEF LoseCheckpoint, IInv, TurnsExclude, OneOpenQuestion,
                    TurnFindsWhatItLeft, OneStarts, Row
<1>7. CASE Crash
  <2>1. \A h \in Handlers : pc'[h] = "idle" /\ job'[h] = NoJob
    BY <1>7 DEF Crash
  <2>2. TurnsExclude'
    BY <1>7, <2>1, ConstantsAssumption DEF Crash, TurnsExclude, TurnSteps
  <2>3. OneOpenQuestion'
    BY <1>7 DEF Crash, IInv, OneOpenQuestion
  <2>4. TurnFindsWhatItLeft'
    BY <2>1 DEF TurnFindsWhatItLeft, StateLeft
  <2>5. \A h \in Handlers : job'[h].kind = "none"
    <3>1. NoJob.kind = "none"
      BY DEF NoJob
    <3> QED
      BY <2>1, <3>1
  <2>6. (\A h \in Handlers : JobFits(pc[h], job[h], Row(h)))'
    BY <2>1, <2>5 DEF JobFits
  <2>7. OneStarts'
    BY <2>5 DEF OneStarts
  <2> QED
    BY <1>0, <2>2, <2>3, <2>4, <2>6, <2>7 DEF IInv
<1>8. CASE UNCHANGED vars
  BY <1>0, <1>8 DEF vars, IInv, TurnsExclude, OneOpenQuestion,
                    TurnFindsWhatItLeft, OneStarts, Row
<1> QED
  BY <1>1, <1>2, <1>3, <1>4, <1>5, <1>6, <1>7, <1>8 DEF Next

(* The gate, the rows and what each turn finds stay as IInv says. *)
THEOREM InvariantCorrect == Spec => []IInv
<1> QED
  BY InvariantInit, InvariantStep, PTL DEF Spec

(* At most one handler is inside a turn, and it holds the gate. *)
THEOREM TurnsExcludeCorrect == Spec => []TurnsExclude
<1>1. IInv => TurnsExclude
  BY DEF IInv
<1> QED
  BY <1>1, InvariantCorrect, PTL

(* A waiting release has exactly one open question. *)
THEOREM OneOpenQuestionCorrect == Spec => []OneOpenQuestion
<1>1. IInv => OneOpenQuestion
  BY DEF IInv
<1> QED
  BY <1>1, InvariantCorrect, PTL

(* What a turn read or wrote still holds at its later steps. *)
THEOREM TurnFindsWhatItLeftCorrect == Spec => []TurnFindsWhatItLeft
<1>1. IInv => TurnFindsWhatItLeft
  BY DEF IInv
<1> QED
  BY <1>1, InvariantCorrect, PTL
-----------------------------------------------------------------------------
(* What a step may never do.                                               *)

\* What a commit can do to the rows of a release.
LEMMA CommitChanges ==
    ASSUME TypeOK, NEW g \in Handlers, NEW row, NEW step, Commit(g, row, step),
           NEW r \in Releases
    PROVE  db'[r] = db[r] \/ (r = job[g].release /\ db'[r] = row)
BY RowType DEF Commit, TypeOK

(* What the work of a handler does to a release: nothing, one of the five  *)
(* commits of a live release, the insert of a new one, or the mark of      *)
(* failure.                                                                *)
LEMMA WorkChanges ==
    ASSUME IInv, NEW g \in Handlers, Work(g), NEW r \in Releases, db'[r] # db[r]
    PROVE  /\ db[r].phase \notin Ended
           /\ \/ db'[r].phase # "Failed"
              \/ db'[r] = [db[r] EXCEPT !.phase = "Failed",
                                        !.timeline = Append(@, "WorkflowFailed")]
<1>0. /\ Row(g) \in Rows /\ job[g] \in Jobs /\ job[g].release \in Releases
      /\ TypeOK /\ db[job[g].release] = Row(g)
      /\ StateLeft(pc[g], job[g], Row(g), Len(Row(g).rounds))
  BY TurnFacts, RowType DEF IInv
<1>1. CASE InsertRelease(g)
  <2> DEFINE row == [Row(g) EXCEPT !.phase = "Evaluating",
                                   !.evidence = FirstRecords(job[g].fill),
                                   !.timeline = <<"ReleaseSubmitted">>]
  <2>1. Row(g).phase = "None" /\ db' = [db EXCEPT ![job[g].release] = row]
    BY <1>0, <1>1 DEF InsertRelease
  <2>2. row.phase = "Evaluating"
    BY <1>0 DEF Rows
  <2> HIDE DEF row
  <2>3. r = job[g].release /\ db'[r] = row
    BY <1>0, <2>1 DEF TypeOK
  <2> QED
    BY <1>0, <2>1, <2>2, <2>3 DEF Ended, Terminal
<1>2. CASE SaveSubmission(g)
  <2>1. Answered(g).phase = "Evaluating"
    BY <1>0 DEF Answered, Rows
  <2> QED
    BY <1>0, <1>2, <2>1, CommitChanges DEF SaveSubmission, Throw, Ended, Terminal
<1>3. CASE SaveRound(g)
  <2>1. Evaluated(g).phase = Row(g).phase
    BY <1>0 DEF Evaluated, Rows
  <2> QED
    BY <1>0, <1>3, <2>1, CommitChanges DEF SaveRound, Replayed, Throw, Ended, Terminal
<1>4. ASSUME NEW kind, NEW phase, NEW entry,
             Ask(g, kind, phase, entry), phase # "Failed"
      PROVE  db[r].phase \notin Ended /\ db'[r].phase # "Failed"
  <2>1. Asked(g, kind, phase, entry).phase = phase
    BY <1>0 DEF Asked, Rows
  <2> QED
    BY <1>0, <1>4, <2>1, CommitChanges DEF Ask, Replayed, Throw, Ended, Terminal
<1>5. CASE OpenRemediation(g)
  BY <1>4, <1>5 DEF OpenRemediation
<1>6. CASE OpenApproval(g)
  BY <1>4, <1>6 DEF OpenApproval, Throw
<1>7. CASE SaveCorrelation(g)
  <2>1. Row(g).phase \in Waiting
    BY <1>0, <1>7 DEF SaveCorrelation, StateLeft
  <2>2. /\ r = job[g].release
        /\ db'[r] = [Row(g) EXCEPT !.correlation = Row(g).active]
    BY <1>0, <1>7 DEF SaveCorrelation, Throw, TypeOK
  <2> QED
    BY <1>0, <2>1, <2>2 DEF Waiting, Ended, Terminal, Rows
<1>8. CASE SaveResponse(g)
  <2>1. Decided(g).phase \in Terminal
    BY <1>0 DEF Decided, Rows, Terminal
  <2> QED
    BY <1>0, <1>8, <2>1, CommitChanges DEF SaveResponse, Throw, Ended, Terminal
<1>9. CASE MarkFailed(g)
  <2>1. FailedRow(g) = [Row(g) EXCEPT !.phase = "Failed",
                                      !.timeline = Append(@, "WorkflowFailed")]
    BY <1>0, TurnFacts, FailedAgrees
  <2>2. MayFail(g) /\ db' = [db EXCEPT ![job[g].release] = FailedRow(g)]
    BY <1>9 DEF MarkFailed
  <2>3. r = job[g].release /\ db'[r] = FailedRow(g) /\ Row(g).phase \notin Ended
    BY <1>0, <2>2 DEF TypeOK, MayFail, Loaded, ClearTracker, Ended
  <2> QED
    BY <1>0, <2>1, <2>3
<1>10. CASE UNCHANGED db
  BY <1>10
<1>11. \/ InsertRelease(g) \/ SaveSubmission(g) \/ SaveRound(g) \/ OpenRemediation(g)
       \/ OpenApproval(g) \/ SaveCorrelation(g) \/ SaveResponse(g) \/ MarkFailed(g)
       \/ UNCHANGED db
  BY DEF Work, CheckRemediation, ResumeRemediation, PlanRound, ReachWait,
         ResumeApproval, FinishApproval, RestoreForView, Reread, Throw
<1> QED
  BY <1>1, <1>2, <1>3, <1>5, <1>6, <1>7, <1>8, <1>9, <1>10, <1>11

LEMMA StepChanges ==
    ASSUME IInv, [Next]_vars, NEW r \in Releases, db'[r] # db[r]
    PROVE  \E g \in Handlers : Work(g)
<1>1. ASSUME NEW h \in Handlers, Post(h)
      PROVE  UNCHANGED db
  <2>1. \A step, request : Begin(h, step, request) => UNCHANGED db
    BY DEF Begin
  <2>2. \A answer : Answer(h, answer) => UNCHANGED db
    BY DEF Answer
  <2>3. \A q \in Releases : \A fill : PostNew(h, q, fill) => UNCHANGED db
    BY <2>1, <2>2 DEF PostNew
  <2>4. \A q \in Releases : \A round, fill, rerun :
            PostRemediation(h, q, round, fill, rerun) => UNCHANGED db
    BY <2>1, <2>2 DEF PostRemediation
  <2>5. \A q \in Releases : \A id, decision :
            PostDecision(h, q, id, decision) => UNCHANGED db
    BY <2>1, <2>2 DEF PostDecision
  <2>6. \A q \in Releases : ViewDecision(h, q) => UNCHANGED db
    BY <2>1, <2>2 DEF ViewDecision
  <2> QED
    BY <1>1, <2>3, <2>4, <2>5, <2>6 DEF Post
<1>2. ASSUME NEW h \in Handlers, AcquireGate(h) \/ TechnicalFault(h) \/ Cancel(h)
      PROVE  UNCHANGED db
  BY <1>2 DEF AcquireGate, TechnicalFault, Throw, Cancel
<1>3. ASSUME NEW q \in Releases, LoseCheckpoint(q)
      PROVE  UNCHANGED db
  BY <1>3 DEF LoseCheckpoint
<1>4. Crash \/ UNCHANGED vars => UNCHANGED db
  BY DEF Crash, vars
<1> QED
  BY <1>1, <1>2, <1>3, <1>4 DEF Next

(* An ended release is never written to again. *)
THEOREM EndedIsFinalCorrect == Spec => EndedIsFinal
<1>1. ASSUME IInv, [Next]_vars
      PROVE  [\A r \in Releases : db[r].phase \in Ended => db'[r] = db[r]]_vars
  BY <1>1, StepChanges, WorkChanges
<1> QED
  BY <1>1, InvariantCorrect, PTL DEF Spec, EndedIsFinal

(* A failure is recorded, and changes nothing else. *)
THEOREM FailureKeepsHistoryCorrect == Spec => FailureKeepsHistory
<1>1. ASSUME IInv, [Next]_vars
      PROVE  [\A r \in Releases :
                  db'[r].phase = "Failed" /\ db[r].phase # "Failed" =>
                      db'[r] = [db[r] EXCEPT !.phase = "Failed",
                                             !.timeline = Append(@, "WorkflowFailed")]]_vars
  BY <1>1, StepChanges, WorkChanges
<1> QED
  BY <1>1, InvariantCorrect, PTL DEF Spec, FailureKeepsHistory
=============================================================================
