# Release Readiness Coordinator: a TLA+ model and its proofs

The program takes release submissions with evidence, evaluates three readiness
checks (test, security, change) in rounds, sends problems back to the submitter
and puts a passing round before a human.  It is one ASP.NET Core process:
HTTP handlers run turns of a Microsoft Agent Framework workflow, business facts
live in SQLite, the workflow's continuation in checkpoint files.  What is hard
about it is that a turn spans several reads and commits in three stores that
cannot commit together, while other requests run, clients go away, and the
process may die.

All paths below are relative to `src/src/ReleaseReadinessCoordinator/` unless
they start with `src/`.

## Inventory

| Part | State | Operations | Talks to |
|---|---|---|---|
| Pages (`Pages/Releases`) | none | New: POST; Remediate: GET, POST; Decision: GET, POST; Detail: GET | interaction services, data service |
| Submission (`ReleaseSubmissionApplicationService`) | none | `SubmitAsync` | data service, then workflow service |
| Remediation, decision interaction (`RemediationHandler.cs`, `HumanDecisionHandler.cs`) | none | `GetActiveAsync`, `SubmitAsync` | data service (reads before the turn), workflow service |
| Workflow service (`ReleaseWorkflowService`, `WorkflowWaitResolver`) | none | start, restore, resume remediation, resume approval; failure handler; `SavePendingWaitAsync` | coordinator, data service |
| Checkpoint coordinator (`CheckpointStoreCoordinator`, singleton) | operation gate, checkpoint files by session | `ExecuteExclusivelyAsync`, start, restore, resume | the framework, files |
| Workflow graph (`ReleaseWorkflowFactory`, `ReadinessExecutors`) | per run: fan-in list; per request: `_currentEvidenceGate`, DbContext | planner, three branches, aggregator, snapshot builder, two request ports, two answer handlers | data service |
| Planning and reuse (`RoundPlanner`, `ResultReuse`, `BranchExecution`) | none | plan, execute with retry, reuse | providers, policies |
| Aggregation (`RoundAggregator`, `DecisionSnapshotBuilder`) | none | complete a round, open a remediation or approval request | data service |
| Data service (`ApplicationDataService`, scoped DbContext) | SQLite rows; tracked entities of the request | seven writing methods, each one commit; reads | SQLite |
| Policies (`Readiness/*Policy.cs`) | none | pure evaluation of a submission and a record | - |
| Evidence forms (`InputModel` of New and Remediate, `EvidenceFormParsing`, `LocalDateTimeDisplay`) | the browser's form | fill in, parse, find out what changed | pages |
| Detail page, demo fixtures, start-up | none | display, sample values, wiring | - |

The path of a request: the page (or interaction service) reads the release
outside the gate and may answer at once; it queues for the operation gate; in
its turn the workflow service reads again, compares the correlation row with
the checkpoint, resumes the run, the executors read and commit, the framework
checkpoints, the correlation row is written, the gate is released.  An
exception inside a turn marks the release `Failed`; a cancellation does not.

What is hard here, and where it bites, is the hazard list in `PROJECT.json`:
values read before the gate and used behind it (forms, tokens, evidence
versions, instants, duplicate check); three branches on one database context;
text forms that must say exactly what a record says; three stores written in sequence; a failure handler
that writes; a change tracker that remembers what could not be saved; retries
recognised by comparing whole records; reuse of results across rounds; one gate
for every release.

Properties by part:

- Data service and resolver: one open question per release, request rows,
  submissions, rounds and phase agree; the timeline accounts for every row.
- Workflow service: ends are final, failures keep history, a turn's later
  writes find what its first read found, every wait is resumable.
- Interaction services: what a client is told is what happened.
- Planning and reuse: reused passes rest on the current record; an approval
  covers exactly the current evidence.
- Coordinator: turns exclude each other, every request is answered.
- Executors: one user of the database context at a time, exact retries, nothing
  refused in a healthy turn, a failing branch fails its turn, and all of it
  amounts to one evaluation per round.
- Policies and forms: results are what the table of `src/SPEC.md` says of the
  current record; an edit is recorded, and what is not edited stays.
- Instants: the domain refuses no healthy turn while the clock goes forward,
  and a release can be read back whatever the clock does.

## Modules

| Module | Content |
|---|---|
| `RoundPlanning` | operators: planning reason, execution, reuse, for one check with its evidence history |
| `ReleaseWorkflow` | the state machine: handlers, turns, commits, checkpoints, faults |
| `ReleaseLifecycle` | abstract specification: phases, rounds and answers of a release, nothing else |
| `RoundEvaluation` | abstract specification: rounds of results on current evidence, each in one step |
| `ReleaseWorkflowProperties` | properties, the inductive invariant, the refinement mapping |
| `BranchFanOut`, `BranchFanOutProperties` | the inside of one turn's evaluation: planner, branches, retry, barrier, aggregator, end of the run |
| `ReadinessPolicies` | operators: the three policies |
| `EvidenceForm`, `EvidenceFormProperties` | forms, records and verdicts of one release over its rounds |
| `ReleaseInstants` | the clock, the instants on a release's records and the checks that refuse one; with its properties |
| `MC...` | TLC: symmetry and sets of inputs; constants are in the `.cfg` files |
| `BranchFanOut_proofs`, `ReleaseInstants_proofs`, `EvidenceForm_proofs` | theorems about these three |
| `ReleaseWorkflow_proofs` | type correctness, proved |
| `ReleaseWorkflowSafety_proofs` | the inductive invariant and what follows from it, proved |
| `ReleaseWorkflowEvidence_proofs` | approvals, reuse, forms and the timeline fit what is on record, proved |
| `ReleaseWorkflowRefinement_proofs` | the two refinements, proved |
| `ReleaseWorkflowReplies_proofs` | replies are true, waits can be resumed, proved |

### State and code

- `db[r]` is the release's rows in SQLite: `phase` (`ReleaseRow.Phase`),
  `evidence` (per check the sequence of records by version, the last one
  current), `rounds` (a result per check), `requests` and `active`
  (`WorkflowRequestRow`, `IsActive`), `submissions`, `response`,
  `correlation` (`WorkflowCorrelationRow`), `timeline` (the entries' kinds in
  order of their sequence numbers).
- An evidence record is the verdict its policy returns for it: policies are
  deterministic functions of the release and the record, so a record *is* its
  verdict and its version for every property here.
- A request (row, framework id, wait) is the pair of its kind and round: the
  code makes the row and the framework's request together, one per round.
- `checkpoint[r]` is what the session's latest checkpoint restores to: a wait,
  a run that had not reached one, an unreadable file, or a completed run.
- `gate` is `_operationGate`; `pc`, `job` describe each request in flight;
  `tracked` the rows its DbContext could not save; `reply` its answer.
- Every SQLite commit is a step of its own; so is every read outside the gate
  whose value is used later, and the write of a checkpoint.  What a turn does
  between two commits is folded into the commit that follows: under the gate
  nobody else writes the release's rows, except an insert of the same
  identifier, which fails.  Each action's comment names the methods it stands
  for; `PROJECT.json` has the lines.

How the modules divide one system.  `ReleaseWorkflow` has every actor and store
and takes an evaluation (planner, branches, aggregator) as the one step that
commits its round.  `BranchFanOut` opens that step: it has one turn at a time,
since the gate of `ReleaseWorkflow` provides that (`TurnsExcludeCorrect`), and
no stores but evidence and rounds.  Both implement `RoundEvaluation`, which is
what makes the division sound: what the workflow assumes of an evaluation is
what the branches together do.  `EvidenceForm` opens the other thing the
workflow takes as data, an evidence record and its verdict: it has one form at a
time, and the same planning operators (`RoundPlanning`).  `ReleaseInstants`
projects the workflow on what carries an instant.

In `BranchFanOut` a step ends where the code awaits: `branch[c].step` is the
await branch `c` is at (the queue of the gate, the first or the second read),
`turn` where the coordinator's event loop sees the turn, `slots` the free slots
of `_currentEvidenceGate`, `inbox` the fan-in edge, `collected` the aggregator's
`_results`.  The framework is external: that the disposal of a run waits for
its executors (`Quiet`) is how `await using var run` is used; a mutant shows that
`OneReader` depends on it.

In `EvidenceForm` an instant counts units of which `Second` make a second (in the
code, ticks), a rate counts thousandths of a percent, a list is a set, `Absent`
is null.  `ToLocal` and `FromLocal` are a zone whose clock is set back by `Hour`
at `Fold`: two instants share a local time, and .NET reads such a time as the
second.  `Displayed` is what every box for a time shows: local time without the
fraction of the second, as `LocalDateTimeDisplay.TextFormat` writes an expiry and
`asp-format` the other times.  What is read back may be finer: `TryParseExpiry`
takes fractions, and so does the binder of the other boxes, though their
`step="1"` makes a browser send whole seconds.  `IsForm` and `IsRecord` are the
fields of an `InputModel` and of an evidence record, and what each may hold.
`Rounded` is the two decimals an input box for a decimal gets from ASP.NET Core.  A posted form is
one step with the round it starts.

In `ReleaseInstants`, `submittedAt`, `phase` and `changedAt` are a release's row.
A transition is compared with the instant of the release as it is rehydrated from
that row (`PhaseChangedAt`).  For a release in `Evaluating` that is
`Release.Create`, hence the submission's instant, also in later rounds
(`ApplicationDataService.cs:376`): there an approval request or a failure is only
refused if it predates the submission, and after a setback of the clock the row's
instant may go back.  In the other phases it is the row's own instant, and
rehydrating itself refuses a row that predates its submission
(`ReleaseIsReadable`).  A round is compared with its start, not with its phase.

### Faults

`Faults` selects what the environment may do: `crash` (the process restarts;
SQLite and files stay), `cancel` (RequestAborted at any step), `commit`
(SaveChangesAsync throws; nothing persisted, rows stay tracked), `checkpoint`
(a file lost or corrupt), `technical` (an exception at any step of a turn),
`transient` (a provider exhausts its attempts).  A clock set back, which several
constructors refuse, has the effect of `technical`; `ReleaseInstants` has the
clock itself (`setback`).  In `BranchFanOut`, `transient` is a single failed
attempt, `technical` a read or write that throws, `cancel` the client that goes
away at any await.

## Runs

| Run | Instance | Question |
|---|---|---|
| `faults` | 1 release, 2 handlers, 1 check, 2 rounds, 2 form ids, all faults | does safety survive any interleaving of two requests and any fault? |
| `evidence` | 1 handler, 2 checks, 3 rounds, `transient` | are reuse and approvals justified over every history of two checks? |
| `forms` | 2 handlers, 1 check, 3 rounds, `technical` | do forms of any age only ever act on the question they answer; is a wait resumable? |
| `liveness` | 2 handlers, `technical`, `checkpoint`, FairSpec | is every request answered, does every evaluation end? |
| `lifecycle` | 2 releases, 2 handlers, 2 rounds, no faults | the inductive invariant and the refinement across releases |
| `fan_out` | 2 branches, 2 rounds, all faults, FairSpec | has the DbContext of a request ever two users; is the retry exact; is anything refused; is a turn of branches one evaluation; does it end? |
| `evidence_forms` | 3 sections, 2 rounds, half seconds, repeated hour inside the window | the policy table, edits, untouched sections and demo values, and the invariant they are proved from |
| `clock` | 2 requests, 3 rounds, 5 instants, `technical`, `setback` | is an instant of a healthy turn ever refused, a failure ever lost; do rounds stay in order and the row readable? |
| `stale_form`, `restart`, `duplicate`, `fine_rate` | small | a documented promise the code does not keep (below) |

`evidence` and `forms` also check that `ReleaseWorkflow` implements
`RoundEvaluation`, `fan_out` that `BranchFanOut` does.

Deadlock is checked in every run of `ReleaseWorkflow`: a client may always ask
something.  The other modules end: an approved or failed release, a clock at its
bound and a form after the last round have nothing left to do.

Bounds.  `MaxRounds` only guards posting a remediation; every other counter
(versions, requests, timeline) follows from it.  Two handlers are enough for
every race found in the code, since a handler interacts with others only
through the rows and the gate: one that holds the gate, one that read before.
Three rounds are needed for a reuse of a reuse, and for a form two questions
old; two checks for a round in which one check is reused and the other is not;
two form ids to tell a replay from another decision.  Two releases share
nothing but the gate.  Two verdicts: a policy's other outcomes are treated like
`Blocked` everywhere in the workflow.  The theorems below have no bounds.

`BranchFanOut` has two of the code's three branches, which is what two readers,
a barrier that waits for one that failed and results in either order need; a
second round for reuse; and one verdict, since a round with missing evidence or
an exhausted provider is answered like a blocked one.  That three branches add
nothing to the exclusion of readers is proved.  In `EvidenceForm` the inputs are
a ready section and those that differ from it in one fact, on both sides of each
bound and on it (94.999 and 95; expiries and windows on both sides of the end of
the deployment, one of them between two seconds); the repeated hour, which is as
short as a second there, falls into the deployment window; two rounds,
for a form that is filled in from a record.  `MaxTime` stops the clock of
`ReleaseInstants`: five instants.  What follows from longer times is proved.

Symmetry permutes handlers, checks and form ids; no CHOOSE depends on them, and
the runs with liveness do not use it.

Fairness (`FairSpec`): a running handler goes on (`WF` of its work: tasks on the
thread pool), and a handler that waits for the gate gets it if it is free again
and again (`SF` of `AcquireGate`: SemaphoreSlim queues its asynchronous waiters).
Nothing is assumed of clients or faults.  Without `commit` faults, since a
failure that cannot be recorded does leave a release in `Evaluating`.
In `BranchFanOut`, `FairSpec` has the same two parts: what was started runs on
(`WF` of each branch and of the turn's own steps), and a branch in the queue of
the evidence gate gets it if it comes free again and again (`SF`).  Providers
may fail for ever; the bound on attempts, not fairness, ends a retry.

### What the runs showed

Four documented promises do not hold; each has a run with the shortest
counterexample:

1. `stale_form`: a second tab's remediation form, checked against its token
   before the gate, fails behind it, and the failure handler marks the healthy
   release `Failed` (`ReleaseWorkflowService.cs:204`), although
   `src/docs/architecture.md:261` says a stale form "produces no new business
   record".
2. `restart`: a crash or cancellation between the commit of a request row and
   of the correlation row leaves a release that waits and cannot be resumed
   (`ReleaseWorkflowService.cs:61`); `src/SPEC.md:75` promises restoration.
3. `duplicate`: of two concurrent submissions of one identifier the loser gets
   an unhandled database exception instead of the conflict of `src/SPEC.md:91`.
4. `fine_rate`: a rate of 94.996 is filled in as 95.00; posting the blocked
   section untouched records a new version, which passes
   (`Remediate.cshtml.cs:302`).  `src/docs/architecture.md:158`: "unchanged
   fields create no replacement".  Where the form has room for the record,
   `UntouchedStays` holds.

Three more places where a property needs its condition.  `FormFits` allows a
section whose times are whole seconds and whose rate has two decimals.  An
exception's expiry may be typed with a fraction of a second
(`EvidenceFormParsing.cs:81`) and is filled in without it
(`Remediate.cshtml.cs:369`): posting the section untouched records a version with
an earlier expiry, against the same sentence of `architecture.md` as `fine_rate`.
`evidence_forms` has such an expiry; without its `IsWhole` conjunct
`UntouchedStays` fails there.  The verdict stays: the window the expiry is compared
with has whole seconds (`ReadIsNotBefore`).  `FormFits` also excludes an expiry,
typed as UTC, in the first pass of the hour the local clock repeats: it is filled in
without a zone, read back an hour later (`LocalDateTimeDisplay.cs:10`), and a
passed section nobody touched gets a new version.  And once the clock has been
set back during a turn, the domain may refuse the turn's instant and then that of
its failure (`Domain/Releases.cs:128`): if the clock is then before the
submission, the release stays `Evaluating`, which no operation takes up again;
hence `~wasSetBack` in `FailureIsRecorded`.

Three observations from building the model.  Letting turns start without the gate
breaks `TurnsExclude` and `IInv` at once but not `ImplementsLifecycle`: the phase
checks of the data service alone keep the abstract lifecycle, the gate is what
keeps healthy turns from failing.  And `RequireMutableRelease` does not refuse
a `Failed` release; that ends are final rests on the phase checks, on the reads
under the gate, and on the early return of `MarkFailedAsync`.  And since a
release in `Evaluating` forgets the instant of its phase, a setback of the clock
after the first round can date the request for approval before the round it is
about; what is kept even then is `RoundsInOrder` and `ReleaseIsReadable`.

Every property of a passing run has a mutant: a plausible bug in a mapped
definition under which TLC finds the property violated.

## Proofs

For every number of releases, handlers, checks, form ids and rounds, every set
of verdicts and every set of faults, from each module's `ConstantsAssumption`,
TLAPS checks (the forms need three assumptions more, below):

- `TypeCorrect`: `Spec => []TypeOK`.
- `InvariantCorrect`: `Spec => []IInv`, and from it `TurnsExcludeCorrect`,
  `OneOpenQuestionCorrect`, `TurnFindsWhatItLeftCorrect`.
- `EndedIsFinalCorrect` and `FailureKeepsHistoryCorrect`: action properties,
  from `IInv` and what each action writes.
- `ApprovalCoversCurrentEvidenceCorrect`, `ReuseIsJustifiedCorrect`,
  `AcceptedFormsFitCorrect`, `TimelineAccountsForRowsCorrect`.
- `DecisionReplyIsTrueCorrect`, `RemediationReplyIsTrueCorrect`: action properties.
- `WaitIsResumableCorrect`, under the assumption `NothingIsCutShort`: no `crash`,
  `cancel`, `commit` or `checkpoint` among the faults.  The run `restart` shows
  what happens without it.
- `ImplementsLifecycleCorrect` and `ImplementsEvaluationCorrect`: the workflow
  implements both abstract specifications.
- `BranchFanOut_proofs`: `OneReaderCorrect`, `RetriesAreExactCorrect`,
  `ResultsAreAcceptedCorrect` and `ImplementsEvaluationCorrect`, for any number of
  branches, verdicts and rounds and any faults.
- `ReleaseInstants_proofs`: `TypeCorrect`, `RoundsInOrderCorrect` and
  `ReleaseIsReadableCorrect`, whatever the clock does;
  `NothingIsRefusedCorrect`, `TimelineInOrderCorrect` and
  `FailureIsRecordedCorrect`, which speak of a clock that has not been set back.
- `EvidenceForm_proofs`: `TypeCorrect`, `InvariantCorrect`, `ResultIsTheTablesCorrect`,
  `EditIsRecordedCorrect`, `UntouchedStaysCorrect` and `DemoIsReadyCorrect`, for any
  inputs, deployment window, unit of time and number of rounds, wherever the
  repeated hour is.

The argument.  `OneOpenQuestion` alone is not inductive: that `OpenRemediation`
puts a question about a round that has none needs to know that the turn's round
is the latest one and that the phase is still `Evaluating`
(`TurnFindsWhatItLeft`).  That in turn needs that nobody else has written the
release since the turn's last step, i.e. that turns exclude each other
(`TurnsExclude`), and for a first turn, which reads nothing before it plans,
that the release it created is untouched while it waits in the queue and that
no second handler starts it (`JobFits`, `OneStarts`).  `IInv` is the conjunction.
The proof splits into what the new rows satisfy (`AnsweredAgrees`,
`EvaluatedAgrees`, `AskedAgrees`, `DecidedAgrees`, `FailedAgrees`,
`CorrelatedAgrees`), two frame lemmas for a step of one handler that does not
write (`QuietStep`) or writes its own release (`WriteStep`), and one lemma per
action.  TLC checked `IInv` on the `lifecycle` instance, and on that of
`faults`, before it was proved.

Each of the properties built on `IInv` needs more than it says.

- `EInv` (evidence): an approval is about the latest round, but that its results
  are on *current* evidence is known only while the round is being made.  So the
  invariant speaks of every round on record (a reused result names an earlier
  round that passed the same record, a passed one a version whose verdict is
  `Passed`), of results a turn has but has not saved, and says that evidence
  moves only with an answer, which the latest round of a waiting approval lacks.
- `FormsInv` (forms): while the question a form answers is open, the versions
  its first read found are still the current ones, because evidence moves only
  with the answer to a question, and a question is answered once.
- `RInv` (refinement): rounds and answers alternate, so that the length of
  `rounds` and the number of `submissions` are the abstract counters, and the
  results a turn holds are among those `RoundEvaluation` allows.
- `TInv` (timeline): phases tell once and for good whether a decision or a failure
  is on record; the rest is that each action adds rows and entries together, which
  is a fact about cardinalities of the sets it adds to.
- `WInv` (waits): when the three stores do not agree on a wait, the holder of the
  gate is at a step that writes the missing one or marks the release failed.
- `AInv` (replies): a form whose records were saved stays the last thing that
  happened to its release, but for the round it started; a decision is at the
  steps of one.

TLC checked each of them before its proof, on the instances of the runs
`evidence`, `forms` and `faults` (`WInv` on the first two, whose faults do not cut
a turn short).

`OneReader` needs two more facts to be inductive: that the slot of the gate is
taken by exactly the branch that reads (`SlotIsHeld`), which makes a branch that
enters the only one; and that outside the superstep and its disposal no branch
is running (`BranchesEnd`), which is what the barrier and the disposal of the
run are for.  `NothingIsRefused` follows from one invariant (`HInv`): until
the clock is set back, every instant on record is no later than the clock, and
that of a queued form whose question is still open is no earlier than the
phase's.  The second half is the reason why reading the clock before queueing is
harmless: while the question a form answers is open, no phase has begun since
the form was dated.  That an instant no earlier than the phase's is not refused
either in `Evaluating`, where it is compared with the submission's, is
`ReleaseIsReadable` (`NotRefused`).

The two that hold after a setback, too, rest on `RInv`.  `RoundsInOrder` needs that
every round on record was completed by the time its phase began when it waits for
remediation, and by its start when the next one runs: the request for remediation
bears the round's own completion, and in `WaitingForRemediation` the answer is
compared with it.  `ReleaseIsReadable` is inductive as it stands: an instant is
compared with the submission's, or with one that is no earlier.

The other theorems about the branches rest on `FInv`.  It follows a result from
the branch to the round: a branch's work is what the planner makes of the latest
round and the current evidence, which nothing moves before the turn has ended;
what it sends is a result `RoundEvaluation` allows for that work; no branch is
twice on the fan-in edge and in the aggregator's list together.  A list of as
many results as there are branches then has one for each (`EveryBranchSent`, by
counting), and the choices of reason the branches were given one by one are
together a choice of checks to rerun.  That a reuse is never refused needs one
fact more: a result that passed names a record.  TLC checked `FInv` on the
instance of `fan_out`, and with a second verdict.

The forms.  TLC tries a table of inputs around each bound; the theorems are about
every input, and what they rest on are facts about the conversions:

- A local time is read as an instant that is shown as this local time
  (`ReadIsInstant`), and the other way round an instant of a whole second comes
  back as it was but for the first pass of the repeated hour (`ShownIsRead`).  An
  hour has whole seconds, so dropping a fraction does not leave it
  (`HourIsWhole`, `SecondShown`).  A rate comes back if it
  has two decimals, and rounding never takes a rate below the minimum
  (`RateShown`).  So a record comes back through the form where the form has room
  for it (`RecordReturns`), and a record that passes comes back as one that passes
  even where it has not (`PassingReturns`): the repeated hour only moves an expiry
  to a later instant, and the fraction it may lose never takes it before the end of
  the deployment, which is itself read from a form (`ReadIsNotBefore`).
  `DemoIsReady` needs the second one, since the checks without
  a problem are posted as they were filled in.
- The policies compare the ends of the window, the table of `src/SPEC.md` speaks of
  every instant of it; `VerdictIsTheTables` shows that they agree on every record,
  and needs that the window is not empty.
- Comparing fact by fact (`HasChanges`) finds a difference exactly if the records
  differ (`ChangesAreSeen`), which needs that both have the fields of one section.

The inductive invariant (`IInv` of `EvidenceFormProperties`) adds to `TypeOK` that
every result is the verdict on the record that is current.  For a reused result
this holds since its version is the length of the history and histories only grow
(`ResultInRound`): equal length means equal history.  That needs to know that
before the first round there is no result to reuse, and that a form is open only
if a round may follow.  `IInv` is an invariant of the run `evidence_forms`.

Their assumptions: `InputsAssumption` (what may be typed has the fields of an
`InputModel`), `AbsentAssumption` (null is none of the values a field may have),
and `WindowAssumption` (the deployment window was typed as two local times of whole
seconds in order, as the boxes of the New page and `UtcInterval` require: an end in
the first pass of the repeated hour cannot be typed, and one with a fraction of a
second only without the browser's help).  TLC evaluates them with the run's constants.

So every safety invariant, every action property and every refinement that a
passing run checks is proved.  Only model-checked: the liveness properties
(`HandlersReturn`, `EvaluationEnds`, `TurnEnds`), which are out of this prover's
reach, and the counterexamples of the four documented promises.

## Not modelled, and why

- Texts: a version, a finding or a scope is the value it is compared with, so
  separators inside a text, blank lines and the length limits of the remediation
  form are left out; so is the script that ticks the rerun boxes, since a rerun
  selection is any set of checks.
- The order of a list: failures and findings are sets, so putting a list into
  another order, which `SameItems` takes for an edit, is not one of the model's.
- The hour a local clock skips: a time typed in it does not exist, and what is on
  record is never shown as one.
- Timeline sequence numbers in `ReleaseWorkflow`: an entry is appended.  Reading
  the next number and writing the rows are in one turn, which `TurnsExclude` keeps
  from overlapping.
- Constructor checks on texts and identities in the domain records: they refuse
  what the code never builds.
- Operation keys replayed with different content: the pages draw fresh keys, or
  keys named by round; only "already on record" replays are modelled.
- The framework: what it checkpoints, that a run halts when it has nothing left
  to do, and that disposing a run waits for its executors is taken from how the
  coordinator uses it (external in the map).
- Reads outside a turn that throw: the request ends with nothing done, and says
  nothing.  Detail page, fixtures, start-up: no state change.  `wwwroot` holds
  no code.

## Plan

What is left: the order of the event stream and the checkpoint of a superstep
(`ContinueAfterRemediationAsync` does not drain the stream), if the framework's
behaviour can be settled from its use.
