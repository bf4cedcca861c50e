------------------------ MODULE EvidenceFormProperties ----------------------
(***************************************************************************)
(* What the forms and the policies must get right together.                *)
(***************************************************************************)
EXTENDS EvidenceForm

\* A section's history: a sequence of its records.
IsHistory(s, h) ==
    /\ h \in Seq({h[v] : v \in DOMAIN h})
    /\ \A v \in DOMAIN h : IsRecord(s, h[v])

\* Records and forms keep their kinds; every result names the record that is
\* current and, if it is reused, an earlier round; a form is only open while a
\* check has a problem (New.cshtml.cs and Remediate.cshtml.cs, with ResultReuse).
TypeOK ==
    /\ DOMAIN records = Sections
    /\ DOMAIN inputs = Sections
    /\ round \in 0 .. MaxRounds
    /\ page \in Pages
    /\ \A s \in Sections :
           /\ IsHistory(s, records[s])
           /\ IsForm(s, inputs[s])
           /\ results[s].version = (IF round = 0 THEN 0 ELSE Len(records[s]))
           /\ results[s].source \in {Executed} \cup 1 .. round - 1
    /\ page \in {"release", "remediate", "demo"} =>
           \E s \in Sections : Problem(s)
-----------------------------------------------------------------------------
(* The policy table of the specification (SPEC.md, section 7), stated over *)
(* the instants of the deployment window.                                  *)

Deployment == Window.start .. Window.end

MissesFacts(s, e) ==
    CASE s = "Test"     -> \E fact \in {"version", "completed", "rate"} : e[fact] = Absent
      [] s = "Security" -> \E fact \in {"version", "scanned"} : e[fact] = Absent
      [] s = "Change"   -> e.window = Absent

\* A high finding is covered at an instant if an exception for this finding
\* and this service is still valid then.
CoveredAt(e, finding, t) ==
    \E f \in DOMAIN e.exceptions :
        f = finding /\ e.exceptions[f].scope = ServiceName /\ t <= e.exceptions[f].expires

IsReady(s, e) ==
    CASE s = "Test" ->
           e.version = ReleaseVersion /\ 100 * e.rate >= 95 * 100000 /\ e.failures = {}
      [] s = "Security" ->
           /\ e.version = ReleaseVersion
           /\ e.critical = {}
           /\ \A finding \in e.high, t \in Deployment : CoveredAt(e, finding, t)
      [] s = "Change" ->
           e.approved /\ \A t \in Deployment : e.window.start <= t /\ t <= e.window.end

\* Each check's latest result, executed or reused over any number of rounds,
\* is what the table says of the record that is current: Passed exactly if
\* the record is complete and every instant of the deployment is covered
\* (TestPolicy, SecurityPolicy, ChangePolicy.Evaluate with RoundPlanner).
ResultIsTheTables ==
    round > 0 => \A s \in Sections :
        results[s].outcome =
            IF ~HasRecord(s) \/ MissesFacts(s, Current(s)) THEN MissingEvidence
            ELSE IF IsReady(s, Current(s)) THEN Passed ELSE Blocked

\* What makes TypeOK and ResultIsTheTables inductive: before the first round
\* nothing has a result, a form is open only if its post may start a round,
\* and a result, executed or reused, is the verdict on the current record.
IInv ==
    /\ TypeOK
    /\ page = "new" <=> round = 0
    /\ page \in {"remediate", "demo"} => round < MaxRounds
    /\ \A s \in Sections :
           IF round = 0 THEN results[s] = NoResult
           ELSE results[s].outcome =
                    IF HasRecord(s) THEN Verdict(s, Current(s)) ELSE MissingEvidence
-----------------------------------------------------------------------------
\* A remediation form was posted and accepted.
Posted == page \in {"remediate", "demo"} /\ round' = round + 1

\* What is typed means something else than what is on record.
MeansChange(s) ==
    IF HasRecord(s) THEN ToRecord(s, inputs[s]) # Current(s) ELSE inputs[s] # Blank(s)

\* A post appends to each section whose input means something else than the
\* current record one version, which says what was typed, and leaves every
\* other section alone: no edited fact is overlooked, none is invented
\* (the HasChanges methods and ToEvidence of Remediate.cshtml.cs).
EditIsRecorded ==
    [][Posted => \A s \in Sections :
           records'[s] = IF MeansChange(s)
                         THEN Append(records[s], ToRecord(s, inputs[s]))
                         ELSE records[s]]_vars

\* The submitter left the section as the record fills it in.
Untouched(s) == inputs[s] = Prefilled(s)

IsWhole(time) == time = Absent \/ time % Second = 0

\* The form has room for a record: no time finer than a second, no finer rate
\* than two decimals, and no expiry in the first pass of the hour the local
\* clock repeats.
CanBeShown(s, e) ==
    CASE s = "Test" -> IsWhole(e.completed) /\ (e.rate = Absent \/ e.rate % 10 = 0)
      [] s = "Security" ->
           /\ IsWhole(e.scanned)
           /\ \A f \in DOMAIN e.exceptions :
                  /\ IsWhole(e.exceptions[f].expires)
                  /\ e.exceptions[f].expires \notin FirstPass
      [] s = "Change" ->
           e.window = Absent \/ (IsWhole(e.window.start) /\ IsWhole(e.window.end))

FormFits(s) == HasRecord(s) => CanBeShown(s, Current(s))

\* Posting a section as it was filled in adds no version and keeps a passing
\* result on the same record, wherever the form can show the record exactly:
\* filling in and reading back are inverse there, whatever the time zone does
\* (InputModel.From and ToEvidence, LocalDateTimeDisplay, EvidenceFormParsing).
UntouchedStays ==
    [][Posted => \A s \in Sections :
           Untouched(s) /\ FormFits(s) =>
               /\ records'[s] = records[s]
               /\ results'[s].outcome = results[s].outcome
               /\ results'[s].version = results[s].version]_vars

\* What the ready demo link offers is ready: posted as offered it leaves no
\* problem, also where the local clock repeats an hour of the deployment
\* window (ApplyReadyDemo, with the three policies).
DemoIsReady ==
    [][Posted /\ page = "demo"
           /\ (\A s \in Sections : inputs[s] = IF Problem(s) THEN Ready(s) ELSE Prefilled(s))
       => page' = "decision"]_vars
-----------------------------------------------------------------------------
(* What the documentation says, and the code does not do.                  *)

\* "Unchanged fields create no replacement": a section with a problem does
\* not come to pass by being posted as it was filled in (architecture.md:158).
UntouchedStaysBlocked ==
    [][Posted => \A s \in Sections :
           Untouched(s) /\ Problem(s) => results'[s].outcome # Passed]_vars
=============================================================================
