----------------------------- MODULE EvidenceForm ---------------------------
(***************************************************************************)
(* How evidence gets from a form into a record, from the record back into  *)
(* the next form, and what the policies make of it.  A release is          *)
(* submitted with the New page; while a check has a problem, the           *)
(* remediation page shows the current records as text, the submitter edits *)
(* some of it, and the post must find out which sections were edited.      *)
(*                                                                         *)
(* A form shows local times without a zone, to the second, and a rate      *)
(* rounded to two decimals; what it reads may be finer.  One release and   *)
(* one form at a time: what two forms do to each other is in               *)
(* ReleaseWorkflow.  A post is one step, with the turn it starts.          *)
(***************************************************************************)
EXTENDS Sequences, FiniteSets, ReadinessPolicies

CONSTANTS
    Sections,        \* the sections of the form in scope, see AllSections
    TestInputs,      \* what may be typed into each of them
    SecurityInputs,
    ChangeInputs,
    Texts,           \* versions, findings, suites and scopes
    Second,          \* how many of the units of time make a second
    Fold,            \* the instant at which the local clock is set back
    Hour,            \* by how much
    MaxRounds        \* bound: no form is opened after this many rounds

AllSections == {"Test", "Security", "Change"}

ASSUME ConstantsAssumption ==
    /\ Sections \subseteq AllSections
    /\ Second \in Nat \ {0}
    /\ Fold \in Int /\ Fold % Second = 0
    /\ Hour \in Nat \ {0} /\ Hour % Second = 0
    /\ MaxRounds \in Nat \ {0}
    /\ ReleaseVersion \in Texts
    /\ Window.start \in Int
    /\ Window.end \in Int

VARIABLES
    records,  \* each section's evidence records by version
    results,  \* the result of each section's check in the latest round
    round,    \* how many rounds there are
    page,     \* what the submitter looks at
    inputs    \* what its form says now

vars == <<records, results, round, page, inputs>>

\* "release" is its page when it waits for remediation, "decision" for a
\* reviewer; "demo" is the remediation form with values that are ready.
Pages == {"new", "release", "remediate", "demo", "decision"}

Inputs(s) ==
    CASE s = "Test"     -> TestInputs
      [] s = "Security" -> SecurityInputs
      [] s = "Change"   -> ChangeInputs

OrAbsent(S) == S \cup {Absent}

\* The kinds of a section's fields.  An exception is for one finding.
IsForm(s, i) ==
    CASE s = "Test" ->
           i \in [version : OrAbsent(Texts), completed : OrAbsent(Int),
                 rate : OrAbsent(Int), failures : SUBSET Texts]
      [] s = "Security" ->
           /\ DOMAIN i.exceptions \subseteq Texts
           /\ i \in [version : OrAbsent(Texts), scanned : OrAbsent(Int),
                    critical : SUBSET Texts, high : SUBSET Texts,
                    exceptions : [DOMAIN i.exceptions ->
                        [scope : Texts, utc : BOOLEAN, at : Int]]]
      [] s = "Change" ->
           i \in [approved : BOOLEAN, start : OrAbsent(Int), end : OrAbsent(Int)]

ASSUME InputsAssumption ==
    \A s \in AllSections : \A i \in Inputs(s) : IsForm(s, i)

\* null is none of the values a field may have otherwise.
ASSUME AbsentAssumption ==
    /\ Absent \notin Int
    /\ Absent \notin BOOLEAN
    /\ Absent \notin Texts
    /\ Absent \notin [start : Int, end : Int]
    /\ \A D \in SUBSET Texts :
           Absent # D /\ Absent \notin [D -> [scope : Texts, expires : Int]]
-----------------------------------------------------------------------------
(* Conversions.  The local clock shows the hour before Fold again after    *)
(* it; a time in that hour is read as one in the second pass.              *)

ToLocal(instant) == IF instant < Fold THEN instant ELSE instant - Hour

FromLocal(local) == IF local < Fold - Hour THEN local ELSE local + Hour

ToSecond(time) == time - (time % Second)

\* A time as every box of the form shows it: local, without the fraction of
\* the second (LocalDateTimeDisplay.TextFormat, asp-format).
Displayed(instant) == ToSecond(ToLocal(instant))

DisplayedOrAbsent(instant) == IF instant = Absent THEN Absent ELSE Displayed(instant)

FirstPass == Fold - Hour .. Fold - 1

\* 100 percent.
MaximumRate == 100000

\* The instants a local time is read as; an expiry may be any other, too.
Instants == Int \ FirstPass

\* The fields of the records that ToEvidence makes.
IsRecord(s, e) ==
    CASE s = "Test" ->
           /\ e \in [version : OrAbsent(Texts), completed : OrAbsent(Instants),
                    rate : OrAbsent(Nat), failures : SUBSET Texts]
           /\ e.rate # Absent => e.rate <= MaximumRate
      [] s = "Security" ->
           /\ DOMAIN e.exceptions \subseteq Texts
           /\ e \in [version : OrAbsent(Texts), scanned : OrAbsent(Instants),
                    critical : SUBSET Texts, high : SUBSET Texts,
                    exceptions : [DOMAIN e.exceptions -> [scope : Texts, expires : Int]]]
      [] s = "Change" ->
           e \in [approved : BOOLEAN,
                 window : OrAbsent([start : Instants, end : Instants])]

\* EvidenceFormParsing.Instant.
Instant(local) == IF local = Absent THEN Absent ELSE FromLocal(local)

\* The deployment window was itself typed as two local times in boxes that
\* take whole seconds (step="1"), and the constructor of UtcInterval took it.
ASSUME WindowAssumption ==
    /\ Window.start <= Window.end
    /\ FromLocal(Displayed(Window.start)) = Window.start
    /\ FromLocal(Displayed(Window.end)) = Window.end

\* A rate as the input box shows it: percent with two decimals.
Rounded(rate) == IF rate = Absent THEN Absent ELSE ((rate + 5) \div 10) * 10

\* An exception's expiry is typed as local time or, with a suffix, as UTC; the
\* last form TryParseExpiry tries also reads fractions of a second.
Expiry(typed) == IF typed.utc THEN typed.at ELSE FromLocal(typed.at)

\* Mutant: the expiry is shown in UTC, without a suffix.
ShownInUtc(exception) ==
    [scope |-> exception.scope, utc |-> FALSE, at |-> ToSecond(exception.expires)]

\* FormatExceptions: one line per exception, in local time, to the second.
ShownException(exception) ==
    [scope |-> exception.scope, utc |-> FALSE, at |-> Displayed(exception.expires)]

\* OptionalInterval, and the constructor of UtcInterval.
WindowIsWhole(i) ==
    \/ i.start = Absent /\ i.end = Absent
    \/ /\ i.start # Absent
       /\ i.end # Absent
       /\ FromLocal(i.start) <= FromLocal(i.end)

WindowOf(i) ==
    IF i.start = Absent THEN Absent
    ELSE [start |-> FromLocal(i.start), end |-> FromLocal(i.end)]

\* ToEvidence, for one section.
ToRecord(s, i) ==
    CASE s = "Test" ->
           [version |-> i.version, completed |-> Instant(i.completed),
            rate |-> i.rate, failures |-> i.failures]
      [] s = "Security" ->
           [version |-> i.version, scanned |-> Instant(i.scanned),
            critical |-> i.critical, high |-> i.high,
            exceptions |-> [f \in DOMAIN i.exceptions |->
                [scope |-> i.exceptions[f].scope, expires |-> Expiry(i.exceptions[f])]]]
      [] s = "Change" -> [approved |-> i.approved, window |-> WindowOf(i)]

\* An untouched section without a record; its lists are blank.
Blank(s) ==
    CASE s = "Test" ->
           [version |-> Absent, completed |-> Absent, rate |-> Absent, failures |-> {}]
      [] s = "Security" ->
           [version |-> Absent, scanned |-> Absent, critical |-> {}, high |-> {},
            exceptions |-> <<>>]
      [] s = "Change" -> [approved |-> FALSE, start |-> Absent, end |-> Absent]

\* InputModel.From, for a section with a record.
Shown(s, e) ==
    CASE s = "Test" ->
           [version |-> e.version, completed |-> DisplayedOrAbsent(e.completed),
            rate |-> Rounded(e.rate), failures |-> e.failures]
      [] s = "Security" ->
           [version |-> e.version, scanned |-> DisplayedOrAbsent(e.scanned),
            critical |-> e.critical, high |-> e.high,
            exceptions |-> [f \in DOMAIN e.exceptions |-> ShownException(e.exceptions[f])]]
      [] s = "Change" ->
           [approved |-> e.approved,
            start |-> IF e.window = Absent THEN Absent ELSE Displayed(e.window.start),
            end |-> IF e.window = Absent THEN Absent ELSE Displayed(e.window.end)]

ReadyRate == 99000

\* Mutant: the demo window ends an hour early.
ReadyButShort(s) ==
    CASE s = "Test" ->
           [version |-> ReleaseVersion, completed |-> Displayed(Window.start),
            rate |-> ReadyRate, failures |-> {}]
      [] s = "Security" ->
           [version |-> ReleaseVersion, scanned |-> Displayed(Window.start),
            critical |-> {}, high |-> {}, exceptions |-> <<>>]
      [] s = "Change" ->
           [approved |-> TRUE, start |-> Displayed(Window.start),
            end |-> Displayed(Window.start)]

\* ApplyReadyDemo; the time of the test and of the scan is not compared.
Ready(s) ==
    CASE s = "Test" ->
           [version |-> ReleaseVersion, completed |-> Displayed(Window.start),
            rate |-> ReadyRate, failures |-> {}]
      [] s = "Security" ->
           [version |-> ReleaseVersion, scanned |-> Displayed(Window.start),
            critical |-> {}, high |-> {}, exceptions |-> <<>>]
      [] s = "Change" ->
           [approved |-> TRUE, start |-> Displayed(Window.start),
            end |-> Displayed(Window.end)]
-----------------------------------------------------------------------------
(* Sections.                                                               *)

HasRecord(s) == records[s] # <<>>
Current(s) == records[s][Len(records[s])]
Problem(s) == results[s].outcome # Passed

\* The section as the remediation page renders it.
Prefilled(s) == IF HasRecord(s) THEN Shown(s, Current(s)) ELSE Blank(s)

\* ParseExceptions and OptionalInterval may refuse, and so does the range
\* of a rate.
Accepted(s, i) ==
    /\ s = "Test" => i.rate = Absent \/ i.rate \in 0 .. MaximumRate
    /\ s = "Change" => WindowIsWhole(i)

\* ValidateAvailableEvidence of the New page.
Complete(s, i) ==
    CASE s = "Test"     -> i.version # Absent /\ i.completed # Absent /\ i.rate # Absent
      [] s = "Security" -> i.version # Absent /\ i.scanned # Absent
      [] s = "Change"   -> i.start # Absent /\ i.end # Absent

\* Mutant: exceptions are compared by the findings they are for.
SameFindings(posted, current) == DOMAIN posted = DOMAIN current

SameExceptions(posted, current) == posted = current

SameTest(posted, current) ==
    /\ posted.version = current.version
    /\ posted.completed = current.completed
    /\ posted.rate = current.rate
    /\ posted.failures = current.failures

\* HasTestEvidenceChanges, HasSecurityEvidenceChanges and
\* HasChangeEvidenceChanges compare what was posted with the current record,
\* fact by fact; without one, any input is a change.
HasChanges(s, i) ==
    LET posted == ToRecord(s, i)
        current == Current(s) IN
    IF ~HasRecord(s) THEN i # Blank(s)
    ELSE CASE s = "Test" -> ~SameTest(posted, current)
           [] s = "Security" ->
                \/ posted.version # current.version
                \/ posted.scanned # current.scanned
                \/ posted.critical # current.critical
                \/ posted.high # current.high
                \/ ~SameExceptions(posted.exceptions, current.exceptions)
           [] s = "Change" ->
                \/ posted.approved # current.approved
                \/ posted.window # current.window
-----------------------------------------------------------------------------
(* Operations.                                                             *)

Init ==
    /\ records = [s \in Sections |-> <<>>]
    /\ results = [s \in Sections |-> NoResult]
    /\ round = 0
    /\ page = "new"
    /\ inputs = [s \in Sections |-> Blank(s)]

\* The round a turn adds: RoundPlanner and the branches, on these histories.
RunRound(histories, rerun) ==
    /\ records' = histories
    /\ round' = round + 1
    /\ results' = [s \in Sections |->
           Evaluate(results[s], s \in rerun,
                    [v \in 1 .. Len(histories[s]) |-> Verdict(s, histories[s][v])],
                    FALSE, round + 1)]
    /\ page' = IF \A s \in Sections : results'[s].outcome = Passed
               THEN "decision" ELSE "release"
    /\ inputs' = [s \in Sections |-> Blank(s)]

(* NewModel.OnPostAsync: the sections marked as available become records. *)
Submit ==
    /\ page = "new"
    /\ \E included \in SUBSET Sections :
       \E typed \in [included -> UNION {Inputs(s) : s \in Sections}] :
           /\ \A s \in included :
                  typed[s] \in Inputs(s) /\ Accepted(s, typed[s]) /\ Complete(s, typed[s])
           /\ RunRound([s \in Sections |->
                  IF s \in included THEN <<ToRecord(s, typed[s])>> ELSE <<>>], {})

(* RemediateModel.OnGetAsync, also by the link to the ready demo evidence. *)
OpenForm(demo) ==
    /\ page = "release"
    /\ round < MaxRounds
    /\ page' = IF demo THEN "demo" ELSE "remediate"
    /\ inputs' = [s \in Sections |->
           IF demo /\ Problem(s) THEN Ready(s) ELSE Prefilled(s)]
    /\ UNCHANGED <<records, results, round>>

(* The submitter types into a section.  (External: the browser.) *)
Edit(s) ==
    /\ page \in {"remediate", "demo"}
    /\ \E i \in Inputs(s) : inputs' = [inputs EXCEPT ![s] = i]
    /\ UNCHANGED <<records, results, round, page>>

(* RemediateModel.OnPostAsync and the turn it starts.  A form that is not  *)
(* accepted is shown again as it is: nothing changes.                      *)
Post ==
    /\ page \in {"remediate", "demo"}
    /\ \A s \in Sections : Accepted(s, inputs[s])
    /\ \E rerun \in SUBSET Sections :
           RunRound([s \in Sections |->
               IF HasChanges(s, inputs[s])
               THEN Append(records[s], ToRecord(s, inputs[s])) ELSE records[s]], rerun)

Next ==
    \/ Submit
    \/ \E demo \in BOOLEAN : OpenForm(demo)
    \/ \E s \in Sections : Edit(s)
    \/ Post

Spec == Init /\ [][Next]_vars
=============================================================================
