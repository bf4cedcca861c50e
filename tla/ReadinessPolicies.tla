-------------------------- MODULE ReadinessPolicies -------------------------
(***************************************************************************)
(* What the three readiness policies say of an evidence record: a pure     *)
(* function of the submission and the record, compared at exact bounds.    *)
(*                                                                         *)
(* Instants and rates are numbers; a rate counts thousandths of a percent. *)
(* A version string is what it is compared with, or another one.  Absent   *)
(* stands for null.                                                        *)
(***************************************************************************)
EXTENDS Integers, RoundPlanning

CONSTANTS
    Absent,          \* null
    ReleaseVersion,  \* the submission's version
    ServiceName,     \* the submission's service
    Window           \* the submission's deployment window, [start, end]

Blocked == "Blocked"

\* TestPolicy.MinimumPassRate.
MinimumPassRate == 95000

\* Every policy: a missing fact comes first, a blocker next.
Classify(missing, blocked) ==
    IF missing THEN MissingEvidence ELSE IF blocked THEN Blocked ELSE Passed

RateIsLow(rate) == rate < MinimumPassRate

TestVerdict(e) ==
    Classify(
        \/ e.version = Absent
        \/ e.completed = Absent
        \/ e.rate = Absent
        \/ e.failures = Absent,
        \/ e.version # ReleaseVersion
        \/ RateIsLow(e.rate)
        \/ e.failures # {})

\* Mutant: the exception only has to be valid when the deployment starts.
ExpiresBeforeStart(exception) == exception.expires < Window.start

ExpiresEarly(exception) == exception.expires < Window.end

\* A high finding is excused by an exception of its own, of this service,
\* that is valid until the deployment ends.
Excused(e, finding) ==
    /\ finding \in DOMAIN e.exceptions
    /\ e.exceptions[finding].scope = ServiceName
    /\ ~ExpiresEarly(e.exceptions[finding])

SecurityVerdict(e) ==
    Classify(
        \/ e.version = Absent
        \/ e.scanned = Absent
        \/ e.critical = Absent
        \/ e.high = Absent
        \/ e.exceptions = Absent,
        \/ e.version # ReleaseVersion
        \/ e.critical # {}
        \/ \E finding \in e.high : ~Excused(e, finding))

LiesOutside(window) == Window.start < window.start \/ Window.end > window.end

ChangeVerdict(e) ==
    Classify(
        e.approved = Absent \/ e.window = Absent,
        ~e.approved \/ LiesOutside(e.window))

Verdict(section, e) ==
    CASE section = "Test"     -> TestVerdict(e)
      [] section = "Security" -> SecurityVerdict(e)
      [] section = "Change"   -> ChangeVerdict(e)
=============================================================================
