---------------------------- MODULE MCEvidenceForm --------------------------
(***************************************************************************)
(* EvidenceForm on small sets of inputs: what is typed into a section      *)
(* differs in one fact from a section that is ready.  Times count half     *)
(* seconds.  The deployment window is [8, 12]; at 12 the local clock is    *)
(* set back by a second, which is an hour here, so that the local times 10 *)
(* and 11 come twice and are read as 12 and 13.                            *)
(***************************************************************************)
EXTENDS EvidenceFormProperties

CONSTANTS
    Rates   \* rates that may be typed, in thousandths of a percent

DeploymentWindow == [start |-> 8, end |-> 12]

ReadyTest == [version |-> ReleaseVersion, completed |-> 8, rate |-> 95000, failures |-> {}]

Tests ==
    {Blank("Test"), ReadyTest}
    \cup {[ReadyTest EXCEPT !.rate = r] : r \in Rates}
    \cup {[ReadyTest EXCEPT !.version = "other"],
          [ReadyTest EXCEPT !.completed = Absent],
          [ReadyTest EXCEPT !.failures = {"suite"}]}

ReadyScan ==
    [version |-> ReleaseVersion, scanned |-> 8, critical |-> {}, high |-> {},
     exceptions |-> <<>>]

\* A high finding, with an exception for it; 13 lies between two whole seconds.
Excepted(scope, utc, at) ==
    [ReadyScan EXCEPT
        !.high = {"finding"},
        !.exceptions = [f \in {"finding"} |-> [scope |-> scope, utc |-> utc, at |-> at]]]

Scans ==
    {Blank("Security"), ReadyScan}
    \cup {Excepted(ServiceName, TRUE, t) : t \in {10, 13}}
    \cup {Excepted(ServiceName, FALSE, t) : t \in {8, 10}}
    \cup {Excepted("another", FALSE, 10),
          [ReadyScan EXCEPT !.high = {"finding"}],
          [ReadyScan EXCEPT !.critical = {"finding"}],
          [ReadyScan EXCEPT !.scanned = Absent]}

ReadyChange == [approved |-> TRUE, start |-> 8, end |-> 10]

Changes ==
    {Blank("Change"), ReadyChange}
    \cup {[ReadyChange EXCEPT !.start = t] : t \in {6, 10}}
    \cup {[ReadyChange EXCEPT !.end = t] : t \in {6, 8, Absent}}
    \cup {[ReadyChange EXCEPT !.approved = FALSE],
          [ReadyChange EXCEPT !.start = Absent, !.end = Absent]}
=============================================================================
