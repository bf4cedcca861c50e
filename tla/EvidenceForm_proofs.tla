------------------------- MODULE EvidenceForm_proofs ------------------------
(***************************************************************************)
(* The forms of a release, its records and what the policies make of them  *)
(* fit together for any inputs, deployment window, number of rounds and    *)
(* repeated hour, and however fine the units of time.                      *)
(***************************************************************************)
EXTENDS EvidenceFormProperties, SequenceTheorems, TLAPS
-----------------------------------------------------------------------------
(* Local time.                                                             *)

\* A local time is read as an instant that is shown as this local time.
LEMMA ReadIsInstant ==
    ASSUME NEW local \in Int
    PROVE  FromLocal(local) \in Instants /\ ToLocal(FromLocal(local)) = local
BY ConstantsAssumption DEF FromLocal, ToLocal, Instants, FirstPass

\* Whole seconds: multiples, differences and what is not more.
LEMMA Multiples ==
    ASSUME NEW unit \in Nat \ {0}
    PROVE  /\ \A t \in Int :
                  /\ t \div unit \in Int /\ t % unit \in Int
                  /\ 0 <= t % unit /\ t % unit < unit
                  /\ t = unit * (t \div unit) + (t % unit)
           /\ \A n \in Int : unit * n \in Int /\ (unit * n) % unit = 0
           /\ \A n, m, rest \in Int :
                  rest < unit /\ unit * n <= unit * m + rest => unit * n <= unit * m
<1>1. ASSUME NEW n \in Int, NEW m \in Int, NEW rest \in Int,
             rest < unit, unit * n <= unit * m + rest
      PROVE  unit * n <= unit * m
  <2>1. CASE n <= m
    BY <2>1
  <2>2. CASE n >= m + 1
    <3>1. unit * n >= unit * (m + 1) /\ unit * (m + 1) = unit * m + unit
      BY <2>2
    <3> QED
      BY <1>1, <3>1
  <2> QED
    BY <2>1, <2>2
<1>2. \A t \in Int :
          /\ t \div unit \in Int /\ t % unit \in Int
          /\ 0 <= t % unit /\ t % unit < unit
          /\ t = unit * (t \div unit) + (t % unit)
  OBVIOUS
<1>3. \A n \in Int : unit * n \in Int /\ (unit * n) % unit = 0
  OBVIOUS
<1> QED
  BY <1>1, <1>2, <1>3

\* A difference of whole seconds is whole.
LEMMA Differences ==
    ASSUME NEW a \in Int, NEW b \in Int, a % Second = 0, b % Second = 0
    PROVE  (a - b) % Second = 0
<1> DEFINE n == a \div Second
           m == b \div Second
<1>1. Second \in Nat \ {0}
  BY ConstantsAssumption
<1>2. n \in Int /\ m \in Int /\ a = Second * n /\ b = Second * m
  BY <1>1, Multiples
<1> HIDE DEF n, m
<1>3. n - m \in Int /\ a - b = Second * (n - m)
  BY <1>1, <1>2
<1>4. (Second * (n - m)) % Second = 0
  BY <1>1, <1>3, Multiples
<1> QED
  BY <1>3, <1>4

\* So is a time from which the repeated hour is taken.
LEMMA HourIsWhole ==
    /\ Fold \in Int /\ Hour \in Int /\ Hour > 0 /\ (Fold - Hour) % Second = 0
    /\ \A t \in Int : t % Second = 0 => (t - Hour) % Second = 0
<1>1. /\ Fold \in Int /\ Fold % Second = 0
      /\ Hour \in Int /\ Hour > 0 /\ Hour % Second = 0
  BY ConstantsAssumption
<1>2. ASSUME NEW t \in Int, t % Second = 0 PROVE (t - Hour) % Second = 0
  BY <1>1, <1>2, Differences
<1> QED
  BY <1>1, <1>2

\* A time without the fraction of its second is the last whole one by then.
LEMMA SecondShown ==
    ASSUME NEW time \in Int
    PROVE  /\ ToSecond(time) \in Int
           /\ ToSecond(time) <= time
           /\ time % Second = 0 => ToSecond(time) = time
           /\ ToSecond(time) % Second = 0
           /\ \A whole \in Int :
                  whole % Second = 0 /\ whole <= time => whole <= ToSecond(time)
<1> DEFINE n == time \div Second
           rest == time % Second
<1>1. Second \in Nat \ {0}
  BY ConstantsAssumption
<1>2. /\ n \in Int /\ rest \in Int /\ 0 <= rest /\ rest < Second
      /\ time = Second * n + rest /\ Second * n \in Int
  BY <1>1, Multiples
<1>3. ToSecond(time) = time - rest
  BY DEF ToSecond
<1>4. time % Second = rest
  OBVIOUS
<1> HIDE DEF n, rest
<1>5. ToSecond(time) = Second * n
  BY <1>2, <1>3
<1>6. (Second * n) % Second = 0
  BY <1>1, <1>2, Multiples
<1>7. ASSUME NEW whole \in Int, whole % Second = 0, whole <= time
      PROVE  whole <= ToSecond(time)
  <2> DEFINE m == whole \div Second
  <2>1. m \in Int /\ whole = Second * m
    BY <1>1, <1>7, Multiples
  <2> HIDE DEF m
  <2>2. Second * m <= Second * n + rest
    BY <1>2, <1>7, <2>1
  <2>3. Second * m <= Second * n
    BY <1>1, <1>2, <2>1, <2>2, Multiples
  <2> QED
    BY <1>5, <2>1, <2>3
<1> QED
  BY <1>2, <1>3, <1>4, <1>5, <1>6, <1>7

\* What becomes of an instant that is shown and read back: it loses the
\* fraction of its second, and if its local time comes again it moves to the
\* second occurrence.
Reread(instant) == FromLocal(Displayed(instant))

LEMMA ShownIsRead ==
    ASSUME NEW instant \in Int
    PROVE  /\ Displayed(instant) \in Int
           /\ Reread(instant) \in Int /\ Reread(instant) \in Instants
           /\ instant \notin FirstPass => Reread(instant) <= instant
           /\ instant \notin FirstPass /\ instant % Second = 0 => Reread(instant) = instant
<1>1. /\ Fold \in Int /\ Hour \in Int /\ Hour > 0 /\ (Fold - Hour) % Second = 0
      /\ \A t \in Int : t % Second = 0 => (t - Hour) % Second = 0
  BY HourIsWhole
<1>2. ToLocal(instant) \in Int
  BY <1>1 DEF ToLocal
<1>3. /\ Displayed(instant) \in Int /\ Displayed(instant) <= ToLocal(instant)
      /\ ToLocal(instant) % Second = 0 => Displayed(instant) = ToLocal(instant)
      /\ Fold - Hour <= ToLocal(instant) => Fold - Hour <= Displayed(instant)
  BY <1>1, <1>2, SecondShown DEF Displayed
<1>4. Reread(instant) \in Instants /\ Reread(instant) \in Int
  BY <1>3, ReadIsInstant DEF Reread, Instants
<1>5. ASSUME instant \notin FirstPass PROVE Reread(instant) <= instant
  BY <1>1, <1>3, <1>5 DEF Reread, FromLocal, ToLocal, FirstPass
<1>6. ASSUME instant \notin FirstPass, instant % Second = 0
      PROVE  Reread(instant) = instant
  <2>1. ToLocal(instant) % Second = 0
    BY <1>1, <1>6 DEF ToLocal
  <2> QED
    BY <1>1, <1>3, <1>6, <2>1 DEF Reread, FromLocal, ToLocal, FirstPass
<1> QED
  BY <1>3, <1>4, <1>5, <1>6

\* An instant no earlier than one that comes back as it was stays so.
LEMMA ReadIsNotBefore ==
    ASSUME NEW instant \in Int, NEW exact \in Int, Reread(exact) = exact,
           exact <= instant
    PROVE  exact <= Reread(instant)
<1>1. /\ Fold \in Int /\ Hour \in Int /\ Hour > 0 /\ (Fold - Hour) % Second = 0
      /\ \A t \in Int : t % Second = 0 => (t - Hour) % Second = 0
  BY HourIsWhole
<1>2. ToLocal(instant) \in Int /\ ToLocal(exact) \in Int
  BY <1>1 DEF ToLocal
<1>3. /\ Displayed(instant) \in Int /\ Displayed(exact) \in Int
      /\ Displayed(exact) % Second = 0
      /\ Displayed(exact) <= ToLocal(instant) => Displayed(exact) <= Displayed(instant)
      /\ Fold - Hour <= ToLocal(instant) => Fold - Hour <= Displayed(instant)
      /\ Displayed(instant) <= ToLocal(instant)
  BY <1>1, <1>2, SecondShown DEF Displayed
<1>4. CASE instant < Fold - Hour
  BY <1>1, <1>3, <1>4 DEF Reread, FromLocal, ToLocal
<1>5. CASE Fold - Hour <= instant /\ instant < Fold
  BY <1>1, <1>3, <1>5 DEF Reread, FromLocal, ToLocal
<1>6. CASE Fold <= instant
  <2>1. CASE exact < Fold
    BY <1>1, <1>3, <1>6, <2>1 DEF Reread, FromLocal, ToLocal
  <2>2. CASE Fold <= exact
    <3>1. Displayed(exact) = ToLocal(exact)
      <4>1. Fold - Hour <= Displayed(exact)
        BY <1>1, <1>2, <2>2, SecondShown DEF Displayed, ToLocal
      <4> QED
        BY <1>1, <1>3, <2>2, <4>1 DEF Reread, FromLocal, ToLocal
    <3>2. ToLocal(exact) = exact - Hour /\ ToLocal(instant) = instant - Hour
      BY <1>1, <1>6, <2>2 DEF ToLocal
    <3>3. exact - Hour <= Displayed(instant) /\ Fold - Hour <= Displayed(instant)
      BY <1>1, <1>3, <1>6, <3>1, <3>2
    <3>4. Reread(instant) = Displayed(instant) + Hour
      BY <1>1, <1>3, <3>3 DEF Reread, FromLocal
    <3> QED
      BY <1>1, <1>3, <3>3, <3>4
  <2> QED
    BY <1>1, <2>1, <2>2
<1> QED
  BY <1>1, <1>4, <1>5, <1>6

LEMMA ReadOrAbsent ==
    ASSUME NEW local \in OrAbsent(Int)
    PROVE  Instant(local) \in OrAbsent(Instants)
BY ReadIsInstant DEF Instant, OrAbsent

\* A time that may be absent comes back as one that is absent if it was.
LEMMA ShownOrAbsent ==
    ASSUME NEW instant \in OrAbsent(Instants)
    PROVE  LET back == Instant(DisplayedOrAbsent(instant)) IN
           /\ DisplayedOrAbsent(instant) \in OrAbsent(Int)
           /\ back \in OrAbsent(Instants)
           /\ back = Absent <=> instant = Absent
           /\ IsWhole(instant) => back = instant
<1>1. \/ instant = Absent
      \/ instant \in Int /\ instant \notin FirstPass /\ instant # Absent
  BY AbsentAssumption DEF OrAbsent, Instants
<1>2. CASE instant = Absent
  BY <1>2 DEF DisplayedOrAbsent, Instant, OrAbsent
<1>3. CASE instant \in Int /\ instant \notin FirstPass /\ instant # Absent
  <2>1. /\ Displayed(instant) \in Int /\ Displayed(instant) # Absent
        /\ Reread(instant) \in Instants /\ Reread(instant) # Absent
        /\ IsWhole(instant) => Reread(instant) = instant
    BY <1>3, ShownIsRead, AbsentAssumption DEF IsWhole
  <2>2. /\ DisplayedOrAbsent(instant) = Displayed(instant)
        /\ Instant(DisplayedOrAbsent(instant)) = Reread(instant)
    BY <1>3, <2>1 DEF DisplayedOrAbsent, Instant, Reread
  <2> QED
    BY <1>3, <2>1, <2>2 DEF OrAbsent
<1> QED
  BY <1>1, <1>2, <1>3

\* The deployment window went through local times itself.
LEMMA WindowShown ==
    /\ Window.start \in Int /\ Window.end \in Int /\ Window.start <= Window.end
    /\ Displayed(Window.start) \in Int /\ Displayed(Window.end) \in Int
    /\ Displayed(Window.start) # Absent /\ Displayed(Window.end) # Absent
    /\ FromLocal(Displayed(Window.start)) = Window.start
    /\ FromLocal(Displayed(Window.end)) = Window.end
BY ConstantsAssumption, WindowAssumption, AbsentAssumption, ShownIsRead
-----------------------------------------------------------------------------
(* Rates.                                                                  *)

\* A rate with two decimals is shown as it is, and rounding leaves a rate on
\* its side of the minimum if it was on the good one.
LEMMA RateShown ==
    ASSUME NEW rate \in OrAbsent(Int)
    PROVE  /\ Rounded(rate) \in OrAbsent(Int)
           /\ Rounded(rate) = Absent <=> rate = Absent
           /\ rate # Absent /\ rate % 10 = 0 => Rounded(rate) = rate
           /\ rate # Absent /\ ~RateIsLow(rate) => ~RateIsLow(Rounded(rate))
<1>1. CASE rate = Absent
  BY <1>1 DEF Rounded, OrAbsent
<1>2. CASE rate \in Int /\ rate # Absent
  <2>1. /\ ((rate + 5) \div 10) * 10 \in Int
        /\ rate % 10 = 0 => ((rate + 5) \div 10) * 10 = rate
        /\ 95000 <= rate => 95000 <= ((rate + 5) \div 10) * 10
    BY <1>2
  <2>2. Rounded(rate) = ((rate + 5) \div 10) * 10 /\ Rounded(rate) # Absent
    BY <1>2, <2>1, AbsentAssumption DEF Rounded
  <2> QED
    BY <1>2, <2>1, <2>2 DEF OrAbsent, RateIsLow, MinimumPassRate
<1> QED
  BY <1>1, <1>2 DEF OrAbsent
-----------------------------------------------------------------------------
(* The cases of the definitions, section by section.                       *)

TestForms ==
    [version : OrAbsent(Texts), completed : OrAbsent(Int),
     rate : OrAbsent(Int), failures : SUBSET Texts]

SecurityForms(findings) ==
    [version : OrAbsent(Texts), scanned : OrAbsent(Int),
     critical : SUBSET Texts, high : SUBSET Texts,
     exceptions : [findings -> [scope : Texts, utc : BOOLEAN, at : Int]]]

ChangeForms == [approved : BOOLEAN, start : OrAbsent(Int), end : OrAbsent(Int)]

LEMMA FormKinds ==
    ASSUME NEW i
    PROVE  /\ IsForm("Test", i) <=> i \in TestForms
           /\ IsForm("Security", i) <=>
                  DOMAIN i.exceptions \subseteq Texts
                  /\ i \in SecurityForms(DOMAIN i.exceptions)
           /\ IsForm("Change", i) <=> i \in ChangeForms
BY DEF IsForm, TestForms, SecurityForms, ChangeForms

TestRecords ==
    [version : OrAbsent(Texts), completed : OrAbsent(Instants),
     rate : OrAbsent(Nat), failures : SUBSET Texts]

SecurityRecords(findings) ==
    [version : OrAbsent(Texts), scanned : OrAbsent(Instants),
     critical : SUBSET Texts, high : SUBSET Texts,
     exceptions : [findings -> [scope : Texts, expires : Int]]]

ChangeRecords ==
    [approved : BOOLEAN, window : OrAbsent([start : Instants, end : Instants])]

LEMMA RecordKinds ==
    ASSUME NEW e
    PROVE  /\ IsRecord("Test", e) <=>
                  e \in TestRecords /\ (e.rate # Absent => e.rate <= MaximumRate)
           /\ IsRecord("Security", e) <=>
                  DOMAIN e.exceptions \subseteq Texts
                  /\ e \in SecurityRecords(DOMAIN e.exceptions)
           /\ IsRecord("Change", e) <=> e \in ChangeRecords
BY DEF IsRecord, TestRecords, SecurityRecords, ChangeRecords

LEMMA FormValues ==
    /\ Blank("Test") =
           [version |-> Absent, completed |-> Absent, rate |-> Absent, failures |-> {}]
    /\ Blank("Security") =
           [version |-> Absent, scanned |-> Absent, critical |-> {}, high |-> {},
            exceptions |-> <<>>]
    /\ Blank("Change") = [approved |-> FALSE, start |-> Absent, end |-> Absent]
    /\ Ready("Test") =
           [version |-> ReleaseVersion, completed |-> Displayed(Window.start),
            rate |-> ReadyRate, failures |-> {}]
    /\ Ready("Security") =
           [version |-> ReleaseVersion, scanned |-> Displayed(Window.start),
            critical |-> {}, high |-> {}, exceptions |-> <<>>]
    /\ Ready("Change") =
           [approved |-> TRUE, start |-> Displayed(Window.start),
            end |-> Displayed(Window.end)]
BY DEF Blank, Ready

LEMMA RecordValues ==
    ASSUME NEW i
    PROVE  /\ ToRecord("Test", i) =
                  [version |-> i.version, completed |-> Instant(i.completed),
                   rate |-> i.rate, failures |-> i.failures]
           /\ ToRecord("Security", i) =
                  [version |-> i.version, scanned |-> Instant(i.scanned),
                   critical |-> i.critical, high |-> i.high,
                   exceptions |-> [f \in DOMAIN i.exceptions |->
                       [scope |-> i.exceptions[f].scope,
                        expires |-> Expiry(i.exceptions[f])]]]
           /\ ToRecord("Change", i) = [approved |-> i.approved, window |-> WindowOf(i)]
BY DEF ToRecord

LEMMA ShownValues ==
    ASSUME NEW e
    PROVE  /\ Shown("Test", e) =
                  [version |-> e.version, completed |-> DisplayedOrAbsent(e.completed),
                   rate |-> Rounded(e.rate), failures |-> e.failures]
           /\ Shown("Security", e) =
                  [version |-> e.version, scanned |-> DisplayedOrAbsent(e.scanned),
                   critical |-> e.critical, high |-> e.high,
                   exceptions |-> [f \in DOMAIN e.exceptions |->
                       ShownException(e.exceptions[f])]]
           /\ Shown("Change", e) =
                  [approved |-> e.approved,
                   start |-> IF e.window = Absent THEN Absent ELSE Displayed(e.window.start),
                   end |-> IF e.window = Absent THEN Absent ELSE Displayed(e.window.end)]
BY DEF Shown
-----------------------------------------------------------------------------
(* Forms and records keep their kinds.                                     *)

\* An empty list of exceptions, typed or on record.
LEMMA NoExceptions ==
    /\ DOMAIN <<>> = {}
    /\ \A S : <<>> \in [{} -> S]
<1>1. \A S : <<>> \in Seq(S) /\ Len(<<>>) = 0
  BY EmptySeq
<1>2. \A S : <<>> \in [1 .. 0 -> S] /\ DOMAIN <<>> = 1 .. 0
  BY <1>1, LenProperties
<1>3. 1 .. 0 = {}
  OBVIOUS
<1> QED
  BY <1>2, <1>3

LEMMA BlankIsForm ==
    ASSUME NEW s \in AllSections
    PROVE  IsForm(s, Blank(s))
<1>1. [version |-> Absent, completed |-> Absent, rate |-> Absent, failures |-> {}]
          \in TestForms
  BY DEF TestForms, OrAbsent
<1>2. ASSUME NEW none \in [{} -> [scope : Texts, utc : BOOLEAN, at : Int]]
      PROVE  [version |-> Absent, scanned |-> Absent, critical |-> {}, high |-> {},
              exceptions |-> none] \in SecurityForms({})
  BY DEF SecurityForms, OrAbsent
<1>3. [approved |-> FALSE, start |-> Absent, end |-> Absent] \in ChangeForms
  BY DEF ChangeForms, OrAbsent
<1>4. Blank("Security") \in SecurityForms({}) /\ DOMAIN Blank("Security").exceptions = {}
  <2> DEFINE none == <<>>
  <2>1. none \in [{} -> [scope : Texts, utc : BOOLEAN, at : Int]] /\ DOMAIN none = {}
    BY NoExceptions, Zenon
  <2>2. Blank("Security") =
            [version |-> Absent, scanned |-> Absent, critical |-> {}, high |-> {},
             exceptions |-> none]
    BY Zenon, FormValues
  <2>3. [version |-> Absent, scanned |-> Absent, critical |-> {}, high |-> {},
         exceptions |-> none] \in SecurityForms({})
    BY <1>2, <2>1
  <2> HIDE DEF none
  <2>4. Blank("Security").exceptions = none
    BY <2>2
  <2> QED
    BY <2>1, <2>2, <2>3, <2>4, Zenon
<1>5. Blank("Test") \in TestForms /\ Blank("Change") \in ChangeForms
  BY <1>1, <1>3, FormValues, Zenon
<1> QED
  BY <1>4, <1>5, FormKinds DEF AllSections

LEMMA ReadyIsForm ==
    ASSUME NEW s \in AllSections
    PROVE  IsForm(s, Ready(s))
<1>0. ReleaseVersion \in Texts
  BY ConstantsAssumption
<1>1. [version |-> ReleaseVersion, completed |-> Displayed(Window.start),
       rate |-> ReadyRate, failures |-> {}] \in TestForms
  <2>1. ReadyRate \in Int
    BY DEF ReadyRate
  <2> QED
    BY <1>0, <2>1, WindowShown DEF TestForms, OrAbsent
<1>2. ASSUME NEW none \in [{} -> [scope : Texts, utc : BOOLEAN, at : Int]]
      PROVE  [version |-> ReleaseVersion, scanned |-> Displayed(Window.start),
              critical |-> {}, high |-> {}, exceptions |-> none] \in SecurityForms({})
  BY <1>0, WindowShown DEF SecurityForms, OrAbsent
<1>3. [approved |-> TRUE, start |-> Displayed(Window.start), end |-> Displayed(Window.end)]
          \in ChangeForms
  BY WindowShown DEF ChangeForms, OrAbsent
<1>4. Ready("Security") \in SecurityForms({}) /\ DOMAIN Ready("Security").exceptions = {}
  <2> DEFINE none == <<>>
  <2>1. none \in [{} -> [scope : Texts, utc : BOOLEAN, at : Int]] /\ DOMAIN none = {}
    BY NoExceptions, Zenon
  <2>2. Ready("Security") =
            [version |-> ReleaseVersion, scanned |-> Displayed(Window.start),
             critical |-> {}, high |-> {}, exceptions |-> none]
    BY Zenon, FormValues
  <2>3. [version |-> ReleaseVersion, scanned |-> Displayed(Window.start),
         critical |-> {}, high |-> {}, exceptions |-> none] \in SecurityForms({})
    BY <1>2, <2>1
  <2> HIDE DEF none
  <2>4. Ready("Security").exceptions = none
    BY <2>2
  <2> QED
    BY <2>1, <2>2, <2>3, <2>4, Zenon
<1>5. Ready("Test") \in TestForms /\ Ready("Change") \in ChangeForms
  BY <1>1, <1>3, FormValues, Zenon
<1> QED
  BY <1>4, <1>5, FormKinds DEF AllSections

\* What ToEvidence makes of an accepted form are records.
LEMMA RecordMade ==
    ASSUME NEW s \in AllSections, NEW i, IsForm(s, i), Accepted(s, i)
    PROVE  IsRecord(s, ToRecord(s, i))
<1>1. CASE s = "Test"
  <2>1. i \in TestForms
    BY <1>1, FormKinds
  <2>2. Instant(i.completed) \in OrAbsent(Instants)
    BY <2>1, ReadOrAbsent DEF TestForms
  <2>3. i.rate \in OrAbsent(Nat) /\ (i.rate # Absent => i.rate <= MaximumRate)
    <3>1. i.rate = Absent \/ i.rate \in 0 .. MaximumRate
      BY <1>1 DEF Accepted
    <3>2. MaximumRate \in Nat
      BY DEF MaximumRate
    <3> QED
      BY <3>1, <3>2 DEF OrAbsent
  <2> DEFINE e == ToRecord("Test", i)
             completed == Instant(i.completed)
  <2>4. e = [version |-> i.version, completed |-> completed,
             rate |-> i.rate, failures |-> i.failures]
    BY RecordValues, Zenon
  <2>5. i.version \in OrAbsent(Texts) /\ i.failures \in SUBSET Texts
    BY <2>1 DEF TestForms
  <2> HIDE DEF e, completed
  <2>6. completed \in OrAbsent(Instants)
    BY <2>2 DEF completed
  <2>7. e \in TestRecords /\ e.rate = i.rate
    BY <2>3, <2>4, <2>5, <2>6 DEF TestRecords
  <2> QED
    BY <1>1, <2>3, <2>7, RecordKinds DEF e
<1>2. CASE s = "Security"
  <2> DEFINE e == ToRecord("Security", i)
             made == [f \in DOMAIN i.exceptions |->
                         [scope |-> i.exceptions[f].scope,
                          expires |-> Expiry(i.exceptions[f])]]
  <2>1. DOMAIN i.exceptions \subseteq Texts /\ i \in SecurityForms(DOMAIN i.exceptions)
    BY <1>2, FormKinds
  <2>2. Instant(i.scanned) \in OrAbsent(Instants)
    BY <2>1, ReadOrAbsent DEF SecurityForms
  <2>3. ASSUME NEW f \in DOMAIN i.exceptions
        PROVE  [scope |-> i.exceptions[f].scope, expires |-> Expiry(i.exceptions[f])]
                   \in [scope : Texts, expires : Int]
    <3>1. i.exceptions[f] \in [scope : Texts, utc : BOOLEAN, at : Int]
      BY <2>1 DEF SecurityForms
    <3>2. FromLocal(i.exceptions[f].at) \in Int
      BY <3>1, ReadIsInstant DEF Instants
    <3> QED
      BY <3>1, <3>2 DEF Expiry
  <2>4. /\ DOMAIN made = DOMAIN i.exceptions
        /\ made \in [DOMAIN i.exceptions -> [scope : Texts, expires : Int]]
    BY <2>3
  <2>5. e = [version |-> i.version, scanned |-> Instant(i.scanned),
             critical |-> i.critical, high |-> i.high, exceptions |-> made]
    BY RecordValues
  <2> HIDE DEF e, made
  <2>6. e \in SecurityRecords(DOMAIN i.exceptions) /\ e.exceptions = made
    BY <2>1, <2>2, <2>4, <2>5 DEF SecurityForms, SecurityRecords
  <2> QED
    BY <1>2, <2>1, <2>4, <2>6, RecordKinds DEF e
<1>3. CASE s = "Change"
  <2>1. i \in ChangeForms
    BY <1>3, FormKinds
  <2>2. WindowOf(i) \in OrAbsent([start : Instants, end : Instants])
    <3>1. CASE i.start = Absent
      BY <3>1 DEF WindowOf, OrAbsent
    <3>2. CASE i.start # Absent
      <4>1. i.start \in Int /\ i.end \in Int
        BY <1>3, <2>1, <3>2 DEF ChangeForms, Accepted, WindowIsWhole, OrAbsent
      <4> QED
        BY <3>2, <4>1, ReadIsInstant DEF WindowOf, OrAbsent
    <3> QED
      BY <3>1, <3>2
  <2>3. ToRecord("Change", i) \in ChangeRecords
    BY <2>1, <2>2, RecordValues DEF ChangeForms, ChangeRecords
  <2> QED
    BY <1>3, <2>3, RecordKinds
<1> QED
  BY <1>1, <1>2, <1>3 DEF AllSections

\* What the remediation page fills in from a record is a form.
LEMMA FormShown ==
    ASSUME NEW s \in AllSections, NEW e, IsRecord(s, e)
    PROVE  IsForm(s, Shown(s, e))
<1>1. CASE s = "Test"
  <2>1. e \in TestRecords
    BY <1>1, RecordKinds
  <2>2. DisplayedOrAbsent(e.completed) \in OrAbsent(Int)
    BY <2>1, ShownOrAbsent DEF TestRecords
  <2>3. Rounded(e.rate) \in OrAbsent(Int)
    <3>1. e.rate \in OrAbsent(Int)
      BY <2>1 DEF TestRecords, OrAbsent
    <3> QED
      BY <3>1, RateShown
  <2>4. [version |-> e.version, completed |-> DisplayedOrAbsent(e.completed),
         rate |-> Rounded(e.rate), failures |-> e.failures] \in TestForms
    BY <2>1, <2>2, <2>3 DEF TestForms, TestRecords
  <2> QED
    BY <1>1, <2>4, ShownValues, FormKinds
<1>2. CASE s = "Security"
  <2> DEFINE i == Shown("Security", e)
             shown == [f \in DOMAIN e.exceptions |-> ShownException(e.exceptions[f])]
  <2>1. DOMAIN e.exceptions \subseteq Texts /\ e \in SecurityRecords(DOMAIN e.exceptions)
    BY <1>2, RecordKinds
  <2>2. DisplayedOrAbsent(e.scanned) \in OrAbsent(Int)
    BY <2>1, ShownOrAbsent DEF SecurityRecords
  <2>3. ASSUME NEW f \in DOMAIN e.exceptions
        PROVE  ShownException(e.exceptions[f]) \in [scope : Texts, utc : BOOLEAN, at : Int]
    <3>1. e.exceptions[f] \in [scope : Texts, expires : Int]
      BY <2>1 DEF SecurityRecords
    <3>2. Displayed(e.exceptions[f].expires) \in Int
      BY <3>1, ShownIsRead
    <3> QED
      BY <3>1, <3>2 DEF ShownException
  <2>4. /\ DOMAIN shown = DOMAIN e.exceptions
        /\ shown \in [DOMAIN e.exceptions -> [scope : Texts, utc : BOOLEAN, at : Int]]
    BY <2>3
  <2>5. i = [version |-> e.version, scanned |-> DisplayedOrAbsent(e.scanned),
             critical |-> e.critical, high |-> e.high, exceptions |-> shown]
    BY ShownValues
  <2> HIDE DEF i, shown
  <2>6. i \in SecurityForms(DOMAIN e.exceptions) /\ i.exceptions = shown
    BY <2>1, <2>2, <2>4, <2>5 DEF SecurityForms, SecurityRecords
  <2> QED
    BY <1>2, <2>1, <2>4, <2>6, FormKinds DEF i
<1>3. CASE s = "Change"
  <2>1. e \in ChangeRecords
    BY <1>3, RecordKinds
  <2>2. CASE e.window = Absent
    BY <2>1, <2>2, <1>3, ShownValues, FormKinds DEF ChangeRecords, ChangeForms, OrAbsent
  <2>3. CASE e.window # Absent
    <3>1. Displayed(e.window.start) \in Int /\ Displayed(e.window.end) \in Int
      BY <2>1, <2>3, ShownIsRead DEF ChangeRecords, OrAbsent, Instants
    <3> QED
      BY <2>1, <2>3, <3>1, <1>3, ShownValues, FormKinds
         DEF ChangeRecords, ChangeForms, OrAbsent
  <2> QED
    BY <2>2, <2>3
<1> QED
  BY <1>1, <1>2, <1>3 DEF AllSections
-----------------------------------------------------------------------------
(* The policies say what the table says, of every record there can be.     *)

LEMMA TestVerdictIsTheTables ==
    ASSUME NEW e \in TestRecords
    PROVE  Verdict("Test", e) =
               IF MissesFacts("Test", e) THEN MissingEvidence
               ELSE IF IsReady("Test", e) THEN Passed ELSE Blocked
<1>1. e.failures # Absent
  BY AbsentAssumption DEF TestRecords
<1>2. MissesFacts("Test", e) <=>
          e.version = Absent \/ e.completed = Absent \/ e.rate = Absent
  BY DEF MissesFacts
<1>3. e.rate # Absent => (IsReady("Test", e) <=>
          e.version = ReleaseVersion /\ ~RateIsLow(e.rate) /\ e.failures = {})
  <2>1. e.rate # Absent => (100 * e.rate >= 95 * 100000 <=> ~RateIsLow(e.rate))
    BY DEF TestRecords, OrAbsent, RateIsLow, MinimumPassRate
  <2> QED
    BY <2>1 DEF IsReady
<1> QED
  BY <1>1, <1>2, <1>3 DEF Verdict, TestVerdict, Classify

LEMMA SecurityVerdictIsTheTables ==
    ASSUME NEW e, e \in SecurityRecords(DOMAIN e.exceptions),
           DOMAIN e.exceptions \subseteq Texts
    PROVE  Verdict("Security", e) =
               IF MissesFacts("Security", e) THEN MissingEvidence
               ELSE IF IsReady("Security", e) THEN Passed ELSE Blocked
<1>1. e.critical # Absent /\ e.high # Absent /\ e.exceptions # Absent
  BY AbsentAssumption DEF SecurityRecords
<1>2. MissesFacts("Security", e) <=> e.version = Absent \/ e.scanned = Absent
  BY DEF MissesFacts
<1>3. ASSUME NEW finding
      PROVE  Excused(e, finding) <=> \A t \in Deployment : CoveredAt(e, finding, t)
  <2>1. \A f \in DOMAIN e.exceptions : e.exceptions[f].expires \in Int
    BY DEF SecurityRecords
  <2>2. /\ Window.end \in Deployment
        /\ \A t \in Deployment : t \in Int /\ t <= Window.end
    BY WindowShown DEF Deployment
  <2>3. CASE finding \in DOMAIN e.exceptions
    <3>1. \A t \in Deployment :
              CoveredAt(e, finding, t) <=>
                  e.exceptions[finding].scope = ServiceName
                  /\ t <= e.exceptions[finding].expires
      BY <2>3 DEF CoveredAt
    <3>2. Excused(e, finding) <=>
              e.exceptions[finding].scope = ServiceName
              /\ Window.end <= e.exceptions[finding].expires
      BY <2>1, <2>3, WindowShown DEF Excused, ExpiresEarly
    <3>3. \A t \in Deployment :
              Window.end <= e.exceptions[finding].expires
                  => t <= e.exceptions[finding].expires
      BY <2>1, <2>2, <2>3, WindowShown
    <3> QED
      BY <2>2, <3>1, <3>2, <3>3
  <2>4. CASE finding \notin DOMAIN e.exceptions
    BY <2>2, <2>4 DEF Excused, CoveredAt
  <2> QED
    BY <2>3, <2>4
<1>4. IsReady("Security", e) <=>
          /\ e.version = ReleaseVersion
          /\ e.critical = {}
          /\ \A finding \in e.high : Excused(e, finding)
  BY <1>3 DEF IsReady
<1> QED
  BY <1>1, <1>2, <1>4 DEF Verdict, SecurityVerdict, Classify

LEMMA ChangeVerdictIsTheTables ==
    ASSUME NEW e \in ChangeRecords
    PROVE  Verdict("Change", e) =
               IF MissesFacts("Change", e) THEN MissingEvidence
               ELSE IF IsReady("Change", e) THEN Passed ELSE Blocked
<1>1. e.approved \in BOOLEAN /\ e.approved # Absent
  BY AbsentAssumption DEF ChangeRecords
<1>2. MissesFacts("Change", e) <=> e.window = Absent
  BY DEF MissesFacts
<1>3. e.window # Absent => (~LiesOutside(e.window) <=>
          \A t \in Deployment : e.window.start <= t /\ t <= e.window.end)
  <2> SUFFICES ASSUME e.window # Absent
               PROVE  ~LiesOutside(e.window) <=>
                   \A t \in Deployment : e.window.start <= t /\ t <= e.window.end
    OBVIOUS
  <2>1. e.window.start \in Int /\ e.window.end \in Int
    BY DEF ChangeRecords, OrAbsent, Instants
  <2>2. /\ Window.start \in Deployment /\ Window.end \in Deployment
        /\ \A t \in Deployment : t \in Int /\ Window.start <= t /\ t <= Window.end
    BY WindowShown DEF Deployment
  <2>3. ~LiesOutside(e.window) <=>
            e.window.start <= Window.start /\ Window.end <= e.window.end
    BY <2>1, WindowShown DEF LiesOutside
  <2> QED
    BY <2>1, <2>2, <2>3, WindowShown
<1>4. e.window # Absent =>
          (IsReady("Change", e) <=> e.approved /\ ~LiesOutside(e.window))
  BY <1>3 DEF IsReady
<1> QED
  BY <1>1, <1>2, <1>4 DEF Verdict, ChangeVerdict, Classify

\* The three policies and the table of the specification agree.
LEMMA VerdictIsTheTables ==
    ASSUME NEW s \in AllSections, NEW e, IsRecord(s, e)
    PROVE  Verdict(s, e) =
               IF MissesFacts(s, e) THEN MissingEvidence
               ELSE IF IsReady(s, e) THEN Passed ELSE Blocked
BY TestVerdictIsTheTables, SecurityVerdictIsTheTables, ChangeVerdictIsTheTables,
   RecordKinds DEF AllSections

\* A record passes exactly if it is complete and ready.
LEMMA PassesIfReady ==
    ASSUME NEW s \in AllSections, NEW e, IsRecord(s, e)
    PROVE  Verdict(s, e) = Passed <=> ~MissesFacts(s, e) /\ IsReady(s, e)
BY VerdictIsTheTables DEF MissingEvidence, Passed, Blocked
-----------------------------------------------------------------------------
(* Filling in a form from a record and reading it back.                    *)

LEMMA TestReturns ==
    ASSUME NEW e \in TestRecords
    PROVE  LET back == ToRecord("Test", Shown("Test", e)) IN
           /\ back = [version |-> e.version,
                      completed |-> Instant(DisplayedOrAbsent(e.completed)),
                      rate |-> Rounded(e.rate), failures |-> e.failures]
           /\ IsWhole(e.completed) /\ (e.rate = Absent \/ e.rate % 10 = 0) => back = e
<1> DEFINE shown == Shown("Test", e)
           back == ToRecord("Test", shown)
<1>1. shown = [version |-> e.version, completed |-> DisplayedOrAbsent(e.completed),
               rate |-> Rounded(e.rate), failures |-> e.failures]
  BY ShownValues
<1>2. back = [version |-> shown.version, completed |-> Instant(shown.completed),
              rate |-> shown.rate, failures |-> shown.failures]
  BY RecordValues
<1> HIDE DEF shown, back
<1>4. back = [version |-> e.version,
              completed |-> Instant(DisplayedOrAbsent(e.completed)),
              rate |-> Rounded(e.rate), failures |-> e.failures]
  BY <1>1, <1>2
<1>5. ASSUME IsWhole(e.completed), e.rate = Absent \/ e.rate % 10 = 0 PROVE back = e
  <2>1. Rounded(e.rate) = e.rate
    BY <1>5, RateShown DEF TestRecords, OrAbsent, Rounded
  <2>2. Instant(DisplayedOrAbsent(e.completed)) = e.completed
    BY <1>5, ShownOrAbsent DEF TestRecords
  <2> QED
    BY <1>4, <2>1, <2>2 DEF TestRecords
<1> QED
  BY <1>4, <1>5 DEF back, shown

\* The exceptions come back, and one that is valid until an instant that
\* comes back as it was still is.
LEMMA SecurityReturns ==
    ASSUME NEW e, e \in SecurityRecords(DOMAIN e.exceptions)
    PROVE  LET back == ToRecord("Security", Shown("Security", e)) IN
           /\ back.version = e.version
           /\ back.scanned = Absent <=> e.scanned = Absent
           /\ back.critical = e.critical /\ back.high = e.high
           /\ DOMAIN back.exceptions = DOMAIN e.exceptions
           /\ \A f \in DOMAIN e.exceptions :
                  /\ back.exceptions[f].scope = e.exceptions[f].scope
                  /\ back.exceptions[f].expires \in Int
                  /\ \A exact \in Int :
                         Reread(exact) = exact /\ exact <= e.exceptions[f].expires
                             => exact <= back.exceptions[f].expires
           /\ CanBeShown("Security", e) => back = e
<1> DEFINE shown == Shown("Security", e)
           lines == [f \in DOMAIN e.exceptions |-> ShownException(e.exceptions[f])]
           back == ToRecord("Security", shown)
           again == [f \in DOMAIN shown.exceptions |->
                        [scope |-> shown.exceptions[f].scope,
                         expires |-> Expiry(shown.exceptions[f])]]
<1>1. shown = [version |-> e.version, scanned |-> DisplayedOrAbsent(e.scanned),
               critical |-> e.critical, high |-> e.high, exceptions |-> lines]
  BY ShownValues
<1>2. back = [version |-> shown.version, scanned |-> Instant(shown.scanned),
              critical |-> shown.critical, high |-> shown.high, exceptions |-> again]
  BY RecordValues
<1>3. /\ DOMAIN lines = DOMAIN e.exceptions
      /\ \A f \in DOMAIN e.exceptions : lines[f] = ShownException(e.exceptions[f])
  OBVIOUS
<1>4. /\ DOMAIN again = DOMAIN shown.exceptions
      /\ \A f \in DOMAIN shown.exceptions :
             again[f] = [scope |-> shown.exceptions[f].scope,
                         expires |-> Expiry(shown.exceptions[f])]
      /\ again = [f \in DOMAIN shown.exceptions |-> again[f]]
  OBVIOUS
<1> HIDE DEF shown, lines, back, again
<1>5. /\ shown.exceptions = lines /\ back.exceptions = again
      /\ DOMAIN again = DOMAIN e.exceptions
  BY <1>1, <1>2, <1>3, <1>4
<1>6. ASSUME NEW f \in DOMAIN e.exceptions
      PROVE  /\ again[f] = [scope |-> e.exceptions[f].scope,
                            expires |-> Reread(e.exceptions[f].expires)]
             /\ e.exceptions[f].expires \in Int
             /\ e.exceptions[f] = [scope |-> e.exceptions[f].scope,
                                   expires |-> e.exceptions[f].expires]
  <2>1. e.exceptions[f] \in [scope : Texts, expires : Int]
    BY DEF SecurityRecords
  <2>2. lines[f] = [scope |-> e.exceptions[f].scope, utc |-> FALSE,
                    at |-> Displayed(e.exceptions[f].expires)]
    BY <1>3 DEF ShownException
  <2>3. again[f] = [scope |-> lines[f].scope, expires |-> Expiry(lines[f])]
    BY <1>3, <1>4, <1>5
  <2> QED
    BY <2>1, <2>2, <2>3 DEF Expiry, Reread
<1>7. \A f \in DOMAIN e.exceptions :
          /\ again[f].scope = e.exceptions[f].scope
          /\ again[f].expires \in Int
          /\ \A exact \in Int :
                 Reread(exact) = exact /\ exact <= e.exceptions[f].expires
                     => exact <= again[f].expires
  <2> TAKE f \in DOMAIN e.exceptions
  <2> DEFINE moved == Reread(e.exceptions[f].expires)
  <2>1. /\ moved \in Int
        /\ \A exact \in Int :
               Reread(exact) = exact /\ exact <= e.exceptions[f].expires => exact <= moved
    BY <1>6, ShownIsRead, ReadIsNotBefore
  <2>2. again[f] = [scope |-> e.exceptions[f].scope, expires |-> moved]
    BY <1>6, Zenon
  <2> HIDE DEF moved
  <2> QED
    BY <2>1, <2>2
<1> DEFINE scanned == Instant(DisplayedOrAbsent(e.scanned))
<1>8. scanned = Absent <=> e.scanned = Absent
  BY ShownOrAbsent DEF SecurityRecords
<1>9. back = [version |-> e.version, scanned |-> scanned,
              critical |-> e.critical, high |-> e.high, exceptions |-> again]
  BY <1>1, <1>2
<1>10. ASSUME CanBeShown("Security", e)
       PROVE  back = e
  <2>0. /\ IsWhole(e.scanned)
        /\ \A f \in DOMAIN e.exceptions :
               IsWhole(e.exceptions[f].expires) /\ e.exceptions[f].expires \notin FirstPass
    BY <1>10 DEF CanBeShown
  <2>1. \A f \in DOMAIN e.exceptions : again[f] = e.exceptions[f]
    <3> TAKE f \in DOMAIN e.exceptions
    <3>1. e.exceptions[f].expires % Second = 0
      BY <1>6, <2>0, AbsentAssumption DEF IsWhole
    <3>2. Reread(e.exceptions[f].expires) = e.exceptions[f].expires
      BY <1>6, <2>0, <3>1, ShownIsRead
    <3> QED
      BY <1>6, <3>2
  <2>4. scanned = e.scanned
    BY <2>0, ShownOrAbsent DEF SecurityRecords
  <2>2. e.exceptions = [f \in DOMAIN e.exceptions |-> e.exceptions[f]]
    BY DEF SecurityRecords
  <2>3. again = e.exceptions
    BY <1>4, <1>5, <2>1, <2>2
  <2> HIDE DEF scanned
  <2> QED
    BY <1>9, <2>3, <2>4 DEF SecurityRecords
<1> HIDE DEF scanned
<1> QED
  BY <1>5, <1>7, <1>8, <1>9, <1>10 DEF back, shown

\* A window comes back, each bound as it is read again.
LEMMA ChangeReturns ==
    ASSUME NEW e \in ChangeRecords
    PROVE  LET back == ToRecord("Change", Shown("Change", e)) IN
           /\ back.approved = e.approved
           /\ e.window = Absent => back = e
           /\ e.window # Absent =>
                  /\ e.window.start \in Instants /\ e.window.end \in Instants
                  /\ back.window = [start |-> Reread(e.window.start),
                                    end |-> Reread(e.window.end)]
           /\ CanBeShown("Change", e) => back = e
<1> DEFINE shown == Shown("Change", e)
           back == ToRecord("Change", shown)
<1>1. shown = [approved |-> e.approved,
               start |-> IF e.window = Absent THEN Absent ELSE Displayed(e.window.start),
               end |-> IF e.window = Absent THEN Absent ELSE Displayed(e.window.end)]
  BY ShownValues
<1>2. back = [approved |-> shown.approved, window |-> WindowOf(shown)]
  BY RecordValues
<1> HIDE DEF shown, back
<1>3. back.approved = e.approved
  BY <1>1, <1>2
<1>4. ASSUME e.window = Absent PROVE back = e
  <2>1. WindowOf(shown) = e.window
    BY <1>1, <1>4 DEF WindowOf
  <2> QED
    BY <1>1, <1>2, <2>1 DEF ChangeRecords
<1>5. ASSUME e.window # Absent
      PROVE  /\ e.window \in [start : Instants, end : Instants]
             /\ back.window = [start |-> Reread(e.window.start),
                               end |-> Reread(e.window.end)]
  <2>1. e.window \in [start : Instants, end : Instants]
    BY <1>5 DEF ChangeRecords, OrAbsent
  <2>2. Displayed(e.window.start) # Absent
    BY <2>1, ShownIsRead, AbsentAssumption DEF Instants
  <2>3. shown.start = Displayed(e.window.start) /\ shown.end = Displayed(e.window.end)
    BY <1>1, <1>5
  <2>4. back.window = WindowOf(shown)
    BY <1>2
  <2>5. WindowOf(shown) = [start |-> Reread(e.window.start), end |-> Reread(e.window.end)]
    BY <2>2, <2>3, Zenon DEF WindowOf, Reread
  <2> QED
    BY <2>1, <2>4, <2>5
<1>6. ASSUME CanBeShown("Change", e), e.window # Absent PROVE back = e
  <2>1. /\ IsWhole(e.window.start) /\ IsWhole(e.window.end)
    BY <1>6 DEF CanBeShown
  <2>2. /\ e.window.start \in Int /\ e.window.start \notin FirstPass
        /\ e.window.end \in Int /\ e.window.end \notin FirstPass
    BY <1>5, <1>6 DEF Instants
  <2>3. e.window.start % Second = 0 /\ e.window.end % Second = 0
    BY <2>1, <2>2, AbsentAssumption DEF IsWhole
  <2>4. Reread(e.window.start) = e.window.start /\ Reread(e.window.end) = e.window.end
    BY <2>2, <2>3, ShownIsRead
  <2>5. back.window = [start |-> e.window.start, end |-> e.window.end]
    BY <1>5, <1>6, <2>4
  <2>6. back.window = e.window
    BY <1>5, <1>6, <2>5
  <2>7. back = [approved |-> back.approved, window |-> back.window]
    BY <1>2
  <2> QED
    BY <1>3, <2>6, <2>7 DEF ChangeRecords
<1> QED
  BY <1>3, <1>4, <1>5, <1>6 DEF back, shown

\* Where the form has room for the record, it comes back as it was.
LEMMA RecordReturns ==
    ASSUME NEW s \in AllSections, NEW e, IsRecord(s, e), CanBeShown(s, e)
    PROVE  ToRecord(s, Shown(s, e)) = e
<1>1. CASE s = "Test"
  <2>1. e \in TestRecords
    BY <1>1, RecordKinds
  <2>2. IsWhole(e.completed) /\ (e.rate = Absent \/ e.rate % 10 = 0)
    BY <1>1 DEF CanBeShown
  <2> QED
    BY <1>1, <2>1, <2>2, TestReturns
<1>2. CASE s = "Security"
  <2>1. e \in SecurityRecords(DOMAIN e.exceptions)
    BY <1>2, RecordKinds
  <2>2. ToRecord("Security", Shown("Security", e)) = e
    BY <1>2, <2>1, SecurityReturns
  <2> QED
    BY <1>2, <2>2
<1>3. CASE s = "Change"
  BY <1>3, RecordKinds, ChangeReturns
<1> QED
  BY <1>1, <1>2, <1>3 DEF AllSections

\* A record that passes still passes after it went through the form.
LEMMA PassingReturns ==
    ASSUME NEW s \in AllSections, NEW e, IsRecord(s, e), Verdict(s, e) = Passed,
           IsRecord(s, ToRecord(s, Shown(s, e)))
    PROVE  Verdict(s, ToRecord(s, Shown(s, e))) = Passed
<1> DEFINE back == ToRecord(s, Shown(s, e))
<1>1. ~MissesFacts(s, e) /\ IsReady(s, e)
  BY PassesIfReady
<1>2. CASE s = "Test"
  <2>1. e \in TestRecords
    BY <1>2, RecordKinds
  <2> DEFINE completed == Instant(DisplayedOrAbsent(e.completed))
  <2>2. back = [version |-> e.version, completed |-> completed,
                rate |-> Rounded(e.rate), failures |-> e.failures]
    BY <1>2, <2>1, TestReturns
  <2>3. /\ e.version # Absent /\ e.completed # Absent /\ e.rate # Absent
        /\ e.version = ReleaseVersion /\ ~RateIsLow(e.rate) /\ e.failures = {}
    BY <1>1, <1>2, <2>1
       DEF MissesFacts, IsReady, TestRecords, OrAbsent, RateIsLow, MinimumPassRate
  <2>4. Rounded(e.rate) # Absent /\ ~RateIsLow(Rounded(e.rate)) /\ {} # Absent
    <3>1. e.rate \in OrAbsent(Int)
      BY <2>1 DEF TestRecords, OrAbsent
    <3> QED
      BY <2>3, <3>1, RateShown, AbsentAssumption
  <2>6. completed # Absent
    BY <2>1, <2>3, ShownOrAbsent DEF TestRecords
  <2> HIDE DEF back, completed
  <2>5. TestVerdict(back) = Passed
    BY <2>2, <2>3, <2>4, <2>6 DEF TestVerdict, Classify
  <2> QED
    BY <1>2, <2>5 DEF Verdict, back
<1>3. CASE s = "Security"
  <2>1. e \in SecurityRecords(DOMAIN e.exceptions)
    BY <1>3, RecordKinds
  <2>2. /\ back.version = e.version
        /\ back.scanned = Absent <=> e.scanned = Absent
        /\ back.critical = e.critical /\ back.high = e.high
        /\ DOMAIN back.exceptions = DOMAIN e.exceptions
        /\ \A f \in DOMAIN e.exceptions :
               /\ back.exceptions[f].scope = e.exceptions[f].scope
               /\ back.exceptions[f].expires \in Int
               /\ e.exceptions[f].expires \in Int
               /\ Window.end <= e.exceptions[f].expires
                      => Window.end <= back.exceptions[f].expires
    <3>1. Window.end \in Int /\ Reread(Window.end) = Window.end
      BY WindowShown DEF Reread
    <3> QED
      BY <1>3, <2>1, <3>1, SecurityReturns DEF SecurityRecords
  <2>3. ~MissesFacts("Security", back)
    BY <1>1, <1>3, <2>2 DEF MissesFacts
  <2> HIDE DEF back
  <2>4. ASSUME NEW finding, CoveredAt(e, finding, Window.end), NEW t \in Deployment
        PROVE  CoveredAt(back, finding, t)
    <3>1. t \in Int /\ t <= Window.end /\ Window.end \in Int
      BY WindowShown DEF Deployment
    <3>2. /\ finding \in DOMAIN e.exceptions /\ e.exceptions[finding].scope = ServiceName
          /\ Window.end <= e.exceptions[finding].expires
      BY <2>4 DEF CoveredAt
    <3>3. back.exceptions[finding].expires \in Int
          /\ Window.end <= back.exceptions[finding].expires
      BY <2>2, <3>2
    <3>4. t <= back.exceptions[finding].expires
      BY <3>1, <3>3
    <3> QED
      BY <2>2, <3>2, <3>4 DEF CoveredAt
  <2>8. Window.end \in Deployment
    BY WindowShown DEF Deployment
  <2>5. IsReady("Security", back)
    BY <1>1, <1>3, <2>2, <2>4, <2>8 DEF IsReady
  <2>6. IsRecord(s, back)
    BY DEF back
  <2>7. Verdict(s, back) = Passed
    BY <1>3, <2>3, <2>5, <2>6, PassesIfReady
  <2> QED
    BY <2>7 DEF back
<1>4. CASE s = "Change"
  <2>1. e \in ChangeRecords
    BY <1>4, RecordKinds
  <2>2. /\ e.window # Absent /\ e.approved
        /\ \A t \in Deployment : e.window.start <= t /\ t <= e.window.end
    BY <1>1, <1>4 DEF MissesFacts, IsReady
  <2>3. /\ e.window.start \in Instants /\ e.window.end \in Instants
        /\ back.approved = e.approved
        /\ back.window = [start |-> Reread(e.window.start), end |-> Reread(e.window.end)]
    BY <1>4, <2>1, <2>2, ChangeReturns
  <2> HIDE DEF back
  <2>4. /\ Window.start \in Deployment /\ Window.end \in Deployment
        /\ \A t \in Deployment : t \in Int /\ Window.start <= t /\ t <= Window.end
        /\ Window.start \in Int /\ Window.end \in Int
    BY WindowShown DEF Deployment
  <2>5. Reread(e.window.start) \in Int /\ Reread(e.window.start) <= Window.start
    <3>1. e.window.start \in Int /\ e.window.start \notin FirstPass
      BY <2>3 DEF Instants
    <3>2. Reread(e.window.start) \in Int /\ Reread(e.window.start) <= e.window.start
      BY <3>1, ShownIsRead
    <3> QED
      BY <2>2, <2>4, <3>1, <3>2
  <2>6. Reread(e.window.end) \in Int /\ Window.end <= Reread(e.window.end)
    <3>1. e.window.end \in Int /\ Window.end <= e.window.end
      BY <2>2, <2>3, <2>4 DEF Instants
    <3>2. Reread(Window.end) = Window.end
      BY WindowShown DEF Reread
    <3> QED
      BY <2>4, <3>1, <3>2, ShownIsRead, ReadIsNotBefore
  <2>7. /\ back.window.start = Reread(e.window.start)
        /\ back.window.end = Reread(e.window.end)
    BY <2>3
  <2>8. back.window # Absent
    <3>1. back.window \in [start : Int, end : Int]
      BY <2>3, <2>5, <2>6
    <3> QED
      BY <3>1, AbsentAssumption
  <2>9. \A t \in Deployment : back.window.start <= t /\ t <= back.window.end
    BY <2>4, <2>5, <2>6, <2>7
  <2>10. ~MissesFacts("Change", back) /\ IsReady("Change", back)
    BY <2>2, <2>3, <2>8, <2>9 DEF MissesFacts, IsReady
  <2>11. IsRecord(s, back)
    BY DEF back
  <2>12. Verdict(s, back) = Passed
    BY <1>4, <2>10, <2>11, PassesIfReady
  <2> QED
    BY <2>12 DEF back
<1> QED
  BY <1>2, <1>3, <1>4 DEF AllSections

\* What the ready demo fills in passes.
LEMMA ReadyPasses ==
    ASSUME NEW s \in AllSections
    PROVE  Verdict(s, ToRecord(s, Ready(s))) = Passed
<1> DEFINE e == ToRecord(s, Ready(s))
<1>0. /\ ReleaseVersion # Absent /\ {} # Absent /\ TRUE # Absent
      /\ \A i \in Int : i # Absent
  BY ConstantsAssumption, AbsentAssumption
<1>1. CASE s = "Test"
  <2>1. e = [version |-> ReleaseVersion, completed |-> Window.start,
             rate |-> ReadyRate, failures |-> {}]
    BY <1>1, FormValues, RecordValues, WindowShown DEF Instant
  <2>2. ReadyRate # Absent /\ ~RateIsLow(ReadyRate) /\ Window.start # Absent
    BY <1>0, WindowShown DEF ReadyRate, RateIsLow, MinimumPassRate
  <2> HIDE DEF e
  <2>3. TestVerdict(e) = Passed
    BY <1>0, <2>1, <2>2 DEF TestVerdict, Classify
  <2> QED
    BY <1>1, <2>3 DEF Verdict, e
<1>2. CASE s = "Security"
  <2> DEFINE none == <<>>
             kept == [f \in DOMAIN none |->
                         [scope |-> none[f].scope, expires |-> Expiry(none[f])]]
  <2>1. DOMAIN none = {}
    BY NoExceptions, Zenon
  <2>2. Ready("Security") =
            [version |-> ReleaseVersion, scanned |-> Displayed(Window.start),
             critical |-> {}, high |-> {}, exceptions |-> none]
    BY Zenon, FormValues
  <2>3. kept \in [{} -> [scope : Texts, expires : Int]]
    BY <2>1
  <2> HIDE DEF none
  <2>4. e = [version |-> ReleaseVersion, scanned |-> Instant(Displayed(Window.start)),
             critical |-> {}, high |-> {}, exceptions |-> kept]
    BY <1>2, <2>2, RecordValues
  <2> HIDE DEF kept, e
  <2>5. Instant(Displayed(Window.start)) # Absent
    BY <1>0, WindowShown DEF Instant
  <2>6. kept # Absent
    BY <2>3, AbsentAssumption
  <2>7. SecurityVerdict(e) = Passed
    BY <1>0, <2>4, <2>5, <2>6 DEF SecurityVerdict, Classify
  <2> QED
    BY <1>2, <2>7 DEF Verdict, e
<1>3. CASE s = "Change"
  <2> DEFINE ready == Ready("Change")
  <2>1. ready = [approved |-> TRUE, start |-> Displayed(Window.start),
                 end |-> Displayed(Window.end)]
    BY FormValues
  <2>2. e = [approved |-> ready.approved, window |-> WindowOf(ready)]
    BY <1>3, RecordValues
  <2> HIDE DEF ready, e
  <2>3. WindowOf(ready) = [start |-> Window.start, end |-> Window.end]
    BY <2>1, WindowShown DEF WindowOf
  <2>4. [start |-> Window.start, end |-> Window.end] # Absent
    <3>1. [start |-> Window.start, end |-> Window.end] \in [start : Int, end : Int]
      BY WindowShown
    <3> QED
      BY <3>1, AbsentAssumption
  <2>5. ~LiesOutside([start |-> Window.start, end |-> Window.end])
    BY WindowShown DEF LiesOutside
  <2>6. e.approved = TRUE /\ e.window = [start |-> Window.start, end |-> Window.end]
    BY <2>1, <2>2, <2>3
  <2>7. ChangeVerdict(e) = Passed
    BY <1>0, <2>4, <2>5, <2>6 DEF ChangeVerdict, Classify
  <2> QED
    BY <1>3, <2>7 DEF Verdict, e
<1> QED
  BY <1>1, <1>2, <1>3 DEF AllSections
-----------------------------------------------------------------------------
(* Finding out what was edited.                                            *)

\* Comparing fact by fact finds exactly the forms that mean another record.
LEMMA ChangesAreSeen ==
    ASSUME NEW s \in AllSections, NEW i,
           HasRecord(s) => IsRecord(s, Current(s))
    PROVE  HasChanges(s, i) <=>
               IF HasRecord(s) THEN ToRecord(s, i) # Current(s) ELSE i # Blank(s)
<1>1. CASE ~HasRecord(s)
  BY <1>1 DEF HasChanges
<1>2. CASE HasRecord(s)
  <2> DEFINE e == Current(s)
             posted == ToRecord(s, i)
  <2>1. IsRecord(s, e)
    BY <1>2
  <2>2. CASE s = "Test"
    <3>1. HasChanges(s, i) <=> ~SameTest(posted, e)
      BY <1>2, <2>2 DEF HasChanges
    <3>2. posted = [version |-> i.version, completed |-> Instant(i.completed),
                    rate |-> i.rate, failures |-> i.failures]
      BY <2>2, RecordValues
    <3>3. e \in TestRecords
      BY <2>1, <2>2, RecordKinds
    <3> HIDE DEF e, posted
    <3>4. SameTest(posted, e) <=> posted = e
      BY <3>2, <3>3 DEF SameTest, TestRecords
    <3> QED
      BY <1>2, <3>1, <3>4 DEF e, posted
  <2>3. CASE s = "Security"
    <3> DEFINE typed == [f \in DOMAIN i.exceptions |->
                            [scope |-> i.exceptions[f].scope,
                             expires |-> Expiry(i.exceptions[f])]]
    <3>1. HasChanges(s, i) <=>
              \/ posted.version # e.version
              \/ posted.scanned # e.scanned
              \/ posted.critical # e.critical
              \/ posted.high # e.high
              \/ posted.exceptions # e.exceptions
      BY <1>2, <2>3 DEF HasChanges, SameExceptions
    <3>2. posted = [version |-> i.version, scanned |-> Instant(i.scanned),
                    critical |-> i.critical, high |-> i.high, exceptions |-> typed]
      BY <2>3, RecordValues
    <3>3. e \in SecurityRecords(DOMAIN e.exceptions)
      BY <2>1, <2>3, RecordKinds
    <3> HIDE DEF e, posted, typed
    <3>4. e = [version |-> e.version, scanned |-> e.scanned, critical |-> e.critical,
               high |-> e.high, exceptions |-> e.exceptions]
      BY <3>3 DEF SecurityRecords
    <3>5. HasChanges(s, i) <=> posted # e
      BY <3>1, <3>2, <3>4
    <3> QED
      BY <1>2, <3>5 DEF e, posted
  <2>4. CASE s = "Change"
    <3>1. HasChanges(s, i) <=>
              posted.approved # e.approved \/ posted.window # e.window
      BY <1>2, <2>4 DEF HasChanges
    <3>2. posted = [approved |-> i.approved, window |-> WindowOf(i)]
      BY <2>4, RecordValues
    <3>3. e \in ChangeRecords
      BY <2>1, <2>4, RecordKinds
    <3> HIDE DEF e, posted
    <3>4. e = [approved |-> e.approved, window |-> e.window]
      BY <3>3 DEF ChangeRecords
    <3>5. HasChanges(s, i) <=> posted # e
      BY <3>1, <3>2, <3>4
    <3> QED
      BY <1>2, <3>5 DEF e, posted
  <2> QED
    BY <2>2, <2>3, <2>4 DEF AllSections
<1> QED
  BY <1>1, <1>2

\* A section without a record takes the ready demo for a change.
LEMMA ReadyIsNotBlank ==
    ASSUME NEW s \in AllSections
    PROVE  Ready(s) # Blank(s)
<1>1. ReleaseVersion # Absent
  BY ConstantsAssumption, AbsentAssumption
<1>2. /\ Ready("Test").version = ReleaseVersion /\ Blank("Test").version = Absent
      /\ Ready("Security").version = ReleaseVersion
      /\ Blank("Security").version = Absent
      /\ Ready("Change").approved = TRUE /\ Blank("Change").approved = FALSE
  BY DEF Ready, Blank
<1> QED
  BY <1>1, <1>2 DEF AllSections
-----------------------------------------------------------------------------
(* Histories and what a round makes of them.                               *)

LEMMA HistoryFacts ==
    ASSUME NEW s, NEW h, IsHistory(s, h)
    PROVE  /\ Len(h) \in Nat
           /\ h = <<>> <=> Len(h) = 0
           /\ h # <<>> => IsRecord(s, h[Len(h)])
<1> DEFINE S == {h[v] : v \in DOMAIN h}
<1>1. h \in Seq(S)
  BY DEF IsHistory
<1> HIDE DEF S
<1>2. Len(h) \in Nat /\ DOMAIN h = 1 .. Len(h)
  BY <1>1, LenProperties
<1>3. h = <<>> <=> Len(h) = 0
  BY <1>1, EmptySeq
<1> QED
  BY <1>2, <1>3 DEF IsHistory

LEMMA HistoryKnown ==
    ASSUME NEW s, NEW S, NEW h \in Seq(S), \A v \in 1 .. Len(h) : IsRecord(s, h[v])
    PROVE  IsHistory(s, h)
<1>1. Len(h) \in Nat /\ DOMAIN h = 1 .. Len(h) /\ h \in [1 .. Len(h) -> S]
  BY LenProperties
<1> DEFINE T == {h[v] : v \in DOMAIN h}
<1>2. h \in Seq(T)
  <2>1. h \in [1 .. Len(h) -> T]
    BY <1>1
  <2> HIDE DEF T
  <2> QED
    BY <1>1, <2>1, SeqDef
<1> QED
  BY <1>1, <1>2 DEF IsHistory

LEMMA HistoryStarts ==
    ASSUME NEW s
    PROVE  IsHistory(s, <<>>) /\ Len(<<>>) = 0
<1>1. <<>> \in Seq({}) /\ Len(<<>>) = 0
  BY EmptySeq
<1> DEFINE none == <<>>
<1>2. none \in Seq({}) /\ \A v \in 1 .. Len(none) : IsRecord(s, none[v])
  <2>1. none \in Seq({}) /\ Len(none) = 0
    BY <1>1, Zenon
  <2> HIDE DEF none
  <2> QED
    BY <2>1
<1>3. IsHistory(s, none)
  <2> HIDE DEF none
  <2> QED
    BY <1>2, HistoryKnown
<1> QED
  BY <1>1, <1>3

LEMMA HistoryGrows ==
    ASSUME NEW s, NEW h, IsHistory(s, h), NEW e, IsRecord(s, e)
    PROVE  LET longer == Append(h, e) IN
           /\ IsHistory(s, longer)
           /\ Len(longer) = Len(h) + 1
           /\ longer # <<>>
           /\ longer[Len(longer)] = e
<1> DEFINE S == {h[v] : v \in DOMAIN h}
           T == S \cup {e}
           longer == Append(h, e)
<1>1. h \in Seq(S) /\ \A v \in DOMAIN h : IsRecord(s, h[v])
  BY DEF IsHistory
<1> HIDE DEF S
<1>2. h \in Seq(T) /\ e \in T
  BY <1>1, SeqMonotonic
<1> HIDE DEF T
<1>3. /\ longer \in Seq(T) /\ Len(h) \in Nat /\ Len(longer) = Len(h) + 1
      /\ longer[Len(h) + 1] = e /\ \A v \in 1 .. Len(h) : longer[v] = h[v]
      /\ DOMAIN h = 1 .. Len(h)
  BY <1>2, LenProperties
<1> HIDE DEF longer
<1>4. \A v \in 1 .. Len(longer) : IsRecord(s, longer[v])
  <2> TAKE v \in 1 .. Len(longer)
  <2>1. v \in 1 .. Len(h) \/ v = Len(h) + 1
    BY <1>3
  <2> QED
    BY <1>1, <1>3, <2>1
<1>5. IsHistory(s, longer)
  BY <1>3, <1>4, HistoryKnown
<1>6. longer # <<>>
  BY <1>3, <1>5, HistoryFacts
<1> QED
  BY <1>3, <1>5, <1>6 DEF longer

\* What an execution on a history comes to, the result of a round with it, and
\* the verdicts an execution looks at.
OutcomeOf(s, h) == IF h = <<>> THEN MissingEvidence ELSE Verdict(s, h[Len(h)])
RoundResult(s, h, previous, rerun, n) ==
    Evaluate(previous, rerun, [v \in 1 .. Len(h) |-> Verdict(s, h[v])], FALSE, n + 1)
VerdictsOf(s, h) == [v \in 1 .. Len(h) |-> Verdict(s, h[v])]

LEMMA VerdictsFollow ==
    ASSUME NEW s, NEW h, IsHistory(s, h)
    PROVE  /\ Len(VerdictsOf(s, h)) = Len(h)
           /\ VerdictsOf(s, h) = <<>> <=> h = <<>>
           /\ h # <<>> => VerdictsOf(s, h)[Len(h)] = Verdict(s, h[Len(h)])
<1> DEFINE n == Len(h)
           all == VerdictsOf(s, h)
           T == {Verdict(s, h[v]) : v \in 1 .. n}
<1>1. n \in Nat /\ (h = <<>> <=> n = 0)
  BY HistoryFacts
<1>2. /\ all \in [1 .. n -> T] /\ DOMAIN all = 1 .. n
      /\ \A v \in 1 .. n : all[v] = Verdict(s, h[v])
  BY DEF VerdictsOf
<1> HIDE DEF n, all, T
<1>3. all \in Seq(T)
  BY <1>1, <1>2, SeqDef
<1>4. Len(all) \in Nat /\ DOMAIN all = 1 .. Len(all)
  BY <1>3, LenProperties
<1>5. Len(all) = n
  BY <1>1, <1>2, <1>4
<1>6. all = <<>> <=> Len(all) = 0
  BY <1>3, EmptySeq
<1>7. n # 0 => all[n] = Verdict(s, h[n])
  BY <1>1, <1>2
<1> QED
  BY <1>1, <1>5, <1>6, <1>7 DEF n, all

LEMMA ReuseFields ==
    ASSUME NEW previous, NEW n
    PROVE  /\ Reuse(previous, n).outcome = Passed
           /\ Reuse(previous, n).version = previous.version
           /\ Reuse(previous, n).source = n - 1
BY DEF Reuse

LEMMA ExecuteFields ==
    ASSUME NEW history
    PROVE  /\ Execute(history, FALSE).outcome =
                  IF history = <<>> THEN MissingEvidence ELSE history[Len(history)]
           /\ Execute(history, FALSE).version = Len(history)
           /\ Execute(history, FALSE).source = Executed
BY DEF Execute

\* A result that a round may reuse is what an execution would come to.
MayReuse(s, h, previous, n) ==
    /\ n \in Nat
    /\ previous # NoResult => n # 0
    /\ previous # NoResult /\ previous.version = Len(h) /\ previous.outcome = Passed
           => OutcomeOf(s, h) = Passed

\* A result in round n + 1 is what an execution comes to.
RightResult(s, h, result, n) ==
    /\ result.outcome = OutcomeOf(s, h)
    /\ result.version = Len(h)
    /\ result.source \in {Executed} \cup 1 .. (n + 1) - 1

LEMMA ResultInRound ==
    ASSUME NEW s, NEW h, IsHistory(s, h), NEW previous, NEW rerun \in BOOLEAN,
           NEW n, MayReuse(s, h, previous, n)
    PROVE  RightResult(s, h, RoundResult(s, h, previous, rerun, n), n)
<1> DEFINE result == RoundResult(s, h, previous, rerun, n)
<1>9. /\ n \in Nat
      /\ previous # NoResult => n # 0
      /\ previous # NoResult /\ previous.version = Len(h) /\ previous.outcome = Passed
             => OutcomeOf(s, h) = Passed
  BY DEF MayReuse
<1> DEFINE all == VerdictsOf(s, h)
<1>0. result = Evaluate(previous, rerun, all, FALSE, n + 1)
  BY Zenon DEF RoundResult, VerdictsOf
<1>1. /\ Len(all) = Len(h) /\ (all = <<>> <=> h = <<>>)
      /\ h # <<>> => all[Len(all)] = Verdict(s, h[Len(h)])
  BY VerdictsFollow
<1> HIDE DEF all, result
<1>2. ASSUME PlanningReason(previous, rerun, Len(all)) = "UnchangedEvidence"
      PROVE  /\ result.outcome = OutcomeOf(s, h)
             /\ result.version = Len(h)
             /\ result.source \in {Executed} \cup 1 .. (n + 1) - 1
  <2>1. previous # NoResult /\ previous.version = Len(h) /\ previous.outcome = Passed
    BY <1>1, <1>2 DEF PlanningReason
  <2>2. result = Reuse(previous, n + 1)
    BY <1>0, <1>2, Zenon DEF Evaluate
  <2>3. (n + 1) - 1 \in 1 .. (n + 1) - 1
    BY <2>1, <1>9
  <2>4. /\ result.outcome = Passed /\ result.version = previous.version
        /\ result.source = (n + 1) - 1
    BY <2>2, ReuseFields, Zenon
  <2> QED
    BY <1>9, <2>1, <2>3, <2>4, Zenon
<1>3. ASSUME PlanningReason(previous, rerun, Len(all)) # "UnchangedEvidence"
      PROVE  /\ result.outcome = OutcomeOf(s, h)
             /\ result.version = Len(h)
             /\ result.source \in {Executed} \cup 1 .. (n + 1) - 1
  <2>1. result = Execute(all, FALSE)
    BY <1>0, <1>3, Zenon DEF Evaluate
  <2>2. /\ result.outcome = IF all = <<>> THEN MissingEvidence ELSE all[Len(all)]
        /\ result.version = Len(all)
        /\ result.source = Executed
    BY <2>1, ExecuteFields, Zenon
  <2>3. result.outcome = OutcomeOf(s, h)
    BY <1>1, <2>2, Zenon DEF OutcomeOf
  <2> QED
    BY <1>1, <2>2, <2>3, Zenon
<1> QED
  BY <1>2, <1>3, Zenon DEF RightResult, result
-----------------------------------------------------------------------------
(* IInv.                                                                   *)

\* What IInv says of one section.
ResultHolds(s) ==
    IF round = 0 THEN results[s] = NoResult
    ELSE results[s].outcome = OutcomeOf(s, records[s])

LEMMA SectionFacts ==
    ASSUME IInv, NEW s \in Sections
    PROVE  /\ s \in AllSections
           /\ IsHistory(s, records[s])
           /\ IsForm(s, inputs[s])
           /\ HasRecord(s) => IsRecord(s, Current(s))
           /\ results[s].version = (IF round = 0 THEN 0 ELSE Len(records[s]))
           /\ ResultHolds(s)
<1>1. s \in AllSections
  BY ConstantsAssumption
<1>2. /\ IsHistory(s, records[s]) /\ IsForm(s, inputs[s])
      /\ results[s].version = (IF round = 0 THEN 0 ELSE Len(records[s]))
  BY DEF IInv, TypeOK
<1>3. HasRecord(s) => IsRecord(s, Current(s))
  BY <1>2, HistoryFacts DEF HasRecord, Current
<1>4. ResultHolds(s)
  BY DEF IInv, ResultHolds, OutcomeOf, HasRecord, Current
<1> QED
  BY <1>1, <1>2, <1>3, <1>4

\* A turn's histories: a section is as it was or has one record more.
Continues(s, history) ==
    /\ IsHistory(s, history)
    /\ round # 0 => history = records[s] \/ Len(history) = Len(records[s]) + 1

\* The results of a round on histories that continue the ones before.
LEMMA RoundResults ==
    ASSUME IInv, NEW histories, NEW rerun, RunRound(histories, rerun),
           \A s \in Sections : Continues(s, histories[s]),
           NEW s \in Sections
    PROVE  /\ results'[s].outcome = OutcomeOf(s, histories[s])
           /\ results'[s].version = Len(histories[s])
           /\ results'[s].source \in {Executed} \cup 1 .. round' - 1
<1> DEFINE h == histories[s]
           previous == results[s]
           chosen == s \in rerun
           result == results'[s]
<1>1. /\ IsHistory(s, h) /\ IsHistory(s, records[s])
      /\ round # 0 => h = records[s] \/ Len(h) = Len(records[s]) + 1
  BY SectionFacts DEF Continues
<1>2. round \in Nat
  BY DEF IInv, TypeOK
<1>3. /\ previous.version = (IF round = 0 THEN 0 ELSE Len(records[s]))
      /\ ResultHolds(s)
  BY SectionFacts
<1>4. previous # NoResult => round # 0
  BY <1>3 DEF ResultHolds
<1>5. previous # NoResult /\ previous.version = Len(h) /\ previous.outcome = Passed
          => OutcomeOf(s, h) = Passed
  <2> HAVE previous # NoResult /\ previous.version = Len(h) /\ previous.outcome = Passed
  <2>1. Len(records[s]) \in Nat
    BY <1>1, HistoryFacts
  <2>2. h = records[s]
    BY <1>1, <1>3, <1>4, <2>1
  <2> QED
    BY <1>3, <1>4, <2>2 DEF ResultHolds
<1>6. result = RoundResult(s, h, previous, chosen, round) /\ round' = round + 1
  BY DEF RunRound, RoundResult
<1>7. chosen \in BOOLEAN
  OBVIOUS
<1> HIDE DEF h, previous, chosen, result
<1>8. MayReuse(s, h, previous, round)
  BY <1>2, <1>4, <1>5 DEF MayReuse
<1>9. RightResult(s, h, result, round)
  BY <1>1, <1>6, <1>7, <1>8, ResultInRound, Zenon
<1> QED
  BY <1>6, <1>9, Zenon DEF h, result, RightResult

\* A round keeps the invariant.
LEMMA RoundKeeps ==
    ASSUME IInv, NEW histories, DOMAIN histories = Sections,
           NEW rerun, RunRound(histories, rerun), round < MaxRounds,
           \A s \in Sections : Continues(s, histories[s])
    PROVE  IInv'
<1>1. round \in Nat /\ MaxRounds \in Nat /\ round' = round + 1
  BY ConstantsAssumption DEF IInv, TypeOK, RunRound
<1>2. /\ records' = histories /\ inputs' = [s \in Sections |-> Blank(s)]
      /\ page' = IF \A s \in Sections : results'[s].outcome = Passed
                 THEN "decision" ELSE "release"
  BY DEF RunRound
<1>3. /\ round' \in 0 .. MaxRounds /\ round' # 0
      /\ page' \in {"decision", "release"}
  BY <1>1, <1>2
<1>4. ASSUME NEW s \in Sections
      PROVE  /\ IsHistory(s, records'[s])
             /\ IsForm(s, inputs'[s])
             /\ results'[s].version = Len(records'[s])
             /\ results'[s].source \in {Executed} \cup 1 .. round' - 1
             /\ results'[s].outcome = OutcomeOf(s, records'[s])
  <2>1. IsHistory(s, histories[s])
    BY DEF Continues
  <2>2. IsForm(s, Blank(s))
    BY SectionFacts, BlankIsForm
  <2>3. /\ results'[s].outcome = OutcomeOf(s, histories[s])
        /\ results'[s].version = Len(histories[s])
        /\ results'[s].source \in {Executed} \cup 1 .. round' - 1
    BY RoundResults
  <2> QED
    BY <1>2, <2>1, <2>2, <2>3
<1>5. TypeOK'
  <2>1. page' \in {"release", "remediate", "demo"} =>
            \E s \in Sections : results'[s].outcome # Passed
    BY <1>2
  <2>2. DOMAIN records' = Sections /\ DOMAIN inputs' = Sections
    BY <1>2
  <2> QED
    BY <1>3, <1>4, <2>1, <2>2 DEF TypeOK, Problem, Pages
<1>6. \A s \in Sections :
          results'[s].outcome =
              IF HasRecord(s)' THEN Verdict(s, Current(s))' ELSE MissingEvidence
  BY <1>4 DEF OutcomeOf, HasRecord, Current, Verdict
<1> QED
  BY <1>3, <1>5, <1>6 DEF IInv
-----------------------------------------------------------------------------
(* The steps.                                                              *)

\* The histories that a post leaves.
PostedHistories ==
    [s \in Sections |->
        IF HasChanges(s, inputs[s])
        THEN Append(records[s], ToRecord(s, inputs[s])) ELSE records[s]]

LEMMA PostContinues ==
    ASSUME IInv, \A s \in Sections : Accepted(s, inputs[s]), NEW s \in Sections
    PROVE  /\ Continues(s, PostedHistories[s])
           /\ OutcomeOf(s, PostedHistories[s]) =
                  IF HasRecord(s) \/ inputs[s] # Blank(s)
                  THEN Verdict(s, ToRecord(s, inputs[s])) ELSE MissingEvidence
<1> DEFINE e == ToRecord(s, inputs[s])
           h == records[s]
           changed == HasChanges(s, inputs[s])
<1>1. IsRecord(s, e)
  BY SectionFacts, RecordMade
<1>2. IsHistory(s, h) /\ s \in AllSections /\ (HasRecord(s) => IsRecord(s, Current(s)))
  BY SectionFacts
<1>3. changed <=> IF HasRecord(s) THEN e # Current(s) ELSE inputs[s] # Blank(s)
  BY <1>2, ChangesAreSeen
<1>4. PostedHistories[s] = IF changed THEN Append(h, e) ELSE h
  BY DEF PostedHistories
<1>5. HasRecord(s) <=> h # <<>>
  BY DEF HasRecord
<1>6. Current(s) = h[Len(h)]
  BY DEF Current
<1> HIDE DEF e, h, changed
<1>7. CASE changed
  <2> DEFINE longer == Append(h, e)
  <2>1. /\ IsHistory(s, longer) /\ Len(longer) = Len(h) + 1
        /\ longer # <<>> /\ longer[Len(longer)] = e
    BY <1>1, <1>2, HistoryGrows
  <2>2. PostedHistories[s] = longer
    BY <1>4, <1>7
  <2> HIDE DEF longer
  <2>3. OutcomeOf(s, longer) = Verdict(s, e)
    BY <2>1, Zenon DEF OutcomeOf
  <2>4. Continues(s, longer)
    BY <2>1, Zenon DEF Continues, h
  <2>5. HasRecord(s) \/ inputs[s] # Blank(s)
    BY <1>3, <1>7
  <2> QED
    BY <2>2, <2>3, <2>4, <2>5 DEF e
<1>8. CASE ~changed
  <2>1. PostedHistories[s] = h
    BY <1>4, <1>8
  <2>2. Continues(s, h)
    BY <1>2, Zenon DEF Continues, h
  <2>3. CASE HasRecord(s)
    <3>1. OutcomeOf(s, h) = Verdict(s, e)
      BY <1>3, <1>5, <1>6, <1>8, <2>3, Zenon DEF OutcomeOf
    <3> QED
      BY <2>1, <2>2, <2>3, <3>1 DEF e
  <2>4. CASE ~HasRecord(s)
    <3>1. OutcomeOf(s, h) = MissingEvidence /\ inputs[s] = Blank(s)
      BY <1>3, <1>5, <1>8, <2>4, Zenon DEF OutcomeOf
    <3> QED
      BY <2>1, <2>2, <2>4, <3>1
  <2> QED
    BY <2>3, <2>4
<1> QED
  BY <1>7, <1>8

LEMMA InvariantInit == Init => IInv
<1> SUFFICES ASSUME Init PROVE IInv
  OBVIOUS
<1> DEFINE none == <<>>
<1>1. /\ DOMAIN records = Sections /\ DOMAIN inputs = Sections
      /\ round = 0 /\ page = "new"
      /\ \A s \in Sections :
             records[s] = none /\ inputs[s] = Blank(s) /\ results[s] = NoResult
  BY Zenon DEF Init
<1>2. \A s \in Sections : IsHistory(s, none)
  BY HistoryStarts, Zenon
<1> HIDE DEF none
<1>3. \A s \in Sections : IsForm(s, Blank(s))
  BY ConstantsAssumption, BlankIsForm
<1>4. NoResult.version = 0 /\ NoResult.source = Executed
  BY DEF NoResult
<1>5. round \in 0 .. MaxRounds
  BY <1>1, ConstantsAssumption
<1>6. TypeOK
  BY <1>1, <1>2, <1>3, <1>4, <1>5 DEF TypeOK, Pages
<1> QED
  BY <1>1, <1>6 DEF IInv

LEMMA SubmitKeeps ==
    ASSUME IInv, Submit
    PROVE  IInv'
<1>1. page = "new" /\ round = 0 /\ round < MaxRounds
  BY ConstantsAssumption DEF Submit, IInv
<1>2. PICK included \in SUBSET Sections :
          \E typed \in [included -> UNION {Inputs(s) : s \in Sections}] :
              /\ \A s \in included :
                     typed[s] \in Inputs(s) /\ Accepted(s, typed[s]) /\ Complete(s, typed[s])
              /\ RunRound([s \in Sections |->
                     IF s \in included THEN <<ToRecord(s, typed[s])>> ELSE <<>>], {})
  BY Zenon DEF Submit
<1>3. PICK typed \in [included -> UNION {Inputs(s) : s \in Sections}] :
          /\ \A s \in included :
                 typed[s] \in Inputs(s) /\ Accepted(s, typed[s]) /\ Complete(s, typed[s])
          /\ RunRound([s \in Sections |->
                 IF s \in included THEN <<ToRecord(s, typed[s])>> ELSE <<>>], {})
  BY <1>2, Zenon
<1> DEFINE none == <<>>
           histories == [s \in Sections |->
               IF s \in included THEN <<ToRecord(s, typed[s])>> ELSE none]
<1>4. ASSUME NEW s \in Sections
      PROVE  Continues(s, histories[s])
  <2>1. IsHistory(s, none)
    BY HistoryStarts, Zenon
  <2>2. ASSUME s \in included
        PROVE  IsHistory(s, <<ToRecord(s, typed[s])>>)
    <3> DEFINE e == ToRecord(s, typed[s])
    <3>1. IsRecord(s, e)
      BY <1>3, <2>2, ConstantsAssumption, InputsAssumption, RecordMade
    <3>2. IsHistory(s, Append(none, e))
      <4> HIDE DEF none, e
      <4> QED
        BY <2>1, <3>1, HistoryGrows
    <3>3. Append(none, e) = <<e>>
      OBVIOUS
    <3> QED
      BY <3>2, <3>3
  <2>3. histories[s] = IF s \in included THEN <<ToRecord(s, typed[s])>> ELSE none
    BY Zenon
  <2> HIDE DEF none, histories
  <2>4. IsHistory(s, histories[s])
    BY <2>1, <2>2, <2>3, Zenon
  <2> QED
    BY <1>1, <2>4 DEF Continues
<1>5. RunRound(histories, {}) /\ DOMAIN histories = Sections
  BY <1>3, Zenon
<1> HIDE DEF histories
<1> QED
  BY <1>1, <1>4, <1>5, RoundKeeps

LEMMA OpenFormKeeps ==
    ASSUME IInv, NEW demo \in BOOLEAN, OpenForm(demo)
    PROVE  IInv'
<1>1. /\ page = "release" /\ round < MaxRounds /\ page' \in {"remediate", "demo"}
      /\ records' = records /\ results' = results /\ round' = round
      /\ DOMAIN inputs' = Sections
  BY DEF OpenForm
<1>2. ASSUME NEW s \in Sections
      PROVE  IsForm(s, inputs'[s])
  <2>1. inputs'[s] = IF demo /\ Problem(s) THEN Ready(s) ELSE Prefilled(s)
    BY DEF OpenForm
  <2>2. IsForm(s, Ready(s)) /\ IsForm(s, Prefilled(s))
    BY SectionFacts, ReadyIsForm, BlankIsForm, FormShown DEF Prefilled
  <2> QED
    BY <2>1, <2>2
<1>3. TypeOK'
  BY <1>1, <1>2 DEF IInv, TypeOK, Pages, Problem
<1> QED
  BY <1>1, <1>3 DEF IInv, HasRecord, Current, Verdict

LEMMA EditKeeps ==
    ASSUME IInv, NEW s \in Sections, Edit(s)
    PROVE  IInv'
<1>1. PICK i \in Inputs(s) : inputs' = [inputs EXCEPT ![s] = i]
  BY DEF Edit
<1>2. records' = records /\ results' = results /\ round' = round /\ page' = page
  BY DEF Edit
<1>3. IsForm(s, i)
  BY ConstantsAssumption, InputsAssumption
<1>4. DOMAIN inputs' = Sections /\ \A x \in Sections : IsForm(x, inputs'[x])
  BY <1>1, <1>3, SectionFacts DEF IInv, TypeOK
<1>5. TypeOK'
  BY <1>2, <1>4 DEF IInv, TypeOK, Problem
<1> QED
  BY <1>2, <1>5 DEF IInv, HasRecord, Current, Verdict

LEMMA PostRuns ==
    ASSUME IInv, Post
    PROVE  /\ round < MaxRounds
           /\ round # 0
           /\ \A s \in Sections : Accepted(s, inputs[s])
           /\ DOMAIN PostedHistories = Sections
           /\ \E rerun \in SUBSET Sections : RunRound(PostedHistories, rerun)
<1>1. page \in {"remediate", "demo"} /\ \A s \in Sections : Accepted(s, inputs[s])
  BY DEF Post
<1>2. round < MaxRounds /\ round # 0
  BY <1>1 DEF IInv
<1>3. DOMAIN PostedHistories = Sections
  BY DEF PostedHistories
<1>4. \E rerun \in SUBSET Sections : RunRound(PostedHistories, rerun)
  BY Zenon DEF Post, PostedHistories
<1> QED
  BY <1>1, <1>2, <1>3, <1>4

LEMMA PostKeeps ==
    ASSUME IInv, Post
    PROVE  IInv'
<1>1. PICK rerun \in SUBSET Sections : RunRound(PostedHistories, rerun)
  BY PostRuns
<1>2. \A s \in Sections : Continues(s, PostedHistories[s])
  BY PostRuns, PostContinues
<1> QED
  BY <1>1, <1>2, PostRuns, RoundKeeps

LEMMA InvariantStep == IInv /\ [Next]_vars => IInv'
<1> SUFFICES ASSUME IInv, [Next]_vars PROVE IInv'
  OBVIOUS
<1>1. CASE Submit
  BY <1>1, SubmitKeeps
<1>2. CASE \E demo \in BOOLEAN : OpenForm(demo)
  BY <1>2, OpenFormKeeps
<1>3. CASE \E s \in Sections : Edit(s)
  BY <1>3, EditKeeps
<1>4. CASE Post
  BY <1>4, PostKeeps
<1>5. CASE UNCHANGED vars
  BY <1>5 DEF vars, IInv, TypeOK, Problem, HasRecord, Current, Verdict
<1> QED
  BY <1>1, <1>2, <1>3, <1>4, <1>5 DEF Next

\* A remediation form was posted: nothing else adds a round to an open form.
LEMMA PostedIsPost ==
    ASSUME IInv, [Next]_vars, Posted
    PROVE  Post
<1>1. round' = round + 1 /\ round \in Nat /\ page \in {"remediate", "demo"}
  BY DEF Posted, IInv, TypeOK
<1>2. round' # round
  BY <1>1
<1> QED
  BY <1>1, <1>2 DEF Next, Submit, OpenForm, Edit, vars

\* What a post makes of every section.
LEMMA PostResults ==
    ASSUME IInv, Post, NEW s \in Sections
    PROVE  /\ records'[s] = PostedHistories[s]
           /\ results'[s].outcome = OutcomeOf(s, PostedHistories[s])
           /\ results'[s].version = Len(PostedHistories[s])
<1>1. PICK rerun \in SUBSET Sections : RunRound(PostedHistories, rerun)
  BY PostRuns
<1>2. \A x \in Sections : Continues(x, PostedHistories[x])
  BY PostRuns, PostContinues
<1>3. records' = PostedHistories
  BY <1>1, Zenon DEF RunRound
<1> QED
  BY <1>1, <1>2, <1>3, RoundResults
-----------------------------------------------------------------------------
(* The theorems.                                                           *)

\* Before the first round nothing has a result, a form is open only if its
\* post may start a round, and every result, executed or reused over any
\* number of rounds, is the verdict on the record that is current
\* (NewModel, RemediateModel, with RoundPlanner and ResultReuse).
THEOREM InvariantCorrect == Spec => []IInv
<1> QED
  BY InvariantInit, InvariantStep, PTL DEF Spec

\* Records and forms keep their kinds, a result names the record that is
\* current, and a form is open only while a check has a problem.
THEOREM TypeCorrect == Spec => []TypeOK
<1>1. IInv => TypeOK
  BY DEF IInv
<1> QED
  BY <1>1, InvariantCorrect, PTL

\* Every check's latest result is what the policy table of the specification
\* says of its current record, for any records, any window and any number of
\* rounds (TestPolicy, SecurityPolicy and ChangePolicy with RoundPlanner).
THEOREM ResultIsTheTablesCorrect == Spec => []ResultIsTheTables
<1>1. ASSUME IInv, round > 0, NEW s \in Sections
      PROVE  results[s].outcome =
                 IF ~HasRecord(s) \/ MissesFacts(s, Current(s)) THEN MissingEvidence
                 ELSE IF IsReady(s, Current(s)) THEN Passed ELSE Blocked
  <2>1. results[s].outcome =
            IF HasRecord(s) THEN Verdict(s, Current(s)) ELSE MissingEvidence
    BY <1>1 DEF IInv
  <2>2. s \in AllSections /\ (HasRecord(s) => IsRecord(s, Current(s)))
    BY <1>1, SectionFacts
  <2>3. HasRecord(s) =>
            Verdict(s, Current(s)) =
                IF MissesFacts(s, Current(s)) THEN MissingEvidence
                ELSE IF IsReady(s, Current(s)) THEN Passed ELSE Blocked
    BY <2>2, VerdictIsTheTables
  <2> QED
    BY <2>1, <2>3, Zenon
<1>2. IInv => ResultIsTheTables
  BY <1>1 DEF ResultIsTheTables
<1> QED
  BY <1>2, InvariantCorrect, PTL

\* A post appends one version, which says what was typed, to each section
\* whose input means another record, and leaves every other section alone
\* (the HasChanges methods and ToEvidence of Remediate.cshtml.cs).
THEOREM EditIsRecordedCorrect == Spec => EditIsRecorded
<1>1. ASSUME IInv, [Next]_vars, Posted, NEW s \in Sections
      PROVE  records'[s] = IF MeansChange(s)
                           THEN Append(records[s], ToRecord(s, inputs[s]))
                           ELSE records[s]
  <2>1. records'[s] = PostedHistories[s]
    BY <1>1, PostedIsPost, PostResults
  <2>2. PostedHistories[s] =
            IF HasChanges(s, inputs[s])
            THEN Append(records[s], ToRecord(s, inputs[s])) ELSE records[s]
    BY <1>1, Zenon DEF PostedHistories
  <2>3. HasChanges(s, inputs[s]) <=> MeansChange(s)
    BY <1>1, SectionFacts, ChangesAreSeen DEF MeansChange
  <2> QED
    BY <2>1, <2>2, <2>3, Zenon
<1>2. IInv /\ [Next]_vars =>
          (Posted => \A s \in Sections :
              records'[s] = IF MeansChange(s)
                            THEN Append(records[s], ToRecord(s, inputs[s]))
                            ELSE records[s])
  BY <1>1
<1> QED
  BY <1>2, InvariantCorrect, PTL DEF Spec, EditIsRecorded

\* A section posted as it was filled in gets no version and keeps its result,
\* wherever the form can show the record exactly
\* (InputModel.From and ToEvidence, LocalDateTimeDisplay, EvidenceFormParsing).
THEOREM UntouchedStaysCorrect == Spec => UntouchedStays
<1>1. ASSUME IInv, [Next]_vars, Posted, NEW s \in Sections, Untouched(s), FormFits(s)
      PROVE  /\ records'[s] = records[s]
             /\ results'[s].outcome = results[s].outcome
             /\ results'[s].version = results[s].version
  <2>1. Post /\ round # 0
    BY <1>1, PostedIsPost, PostRuns
  <2>2. /\ records'[s] = PostedHistories[s]
        /\ results'[s].outcome = OutcomeOf(s, PostedHistories[s])
        /\ results'[s].version = Len(PostedHistories[s])
    BY <1>1, <2>1, PostResults
  <2>3. s \in AllSections /\ (HasRecord(s) => IsRecord(s, Current(s)))
    BY <1>1, SectionFacts
  <2>4. ~HasChanges(s, inputs[s])
    <3>1. CASE HasRecord(s)
      <4>1. inputs[s] = Shown(s, Current(s))
        BY <1>1, <3>1 DEF Untouched, Prefilled
      <4>2. ToRecord(s, Shown(s, Current(s))) = Current(s)
        BY <1>1, <2>3, <3>1, RecordReturns DEF FormFits
      <4> QED
        BY <2>3, <3>1, <4>1, <4>2, ChangesAreSeen
    <3>2. CASE ~HasRecord(s)
      BY <1>1, <2>3, <3>2, ChangesAreSeen DEF Untouched, Prefilled
    <3> QED
      BY <3>1, <3>2
  <2>5. PostedHistories[s] = records[s]
    BY <1>1, <2>4, Zenon DEF PostedHistories
  <2>6. /\ results[s].outcome = OutcomeOf(s, records[s])
        /\ results[s].version = Len(records[s])
    BY <1>1, <2>1, SectionFacts DEF ResultHolds
  <2> QED
    BY <2>2, <2>5, <2>6, Zenon
<1>2. IInv /\ [Next]_vars =>
          (Posted => \A s \in Sections :
              Untouched(s) /\ FormFits(s) =>
                  /\ records'[s] = records[s]
                  /\ results'[s].outcome = results[s].outcome
                  /\ results'[s].version = results[s].version)
  BY <1>1
<1> QED
  BY <1>2, InvariantCorrect, PTL DEF Spec, UntouchedStays

\* Posted as it is offered, the ready demo leaves no problem, for any window,
\* also one with the repeated hour in it, and however little of a passing
\* record its form can show (ApplyReadyDemo, with the three policies).
THEOREM DemoIsReadyCorrect == Spec => DemoIsReady
<1>1. ASSUME IInv, Post, NEW s \in Sections,
             inputs[s] = IF Problem(s) THEN Ready(s) ELSE Prefilled(s)
      PROVE  results'[s].outcome = Passed
  <2>1. round # 0 /\ Accepted(s, inputs[s])
    BY <1>1, PostRuns
  <2>2. results'[s].outcome = OutcomeOf(s, PostedHistories[s])
    BY <1>1, PostResults
  <2>3. OutcomeOf(s, PostedHistories[s]) =
            IF HasRecord(s) \/ inputs[s] # Blank(s)
            THEN Verdict(s, ToRecord(s, inputs[s])) ELSE MissingEvidence
    BY <1>1, PostRuns, PostContinues
  <2>4. /\ s \in AllSections /\ IsForm(s, inputs[s])
        /\ HasRecord(s) => IsRecord(s, Current(s))
    BY <1>1, SectionFacts
  <2>5. CASE Problem(s)
    <3>1. inputs[s] = Ready(s)
      BY <1>1, <2>5
    <3>2. inputs[s] # Blank(s) /\ Verdict(s, ToRecord(s, inputs[s])) = Passed
      BY <2>4, <3>1, ReadyPasses, ReadyIsNotBlank
    <3> QED
      BY <2>2, <2>3, <3>2, Zenon
  <2>6. CASE ~Problem(s)
    <3>1. inputs[s] = Prefilled(s)
      BY <1>1, <2>6
    <3>2. (IF HasRecord(s) THEN Verdict(s, Current(s)) ELSE MissingEvidence) = Passed
      BY <1>1, <2>1, <2>6 DEF IInv, Problem
    <3>3. HasRecord(s) /\ Verdict(s, Current(s)) = Passed
      BY <3>2 DEF MissingEvidence, Passed
    <3>4. inputs[s] = Shown(s, Current(s))
      BY <3>1, <3>3 DEF Prefilled
    <3>5. IsRecord(s, ToRecord(s, Shown(s, Current(s))))
      BY <2>1, <2>4, <3>4, RecordMade
    <3>6. Verdict(s, ToRecord(s, inputs[s])) = Passed
      BY <2>4, <3>3, <3>4, <3>5, PassingReturns
    <3> QED
      BY <2>2, <2>3, <3>3, <3>6, Zenon
  <2> QED
    BY <2>5, <2>6
<1>2. ASSUME IInv, [Next]_vars, Posted, page = "demo",
             \A s \in Sections :
                 inputs[s] = IF Problem(s) THEN Ready(s) ELSE Prefilled(s)
      PROVE  page' = "decision"
  <2>1. Post
    BY <1>2, PostedIsPost
  <2>2. \A s \in Sections : results'[s].outcome = Passed
    BY <1>1, <1>2, <2>1
  <2>3. PICK rerun \in SUBSET Sections : RunRound(PostedHistories, rerun)
    BY <1>2, <2>1, PostRuns
  <2> QED
    BY <2>2, <2>3 DEF RunRound
<1>3. IInv /\ [Next]_vars =>
          (Posted /\ page = "demo"
               /\ (\A s \in Sections :
                       inputs[s] = IF Problem(s) THEN Ready(s) ELSE Prefilled(s))
           => page' = "decision")
  BY <1>2
<1> QED
  BY <1>3, InvariantCorrect, PTL DEF Spec, DemoIsReady
=============================================================================
