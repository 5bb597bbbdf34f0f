---------------------------- MODULE DeviceProofs ----------------------------
(***************************************************************************)
(* What a display shows and does: severity and rounding (Gauge), for every *)
(* configuration of thresholds and every raw value; touch, alarms, light   *)
(* and palette (DisplayUi), for any pages, items, backlight levels, any    *)
(* order of messages, gestures and timers, and any number of alarms; tiles *)
(* and header (DisplayTiles), for any items, readings and interruptions.   *)
(***************************************************************************)
EXTENDS Gauge, DisplayUi, DisplayTiles, TLAPS

TwoLevels == {"warn", "alarm"}

\* Every bound configured is a number.
LEMMA BoundsAreInts ==
  \A name \in DOMAIN Thresholds : Thresholds[name] \in Int
BY GaugeAssumption DEF ValidThresholds

LEMMA HysteresisNat == H \in Nat
<1>1. H \in Int BY BoundsAreInts DEF H, Hysteresis
<1>2. H >= 0 BY GaugeAssumption DEF ValidThresholds, H
<1> QED BY <1>1, <1>2

LEMMA DivBounds ==
  ASSUME NEW b \in Int, NEW w \in Int, w > 0
  PROVE  b \div w \in Int /\ w * (b \div w) <= b /\ b < w * (b \div w) + w
<1>1. b \div w \in Int BY SMT
<1>2. w * (b \div w) <= b BY SMT
<1>3. b < w * (b \div w) + w BY SMT
<1> QED BY <1>1, <1>2, <1>3

LEMMA DivMod ==
  ASSUME NEW a \in Int, NEW w \in Nat, w > 0
  PROVE  a \div w \in Int /\ a % w \in Nat /\ a % w < w /\ a = w * (a \div w) + (a % w)
<1>1. a % w \in Nat /\ a % w < w BY SMT
<1>2. a \div w \in Int /\ w * (a \div w) <= a /\ a < w * (a \div w) + w BY DivBounds
<1>3. a = w * (a \div w) + (a % w) BY SMT
<1> QED BY <1>1, <1>2, <1>3

LEMMA RoundInt == \A n \in Int : RoundHalfUp(n) \in Int
BY UnitAssumption, SMT DEF RoundHalfUp

\* round_value: the digits shown are within half a unit of the value, and a value of the other
\* sign shows the same digits with the other sign.
THEOREM RoundsToNearest ==
  \A n \in Int : /\ 2 * Abs(n - Unit * RoundHalfUp(n)) <= Unit
                 /\ RoundHalfUp(-n) = -RoundHalfUp(n)
<1> SUFFICES ASSUME NEW n \in Int
    PROVE  /\ 2 * Abs(n - Unit * RoundHalfUp(n)) <= Unit
           /\ RoundHalfUp(-n) = -RoundHalfUp(n)
    OBVIOUS
<1> DEFINE W == 2 * Unit
<1> DEFINE Q(a) == (a + Unit) \div W
<1>1. Unit \in Nat /\ Unit > 0 /\ W \in Nat /\ W > 0 BY UnitAssumption
<1>2. ASSUME NEW a \in Nat
      PROVE  Q(a) \in Nat /\ W * Q(a) <= a + Unit /\ a + Unit < W * Q(a) + W
  <2> DEFINE b == a + Unit
  <2>1. b \in Nat BY <1>1
  <2>2. b \div W \in Int /\ W * (b \div W) <= b /\ b < W * (b \div W) + W
    BY <1>1, <2>1, DivBounds
  <2>3. b \div W >= 0 BY <1>1, <2>1
  <2> QED BY <2>1, <2>2, <2>3
<1>3. CASE n = 0
  <2>1. RoundHalfUp(n) = Q(0) /\ RoundHalfUp(-n) = Q(0) BY <1>3, <1>1 DEF RoundHalfUp
  <2>2. Q(0) = 0 
    <3>1. W * Q(0) <= Unit /\ Q(0) \in Nat BY <1>2, <1>1
    <3>2. Q(0) >= 1 => W * Q(0) >= W BY <3>1, <1>1
    <3> QED BY <3>1, <3>2, <1>1
  <2> QED BY <2>1, <2>2, <1>3, <1>1 DEF Abs
<1>4. CASE n # 0
  <2> DEFINE m == Abs(n)
  <2>1. m \in Nat /\ m > 0 BY <1>4 DEF Abs
  <2>2. RoundHalfUp(m) = Q(2 * m) /\ RoundHalfUp(-m) = -Q(2 * m)
    BY <2>1, <1>1 DEF RoundHalfUp
  <2>3. n = m \/ n = -m BY DEF Abs
  <2>4. 2 * m \in Nat BY <2>1
  <2>5. /\ Q(2 * m) \in Nat /\ W * Q(2 * m) <= 2 * m + Unit
        /\ 2 * m + Unit < W * Q(2 * m) + W
    BY <1>2, <2>4
  <2> HIDE DEF Q
  <2>6. -(-m) = m BY <2>1
  <2>7. RoundHalfUp(-n) = -RoundHalfUp(n)
    <3>1. CASE n = m BY <3>1, <2>2
    <3>2. CASE n = -m BY <3>2, <2>2, <2>5, <2>6
    <3> QED BY <2>3, <3>1, <3>2
  <2> DEFINE q == Q(2 * m)
  <2> DEFINE u == Unit * q
  <2>8. u \in Int /\ Unit * (-q) = -u /\ W * q = 2 * u BY <2>5, <1>1
  <2>9. 2 * Abs(n - Unit * RoundHalfUp(n)) <= Unit
    <3>1. CASE n = m
      <4>1. n - Unit * RoundHalfUp(n) = m - u BY <3>1, <2>2
      <4> HIDE DEF u
      <4> QED BY <4>1, <2>5, <2>8, <2>1, <1>1 DEF Abs
    <3>2. CASE n = -m
      <4>1. n - Unit * RoundHalfUp(n) = -m + u BY <3>2, <2>2, <2>8, <2>1
      <4> HIDE DEF u
      <4> QED BY <4>1, <2>5, <2>8, <2>1, <1>1 DEF Abs
    <3> QED BY <2>3, <3>1, <3>2
  <2> QED BY <2>7, <2>9
<1> QED BY <1>3, <1>4

-----------------------------------------------------------------------------
(* One reading.                                                              *)

\* numeric_sev by its two levels.
LEMMA SevCases ==
  ASSUME NEW v, NEW t, NEW prev
  PROVE  /\ NumericSev(v, t, prev) \in Levels
         /\ NumericSev(v, t, prev) = "alarm" <=> Alarming(v, t, 0) \/ HeldAlarm(v, t, prev)
         /\ NumericSev(v, t, prev) = "warn" <=>
              /\ ~(Alarming(v, t, 0) \/ HeldAlarm(v, t, prev))
              /\ Warning(v, t, 0) \/ HeldWarn(v, t, prev)
BY Zenon DEF NumericSev, Levels

\* Severity never depends on how often a reading is repeated: a SignalK server that sends the
\* same value again cannot change the colour of a tile.
THEOREM RepeatedReading ==
  ASSUME NEW v, NEW t, NEW prev
  PROVE  NumericSev(v, t, NumericSev(v, t, prev)) = NumericSev(v, t, prev)
<1> DEFINE s == NumericSev(v, t, prev)
<1> DEFINE r == NumericSev(v, t, s)
<1>1. /\ s \in Levels
      /\ s = "alarm" <=> Alarming(v, t, 0) \/ HeldAlarm(v, t, prev)
      /\ s = "warn" <=> /\ ~(Alarming(v, t, 0) \/ HeldAlarm(v, t, prev))
                        /\ Warning(v, t, 0) \/ HeldWarn(v, t, prev)
  BY SevCases
<1>2. /\ r \in Levels
      /\ r = "alarm" <=> Alarming(v, t, 0) \/ HeldAlarm(v, t, s)
      /\ r = "warn" <=> /\ ~(Alarming(v, t, 0) \/ HeldAlarm(v, t, s))
                        /\ Warning(v, t, 0) \/ HeldWarn(v, t, s)
  BY SevCases
<1> HIDE DEF s, r
<1>3. HeldAlarm(v, t, s) => s = "alarm" BY DEF HeldAlarm
<1>4. HeldAlarm(v, t, prev) => (s = "alarm" => HeldAlarm(v, t, s)) BY DEF HeldAlarm
<1>5. HeldWarn(v, t, s) => s = "warn" \/ s = "alarm" BY DEF HeldWarn
<1>6. HeldWarn(v, t, prev) => (s = "warn" => HeldWarn(v, t, s)) BY DEF HeldWarn
<1>7. r = "alarm" <=> s = "alarm" BY <1>1, <1>2, <1>3, <1>4
<1>8. r = "warn" <=> s = "warn" BY <1>1, <1>2, <1>3, <1>5, <1>6, <1>7
<1>9. r = s BY <1>1, <1>2, <1>7, <1>8 DEF Levels
<1> QED BY <1>9 DEF r, s

\* A value clear of a bound by the hysteresis and a value beyond it are further apart than that.
LEMMA Apart ==
  ASSUME NEW v \in Int, NEW w \in Int, NEW b \in Int
  PROVE  /\ ~(v < b + H) /\ w < b + 0 => Abs(w - v) > H
         /\ ~(v > b - H) /\ w > b - 0 => Abs(w - v) > H
<1>1. H \in Nat BY HysteresisNat
<1> QED BY <1>1 DEF Abs

LEMMA AlarmApart ==
  ASSUME NEW v \in Int, NEW w \in Int,
         ~Alarming(v, Thresholds, H), Alarming(w, Thresholds, 0)
  PROVE  Abs(w - v) > H
<1>0. H \in Nat BY HysteresisNat
<1>1. CASE Below(w, Thresholds, "alarm_below", 0)
  <2>1. "alarm_below" \in DOMAIN Thresholds /\ w < Thresholds["alarm_below"] + 0
    BY <1>1 DEF Below
  <2>2. ~(v < Thresholds["alarm_below"] + H) BY <2>1 DEF Alarming, Below
  <2>3. Thresholds["alarm_below"] \in Int BY <2>1, BoundsAreInts
  <2> QED BY <2>1, <2>2, <2>3, <1>0, Apart
<1>2. CASE Above(w, Thresholds, "alarm_above", 0)
  <2>1. "alarm_above" \in DOMAIN Thresholds /\ w > Thresholds["alarm_above"] - 0
    BY <1>2 DEF Above
  <2>2. ~(v > Thresholds["alarm_above"] - H) BY <2>1 DEF Alarming, Above
  <2>3. Thresholds["alarm_above"] \in Int BY <2>1, BoundsAreInts
  <2> QED BY <2>1, <2>2, <2>3, <1>0, Apart
<1> QED BY <1>1, <1>2 DEF Alarming

LEMMA WarnApart ==
  ASSUME NEW v \in Int, NEW w \in Int,
         ~Warning(v, Thresholds, H), Warning(w, Thresholds, 0)
  PROVE  Abs(w - v) > H
<1>0. H \in Nat BY HysteresisNat
<1>1. CASE Below(w, Thresholds, "warn_below", 0)
  <2>1. "warn_below" \in DOMAIN Thresholds /\ w < Thresholds["warn_below"] + 0
    BY <1>1 DEF Below
  <2>2. ~(v < Thresholds["warn_below"] + H) BY <2>1 DEF Warning, Below
  <2>3. Thresholds["warn_below"] \in Int BY <2>1, BoundsAreInts
  <2> QED BY <2>1, <2>2, <2>3, <1>0, Apart
<1>2. CASE Above(w, Thresholds, "warn_above", 0)
  <2>1. "warn_above" \in DOMAIN Thresholds /\ w > Thresholds["warn_above"] - 0
    BY <1>2 DEF Above
  <2>2. ~(v > Thresholds["warn_above"] - H) BY <2>1 DEF Warning, Above
  <2>3. Thresholds["warn_above"] \in Int BY <2>1, BoundsAreInts
  <2> QED BY <2>1, <2>2, <2>3, <1>0, Apart
<1> QED BY <1>1, <1>2 DEF Warning

-----------------------------------------------------------------------------
(* The gauge.                                                                *)

\* What a reading that ended a level says of the bounds.
Cleared ==
  /\ \A v \in left["alarm"] : v \in Int /\ ~Alarming(v, Thresholds, H)
  /\ \A v \in left["warn"] : v \in Int /\ ~Warning(v, Thresholds, H)

Types ==
  /\ value \in Int
  /\ sev \in Levels \cup {"none"}
  /\ alarmed \in BOOLEAN /\ warned \in BOOLEAN

GaugeInv == Types /\ Agrees /\ Cleared

LEMMA AlarmStep ==
  ASSUME Types, Agrees, NEW v, sev' = NumericSev(v, Thresholds, sev),
         alarmed' = LatchOn(Alarming(v, Thresholds, 0), alarmed, Alarming(v, Thresholds, H)),
         warned' = LatchOn(Warning(v, Thresholds, 0), warned \/ alarmed,
                           Warning(v, Thresholds, H))
  PROVE  /\ sev' \in Levels /\ alarmed' \in BOOLEAN /\ warned' \in BOOLEAN
         /\ Agrees'
<1> DEFINE a0 == Alarming(v, Thresholds, 0)
<1> DEFINE aH == Alarming(v, Thresholds, H)
<1> DEFINE w0 == Warning(v, Thresholds, 0)
<1> DEFINE wH == Warning(v, Thresholds, H)
<1>1. /\ sev' \in Levels
      /\ sev' = "alarm" <=> a0 \/ (sev = "alarm" /\ aH)
      /\ sev' = "warn" <=> /\ ~(a0 \/ (sev = "alarm" /\ aH))
                           /\ w0 \/ (sev \in {"warn", "alarm"} /\ wH)
  BY SevCases DEF HeldAlarm, HeldWarn, H
<1>2. a0 \in BOOLEAN /\ aH \in BOOLEAN /\ w0 \in BOOLEAN /\ wH \in BOOLEAN
  BY DEF Alarming, Warning
<1>3. alarmed' = (a0 \/ (alarmed /\ aH)) /\ warned' = (w0 \/ ((warned \/ alarmed) /\ wH))
  BY DEF LatchOn
<1> HIDE DEF a0, aH, w0, wH
<1>4. sev \in {"warn", "alarm"} <=> warned \/ alarmed BY DEF Agrees, Types
<1>5. alarmed' \in BOOLEAN /\ warned' \in BOOLEAN BY <1>2, <1>3 DEF Types
<1>6. Agrees' BY <1>1, <1>2, <1>3, <1>4 DEF Agrees
<1> QED BY <1>1, <1>5, <1>6

LEMMA RankFacts == Rank("ok") = 0 /\ Rank("warn") = 1 /\ Rank("alarm") = 2
BY DEF Rank

LEMMA AtLeastFacts ==
  ASSUME NEW s \in Levels \cup {"none"}
  PROVE  /\ AtLeast("alarm", s) <=> s = "alarm"
         /\ AtLeast("warn", s) <=> s \in {"warn", "alarm"}
BY RankFacts DEF AtLeast, Levels

LEMMA ReadingStep ==
  ASSUME GaugeInv, NEW raw \in Raws, Reading(raw)
  PROVE  GaugeInv'
<1> DEFINE v == RoundHalfUp(raw)
<1>1. v \in Int BY GaugeAssumption, RoundInt
<1>2. Types' /\ Agrees' BY <1>1, AlarmStep DEF GaugeInv, Types, Reading
<1>3. sev' = NumericSev(v, Thresholds, sev) BY DEF Reading
<1>4. /\ sev' \in Levels
      /\ sev' = "alarm" <=> Alarming(v, Thresholds, 0) \/ HeldAlarm(v, Thresholds, sev)
      /\ sev' = "warn" <=>
           /\ ~(Alarming(v, Thresholds, 0) \/ HeldAlarm(v, Thresholds, sev))
           /\ Warning(v, Thresholds, 0) \/ HeldWarn(v, Thresholds, sev)
  BY <1>3, SevCases
<1>5. \A l \in TwoLevels :
        left'[l] = IF AtLeast(l, sev) /\ ~AtLeast(l, sev') THEN {v} ELSE left[l]
  BY DEF Reading, TwoLevels
<1> HIDE DEF v
<1>6. ASSUME AtLeast("alarm", sev), ~AtLeast("alarm", sev')
      PROVE  ~Alarming(v, Thresholds, H)
  BY <1>4, <1>6, AtLeastFacts DEF GaugeInv, Types, HeldAlarm, H
<1>7. ASSUME AtLeast("warn", sev), ~AtLeast("warn", sev')
      PROVE  ~Warning(v, Thresholds, H)
  BY <1>4, <1>7, AtLeastFacts DEF GaugeInv, Types, HeldWarn, H
<1>8. Cleared'
  <2>1. \A u \in left'["alarm"] : u \in Int /\ ~Alarming(u, Thresholds, H)
    BY <1>1, <1>5, <1>6 DEF GaugeInv, Cleared, TwoLevels
  <2>2. \A u \in left'["warn"] : u \in Int /\ ~Warning(u, Thresholds, H)
    BY <1>1, <1>5, <1>7 DEF GaugeInv, Cleared, TwoLevels
  <2> QED BY <2>1, <2>2 DEF Cleared, H
<1> QED BY <1>2, <1>8 DEF GaugeInv

LEMMA GaugeInductive == GaugeInv /\ [Next]_vars => GaugeInv'
<1> SUFFICES ASSUME GaugeInv, [Next]_vars PROVE GaugeInv'
    OBVIOUS
<1>1. CASE GoesStale
  BY <1>1 DEF GaugeInv, Types, Agrees, Cleared, GoesStale
<1>2. CASE \E raw \in Raws : Reading(raw) BY <1>2, ReadingStep
<1>3. CASE UNCHANGED vars
  BY <1>3 DEF GaugeInv, Types, Agrees, Cleared, vars, H
<1> QED BY <1>1, <1>2, <1>3 DEF Next

LEMMA GaugeInit == Init => GaugeInv
<1> SUFFICES ASSUME Init PROVE GaugeInv
    OBVIOUS
<1>1. Types
  <2>1. alarmed \in BOOLEAN /\ warned \in BOOLEAN BY DEF Init
  <2>2. value \in Int /\ sev \in Levels \cup {"none"} BY SMT DEF Init
  <2> QED BY <2>1, <2>2 DEF Types
<1>3. sev # "alarm" /\ sev # "warn" /\ ~alarmed /\ ~warned BY DEF Init
<1>4. Agrees BY <1>3 DEF Agrees
<1>2. left["alarm"] = {} /\ left["warn"] = {} BY DEF Init
<1> QED BY <1>1, <1>2, <1>4 DEF GaugeInv, Cleared

LEMMA GaugeSafe == Spec => []GaugeInv
BY GaugeInit, GaugeInductive, PTL DEF Spec

\* The severity shown is the worst latch that is on, for every configuration the schema accepts.
THEOREM SeverityIsLatched == Spec => []Agrees
<1>1. GaugeInv => Agrees BY DEF GaugeInv
<1> QED BY <1>1, GaugeSafe, PTL

LEMMA NoChatterStep ==
  ASSUME GaugeInv, [Next]_vars, NEW l \in TwoLevels,
         sev \in Levels, ~AtLeast(l, sev), sev' = l, NEW u \in left[l]
  PROVE  Abs(value' - u) > H
<1>1. sev' # sev BY AtLeastFacts DEF TwoLevels
<1>2. ~GoesStale BY DEF GoesStale, TwoLevels
<1>3. PICK raw \in Raws : Reading(raw) BY <1>1, <1>2 DEF Next, vars
<1> DEFINE v == RoundHalfUp(raw)
<1>4. v \in Int /\ value' = v BY <1>3, GaugeAssumption, RoundInt DEF Reading
<1>5. sev' = NumericSev(v, Thresholds, sev) BY <1>3 DEF Reading
<1>6. /\ sev' = "alarm" <=> Alarming(v, Thresholds, 0) \/ HeldAlarm(v, Thresholds, sev)
      /\ sev' = "warn" <=>
           /\ ~(Alarming(v, Thresholds, 0) \/ HeldAlarm(v, Thresholds, sev))
           /\ Warning(v, Thresholds, 0) \/ HeldWarn(v, Thresholds, sev)
  BY <1>5, SevCases
<1> HIDE DEF v
<1>7. CASE l = "alarm"
  <2>1. sev # "alarm" BY <1>7, AtLeastFacts
  <2>2. Alarming(v, Thresholds, 0) BY <2>1, <1>6, <1>7 DEF HeldAlarm
  <2>3. u \in Int /\ ~Alarming(u, Thresholds, H) BY <1>7 DEF GaugeInv, Cleared
  <2> QED BY <1>4, <2>2, <2>3, AlarmApart
<1>8. CASE l = "warn"
  <2>1. sev \notin {"warn", "alarm"} BY <1>8, AtLeastFacts
  <2>2. Warning(v, Thresholds, 0) BY <2>1, <1>6, <1>8 DEF HeldWarn
  <2>3. u \in Int /\ ~Warning(u, Thresholds, H) BY <1>8 DEF GaugeInv, Cleared
  <2> QED BY <1>4, <2>2, <2>3, WarnApart
<1> QED BY <1>7, <1>8 DEF TwoLevels

\* A level that was left never comes back from below within the hysteresis.
THEOREM SeverityNeverChatters == Spec => NoChatter
<1> DEFINE A == \A l \in {"warn", "alarm"} :
                  sev \in Levels /\ ~AtLeast(l, sev) /\ sev' = l
                    => \A v \in left[l] : Abs(value' - v) > H
<1>1. GaugeInv /\ [Next]_vars => A BY NoChatterStep DEF TwoLevels
<1>2. GaugeInv /\ [Next]_vars => [A]_vars BY <1>1
<1> QED BY <1>2, GaugeSafe, PTL DEF Spec, NoChatter

\* convert_and_round of a compass angle: always one of the degrees 0 to 359, and the nearest one to
\* the angle some number of turns away, also for an angle that rounds up to a full turn.
THEOREM HeadingOnTheRose ==
  \A a \in Int : /\ Heading(a) \in 0 .. 359
                 /\ \E turns \in Int : 2 * Abs(a - (Turn * turns + Unit * Heading(a))) <= Unit
<1> SUFFICES ASSUME NEW a \in Int
    PROVE  /\ Heading(a) \in 0 .. 359
           /\ \E turns \in Int : 2 * Abs(a - (Turn * turns + Unit * Heading(a))) <= Unit
    OBVIOUS
<1> DEFINE x == a % Turn
           t == a \div Turn
           r == RoundHalfUp(x)
<1>1. Unit \in Nat /\ Unit > 0 BY UnitAssumption
<1>2. Turn \in Nat /\ Turn > 0 BY <1>1 DEF Turn
<1>3. t \in Int /\ x \in Nat /\ x < Turn /\ a = Turn * t + x
  <2>1. \A w \in Nat : w > 0 =>
          a \div w \in Int /\ a % w \in Nat /\ a % w < w /\ a = w * (a \div w) + (a % w)
    BY DivMod
  <2> QED BY <2>1, <1>2
<1> HIDE DEF x, t
<1>4. r \in Nat
  <2>1. r \in Int BY <1>3, RoundInt
  <2>2. 2 * x + Unit \in Nat /\ 2 * Unit \in Nat \ {0} BY <1>1, <1>3
  <2>3. (2 * x + Unit) \div (2 * Unit) >= 0 BY <2>2
  <2>4. r = (2 * x + Unit) \div (2 * Unit) BY <1>3, <1>1 DEF RoundHalfUp
  <2> QED BY <2>1, <2>3, <2>4
<1>5. 2 * Abs(x - Unit * r) <= Unit BY <1>3, RoundsToNearest
<1>6. Heading(a) = IF r >= 360 THEN 0 ELSE r BY DEF Heading, x
<1> HIDE DEF r
<1>7. CASE r < 360
  <2>1. Heading(a) = r /\ Heading(a) \in 0 .. 359 BY <1>4, <1>6, <1>7
  <2> DEFINE u == Unit * r
             y == Turn * t
  <2>2. u \in Int /\ y \in Int BY <1>1, <1>2, <1>3, <1>4
  <2>3. 2 * Abs(x - u) <= Unit /\ a = y + x BY <1>3, <1>5
  <2> HIDE DEF u, y
  <2>4. a - (y + u) = x - u BY <1>3, <2>2, <2>3
  <2>5. 2 * Abs(a - (y + u)) <= Unit BY <2>3, <2>4
  <2> QED BY <1>3, <2>1, <2>5 DEF u, y
<1>8. CASE r >= 360
  <2>1. Heading(a) = 0 BY <1>6, <1>8
  <2> DEFINE u == Unit * r
             y == Turn * t
             z == Turn * (t + 1)
  <2>2. u \in Int /\ y \in Int /\ z \in Int BY <1>1, <1>2, <1>3, <1>4
  <2>3. u >= Turn BY <1>1, <1>4, <1>8 DEF Turn
  <2>4. z = y + Turn BY <1>2, <1>3
  <2>5. 2 * Abs(x - u) <= Unit /\ a = y + x BY <1>3, <1>5
  <2>6. Unit * 0 = 0 BY <1>1
  <2> HIDE DEF u, y, z
  <2>7. a - (z + 0) = x - Turn BY <1>2, <1>3, <2>2, <2>4, <2>5
  <2>8. 2 * Abs(x - Turn) <= Unit BY <1>1, <1>2, <1>3, <2>2, <2>3, <2>5 DEF Abs
  <2>9. 2 * Abs(a - (z + Unit * 0)) <= Unit BY <2>6, <2>7, <2>8
  <2> QED BY <1>3, <2>1, <2>9 DEF z
<1> QED BY <1>4, <1>7, <1>8

-----------------------------------------------------------------------------
(* The inductive invariants.                                                 *)

TouchTypes ==
  /\ "on" \in DOMAIN touch
  /\ touch_ignore \in BOOLEAN /\ woke \in BOOLEAN /\ dim_idle \in BOOLEAN /\ idle \in BOOLEAN
  /\ acted \in {0, 1}

\* A touch on the page layer that acted, or that woke the screen, is ignored from then on.
TouchInv ==
  /\ TouchTypes
  /\ touch.on = "layer" /\ (acted = 1 \/ woke) => touch_ignore
  /\ woke => acted = 0

\* An alarm summary counts alarms, and is forgotten when it is stale; the alarms dismissed are all
\* of those of the summary, or none.
AlarmInv ==
  /\ seen \in Nat /\ alarm_dismissed \in BOOLEAN
  /\ summary \in [max : {"unknown", "ok", "alarm"}, na : Nat, first : Int]
  /\ summary.max = "alarm" <=> summary.na > 0
  /\ seen >= SummaryLimit => summary.na = 0
  /\ acked \in {0, summary.na}
  /\ summary.na > 0 => (alarm_dismissed <=> acked > 0)

\* The palette is the override's, and the schedule's without one.
NightInv ==
  /\ acted \in Nat /\ night_override \in {-1, 0, 1}
  /\ night_active = (IF night_override >= 0 THEN night_override = 1 ELSE night_sched)

-----------------------------------------------------------------------------
(* One touch does one thing at most.                                         *)

LEMMA TouchStarts == UiInit => TouchInv
<1>1. NoTouch.on = "nothing" /\ "on" \in DOMAIN NoTouch BY DEF NoTouch
<1> QED BY <1>1 DEF UiInit, TouchInv, TouchTypes

\* The variables of a touch.
touchState == <<touch, touch_ignore, acted, woke>>

LEMMA TouchStays ==
  ASSUME TouchInv, UNCHANGED touchState, dim_idle' \in BOOLEAN, idle' \in BOOLEAN
  PROVE  TouchInv'
BY DEF TouchInv, TouchTypes, touchState

LEMMA IdleType ==
  ASSUME TouchTypes, UiNext
  PROVE  idle' \in BOOLEAN /\ dim_idle' \in BOOLEAN
<1>1. CASE \E s \in Summaries : SummaryArrives(s) BY <1>1 DEF SummaryArrives, TouchTypes
<1>2. CASE \E b \in BOOLEAN : StatusArrives(b) BY <1>2 DEF StatusArrives, TouchTypes
<1>3. CASE \E b \in BOOLEAN : ClockArrives(b) BY <1>3 DEF ClockArrives, TouchTypes
<1>4. CASE \E b \in BOOLEAN : Lift(b) BY <1>4 DEF Lift, TouchTypes
<1>5. CASE LinkFails \/ LinkReturns BY <1>5 DEF LinkFails, LinkReturns, TouchTypes
<1>6. CASE LongPress BY <1>6 DEF LongPress, TouchTypes
<1>7. CASE Dismiss BY <1>7 DEF Dismiss, TouchTypes
<1>8. CASE \E on \in {"layer", "banner"} : Press(on) BY <1>8 DEF Press, TouchTypes
<1>9. CASE \E step \in {1, Pages - 1} : Swipe(step) BY <1>9 DEF Swipe, TouchTypes
<1>10. CASE FallsIdle BY <1>10 DEF FallsIdle, TouchTypes
<1>11. CASE Poll BY <1>11 DEF Poll, TouchTypes
<1>12. CASE Second BY <1>12 DEF Second, TouchTypes
<1> QED BY <1>1, <1>2, <1>3, <1>4, <1>5, <1>6, <1>7, <1>8, <1>9, <1>10, <1>11, <1>12, Zenon DEF UiNext

LEMMA TouchKept == TouchInv /\ [UiNext]_uiVars => TouchInv'
<1> SUFFICES ASSUME TouchInv, [UiNext]_uiVars PROVE TouchInv'
  OBVIOUS
<1>1. CASE UNCHANGED uiVars
  <2>1. UNCHANGED touchState /\ dim_idle' = dim_idle /\ idle' = idle BY <1>1 DEF uiVars, touchVars, touchState
  <2> QED BY <2>1, TouchStays DEF TouchInv, TouchTypes
<1>2. CASE UiNext
  <2>1. TouchTypes BY DEF TouchInv
  <2>2. idle' \in BOOLEAN /\ dim_idle' \in BOOLEAN BY <1>2, <2>1, IdleType
  <2>3. ASSUME UNCHANGED touchState PROVE TouchInv' BY <2>2, <2>3, TouchStays
  <2>4. CASE \E s \in Summaries : SummaryArrives(s) BY <2>3, <2>4 DEF SummaryArrives, touchVars, touchState
  <2>5. CASE \E b \in BOOLEAN : StatusArrives(b) BY <2>3, <2>5 DEF StatusArrives, touchVars, touchState
  <2>6. CASE \E b \in BOOLEAN : ClockArrives(b) BY <2>3, <2>6 DEF ClockArrives, touchVars, touchState
  <2>7. ASSUME NEW click \in BOOLEAN, Lift(click) PROVE TouchInv'
    <3>1. /\ touch.on = "layer" /\ touch' = NoTouch /\ UNCHANGED <<touch_ignore, woke>>
          /\ acted' = (IF click /\ ~touch_ignore THEN acted + 1 ELSE acted)
      BY <2>7 DEF Lift
    <3>2. NoTouch.on = "nothing" /\ "on" \in DOMAIN NoTouch BY DEF NoTouch
    <3>3. ~touch_ignore => acted = 0 /\ ~woke BY <3>1 DEF TouchInv, TouchTypes
    <3>4. TouchTypes' BY <2>1, <2>2, <3>1, <3>2, <3>3 DEF TouchTypes
    <3> QED BY <3>1, <3>2, <3>3, <3>4 DEF TouchInv
  <2>8. CASE LinkFails \/ LinkReturns BY <2>3, <2>8 DEF LinkFails, LinkReturns, touchVars, touchState
  <2>9. ASSUME touch.on = "layer", touch'.on = "layer", "on" \in DOMAIN touch', touch_ignore' = TRUE,
               UNCHANGED woke, acted' = (IF touch_ignore THEN acted ELSE acted + 1)
        PROVE  TouchInv'
    <3>1. ~touch_ignore => acted = 0 /\ ~woke BY <2>9 DEF TouchInv, TouchTypes
    <3>2. TouchTypes' BY <2>1, <2>2, <2>9, <3>1 DEF TouchTypes
    <3> QED BY <2>9, <3>1, <3>2 DEF TouchInv
  <2>10. CASE LongPress
    <3>1. /\ touch.on = "layer" /\ touch'.on = "layer" /\ "on" \in DOMAIN touch' /\ touch_ignore' = TRUE
          /\ UNCHANGED woke /\ acted' = (IF touch_ignore THEN acted ELSE acted + 1)
      BY <2>1, <2>10 DEF LongPress, Report, Done, TouchTypes
    <3> QED BY <2>9, <3>1
  <2>11. CASE \E step \in {1, Pages - 1} : Swipe(step)
    <3>1. /\ touch.on = "layer" /\ touch'.on = "layer" /\ "on" \in DOMAIN touch' /\ touch_ignore' = TRUE
          /\ UNCHANGED woke /\ acted' = (IF touch_ignore THEN acted ELSE acted + 1)
      BY <2>1, <2>11 DEF Swipe, Report, Done, TouchTypes
    <3> QED BY <2>9, <3>1
  <2>12. CASE Dismiss
    <3>1. touch' = NoTouch /\ UNCHANGED <<touch_ignore, acted, woke>> BY <2>12 DEF Dismiss
    <3> QED BY <2>2, <3>1 DEF TouchInv, TouchTypes, NoTouch
  <2>13. ASSUME NEW on \in {"layer", "banner"}, Press(on) PROVE TouchInv'
    <3>1. /\ touch' = [on |-> on, page |-> page, reported |-> {}] /\ acted' = 0
          /\ touch_ignore' = (IF on = "layer" THEN dim_idle ELSE touch_ignore)
          /\ woke' = (on = "layer" /\ dim_idle)
      BY <2>13 DEF Press, Wakes
    <3> QED BY <2>1, <2>2, <3>1 DEF TouchInv, TouchTypes
  <2>14. CASE FallsIdle BY <2>3, <2>14 DEF FallsIdle, touchVars, touchState
  <2>15. CASE Poll BY <2>3, <2>15 DEF Poll, touchVars, touchState
  <2>16. CASE Second BY <2>3, <2>16 DEF Second, touchVars, touchState
  <2> QED BY <1>2, <2>2, <2>4, <2>5, <2>6, <2>7, <2>8, <2>10, <2>11, <2>12, <2>13, <2>14, <2>15, <2>16, Zenon DEF UiNext
<1> QED BY <1>1, <1>2

-----------------------------------------------------------------------------
(* What the controller believes of its light.                                *)

LEMMA TargetIsLevel == Target' \in Nat
BY UiAssumption DEF Target

LEMMA LightStarts == UiInit => LightTrue
BY DEF UiInit, LightTrue

LEMMA LightKept == LightTrue /\ [UiNext]_uiVars => LightTrue'
<1> SUFFICES ASSUME LightTrue, [UiNext]_uiVars PROVE LightTrue'
  OBVIOUS
<1>1. ASSUME ApplyPower PROVE LightTrue'
  <2> DEFINE t == Target'
  <2>1. t \in Nat /\ bl_drawn' = t /\ light' = (IF t # bl_drawn THEN t ELSE light)
    BY <1>1, TargetIsLevel DEF ApplyPower
  <2> HIDE DEF t
  <2> QED BY <2>1 DEF LightTrue
<1>2. ASSUME UNCHANGED lightVars PROVE LightTrue' BY <1>2 DEF lightVars, LightTrue
<1>3. ASSUME NEW s \in Summaries, SummaryArrives(s) PROVE LightTrue'
  <2>1. UNCHANGED lightVars \/ (light' = Full /\ bl_drawn' = Full)
    BY <1>3 DEF SummaryArrives, KnowsLight
  <2> QED BY <1>2, <2>1 DEF LightTrue
<1>4. CASE \E b \in BOOLEAN : StatusArrives(b) BY <1>2, <1>4 DEF StatusArrives
<1>5. CASE \E b \in BOOLEAN : ClockArrives(b) BY <1>1, <1>5 DEF ClockArrives
<1>6. CASE \E b \in BOOLEAN : Lift(b) BY <1>2, <1>6 DEF Lift
<1>7. CASE LinkFails \/ LinkReturns BY <1>2, <1>7 DEF LinkFails, LinkReturns
<1>8. CASE LongPress
  <2>1. ApplyPower \/ UNCHANGED lightVars BY <1>8, Zenon DEF LongPress
  <2> QED BY <1>1, <1>2, <2>1
<1>9. CASE Dismiss BY <1>2, <1>9 DEF Dismiss
<1>10. CASE \E on \in {"layer", "banner"} : Press(on) BY <1>2, <1>10 DEF Press
<1>11. CASE \E step \in {1, Pages - 1} : Swipe(step) BY <1>2, <1>11 DEF Swipe
<1>12. CASE FallsIdle BY <1>2, <1>12 DEF FallsIdle
<1>13. CASE Poll BY <1>1, <1>13 DEF Poll
<1>14. CASE Second BY <1>1, <1>14 DEF Second
<1>15. CASE UNCHANGED uiVars BY <1>2, <1>15 DEF uiVars
<1> QED
  BY <1>3, <1>4, <1>5, <1>6, <1>7, <1>8, <1>9, <1>10, <1>11, <1>12, <1>13, <1>14, <1>15, Zenon DEF UiNext

\* A touch does one thing at most, and nothing when it woke the screen, whatever the panel reports
\* of it and in whatever order; and the light is at the level the controller wrote last.
THEOREM TouchesTrue == UiSpec => []TouchTrue
<1>1. TouchInv /\ LightTrue => TouchTrue BY DEF TouchInv, TouchTypes, TouchTrue, TouchActsOnce
<1> QED BY <1>1, TouchStarts, TouchKept, LightStarts, LightKept, PTL DEF UiSpec

-----------------------------------------------------------------------------
(* The alarm banner.                                                         *)

LEMMA AlarmStarts == UiInit => AlarmInv
<1> SUFFICES ASSUME UiInit PROVE AlarmInv OBVIOUS
<1>1. /\ Quiet \in [max : {"unknown", "ok", "alarm"}, na : Nat, first : Int]
      /\ Quiet.max = "unknown" /\ Quiet.na = 0
  BY DEF Quiet
<1>2. summary = Quiet /\ seen = SummaryLimit /\ acked = 0 /\ alarm_dismissed = FALSE BY DEF UiInit
<1>3. SummaryLimit \in Nat /\ ~(0 > 0) BY UiAssumption
<1>4. summary.max # "alarm" /\ summary.na = 0 BY <1>1, <1>2
<1>5. summary \in [max : {"unknown", "ok", "alarm"}, na : Nat, first : Int] BY <1>1, <1>2
<1> QED BY <1>2, <1>3, <1>4, <1>5, Zenon DEF AlarmInv

\* What render_alarm leaves, with the summary s, in a step that keeps the count of what is dismissed.
LEMMA RenderKeeps ==
  ASSUME seen' \in Nat, NEW s \in [max : {"unknown", "ok", "alarm"}, na : Nat, first : Int],
         s.max = "alarm" <=> s.na > 0,
         NEW dismissed \in BOOLEAN, RenderAlarm(s, dismissed),
         acked' \in {0, summary'.na},
         seen' < SummaryLimit /\ s.na > 0 => (dismissed <=> acked' > 0)
  PROVE  /\ AlarmInv'
         /\ banner' = IF /\ seen' < SummaryLimit /\ bridge_online' /\ linked'
                         /\ summary'.max = "alarm" /\ acked' = 0
                      THEN summary'.first ELSE Hidden
<1> DEFINE now == IF seen' < SummaryLimit THEN s ELSE [s EXCEPT !.max = "unknown", !.na = 0]
<1> DEFINE show == seen' < SummaryLimit /\ bridge_online' /\ linked' /\ now.max = "alarm" /\ now.na > 0 /\ ~dismissed
<1>1. summary' = now /\ alarm_dismissed' = dismissed /\ banner' = (IF show THEN now.first ELSE Hidden)
  BY DEF RenderAlarm
<1>2. /\ now \in [max : {"unknown", "ok", "alarm"}, na : Nat, first : Int]
      /\ now.max = "alarm" <=> now.na > 0
      /\ seen' >= SummaryLimit => now.na = 0
      /\ seen' < SummaryLimit => now = s
      /\ ~(seen' < SummaryLimit) => now.na = 0
  <2>1. CASE seen' < SummaryLimit
    <3>1. now = s BY <2>1
    <3>2. ~(seen' >= SummaryLimit) BY <2>1, UiAssumption
    <3> QED BY <2>1, <3>1, <3>2
  <2>2. CASE ~(seen' < SummaryLimit)
    <3> DEFINE old == [s EXCEPT !.max = "unknown", !.na = 0]
    <3>1. now = old BY <2>2
    <3>2. old \in [max : {"unknown", "ok", "alarm"}, na : Nat, first : Int] /\ old.max = "unknown" /\ old.na = 0
      OBVIOUS
    <3> HIDE DEF old, now
    <3> QED BY <2>2, <3>1, <3>2
  <2> QED BY <2>1, <2>2
<1> HIDE DEF now
<1>3. now.na > 0 => seen' < SummaryLimit /\ now = s BY <1>2
<1>4. now.na > 0 => (dismissed <=> acked' > 0) BY <1>3
<1>5. AlarmInv' BY <1>1, <1>2, <1>4 DEF AlarmInv
<1>6. acked' \in Nat BY <1>1, <1>2
<1>7. show <=> /\ seen' < SummaryLimit /\ bridge_online' /\ linked'
               /\ summary'.max = "alarm" /\ acked' = 0
  BY <1>1, <1>2, <1>4, <1>6
<1> QED BY <1>1, <1>5, <1>7

\* The banner drawn is the one that should be.
Drawn ==
  banner' = IF /\ seen' < SummaryLimit /\ bridge_online' /\ linked'
               /\ summary'.max = "alarm" /\ acked' = 0
            THEN summary'.first ELSE Hidden

LEMMA SummaryKeeps ==
  ASSUME AlarmInv, NEW s \in Summaries, SummaryArrives(s)
  PROVE  AlarmInv' /\ Drawn
<1> DEFINE dismissed == alarm_dismissed /\ ~Rising(s)
<1>1. seen' = 0 /\ RenderAlarm(s, dismissed) /\ acked' = Dismissed(s.na)
  BY DEF SummaryArrives
<1>2. /\ s \in [max : {"unknown", "ok", "alarm"}, na : Nat, first : Int]
      /\ s.max = "alarm" <=> s.na > 0
  BY UiAssumption DEF Summaries
<1>3. dismissed \in BOOLEAN BY DEF AlarmInv, Rising
<1>4. seen' < SummaryLimit /\ seen' \in Nat BY <1>1, UiAssumption
<1>5. summary' = s BY <1>1, <1>4 DEF RenderAlarm
<1>6. acked' \in {0, s.na} BY <1>1 DEF Dismissed
<1>7. s.na > 0 => (dismissed <=> acked' > 0)
  BY <1>1, <1>2 DEF Rising, Dismissed, AlarmInv
<1> HIDE DEF dismissed
<1> QED BY <1>1, <1>2, <1>3, <1>4, <1>5, <1>6, <1>7, RenderKeeps DEF Drawn

LEMMA DismissKeeps ==
  ASSUME AlarmInv, Dismiss
  PROVE  AlarmInv' /\ Drawn
<1>1. seen' = seen /\ acked' = summary.na /\ RenderAlarm(summary, TRUE) BY DEF Dismiss
<1>2. /\ seen \in Nat /\ summary \in [max : {"unknown", "ok", "alarm"}, na : Nat, first : Int]
      /\ summary.max = "alarm" <=> summary.na > 0
      /\ seen >= SummaryLimit => summary.na = 0
  BY DEF AlarmInv
<1>3. summary'.na = summary.na
  BY <1>1, <1>2, UiAssumption DEF RenderAlarm
<1> QED BY <1>1, <1>2, <1>3, RenderKeeps DEF Drawn

LEMMA SecondKeeps ==
  ASSUME AlarmInv, Second
  PROVE  AlarmInv' /\ Drawn
<1>1. /\ seen' = (IF seen < SummaryLimit THEN seen + 1 ELSE seen)
      /\ RenderAlarm(summary, alarm_dismissed) /\ acked' = Dismissed(summary'.na)
  BY DEF Second
<1>2. /\ seen \in Nat /\ summary \in [max : {"unknown", "ok", "alarm"}, na : Nat, first : Int]
      /\ summary.max = "alarm" <=> summary.na > 0
      /\ alarm_dismissed \in BOOLEAN /\ acked \in {0, summary.na}
      /\ summary.na > 0 => (alarm_dismissed <=> acked > 0)
  BY DEF AlarmInv
<1>3. seen' \in Nat BY <1>1, <1>2
<1>4. acked' \in {0, summary'.na} BY <1>1 DEF Dismissed
<1>5. seen' < SummaryLimit => summary' = summary BY <1>1 DEF RenderAlarm
<1>6. ASSUME seen' < SummaryLimit, summary.na > 0 PROVE alarm_dismissed <=> acked' > 0
  <2>1. acked' = (IF summary.na > acked THEN 0 ELSE summary.na) BY <1>1, <1>5, <1>6 DEF Dismissed
  <2>2. acked = 0 \/ acked = summary.na BY <1>2
  <2>3. summary.na \in Nat BY <1>2
  <2>4. acked' = acked BY <1>6, <2>1, <2>2, <2>3
  <2>5. alarm_dismissed <=> acked > 0 BY <1>2, <1>6
  <2> QED BY <2>4, <2>5
<1> QED BY <1>1, <1>2, <1>3, <1>4, <1>6, RenderKeeps DEF Drawn

\* The steps that draw the banner.
Draws == Second \/ Dismiss \/ (\E s \in Summaries : SummaryArrives(s))

LEMMA DrawKept == AlarmInv /\ Draws => AlarmInv' /\ Drawn
BY SummaryKeeps, DismissKeeps, SecondKeeps DEF Draws

LEMMA AlarmKept == AlarmInv /\ [UiNext]_uiVars => AlarmInv'
<1> SUFFICES ASSUME AlarmInv, [UiNext]_uiVars PROVE AlarmInv'
  OBVIOUS
<1>1. ASSUME UNCHANGED alarmVars PROVE AlarmInv' BY <1>1 DEF alarmVars, AlarmInv
<1>2. CASE Draws BY <1>2, DrawKept
<1>4. CASE \E b \in BOOLEAN : StatusArrives(b) BY <1>1, <1>4 DEF StatusArrives
<1>5. CASE \E b \in BOOLEAN : ClockArrives(b) BY <1>1, <1>5 DEF ClockArrives
<1>6. CASE \E b \in BOOLEAN : Lift(b) BY <1>1, <1>6 DEF Lift
<1>7. CASE LinkFails \/ LinkReturns BY <1>1, <1>7 DEF LinkFails, LinkReturns
<1>8. CASE LongPress BY <1>1, <1>8 DEF LongPress
<1>10. CASE \E on \in {"layer", "banner"} : Press(on) BY <1>1, <1>10 DEF Press
<1>11. CASE \E step \in {1, Pages - 1} : Swipe(step) BY <1>1, <1>11 DEF Swipe
<1>12. CASE FallsIdle BY <1>1, <1>12 DEF FallsIdle
<1>13. CASE Poll BY <1>1, <1>13 DEF Poll
<1>15. CASE UNCHANGED uiVars BY <1>1, <1>15 DEF uiVars
<1> QED
  BY <1>2, <1>4, <1>5, <1>6, <1>7, <1>8, <1>10, <1>11, <1>12, <1>13, <1>15, Zenon DEF UiNext, Draws

-----------------------------------------------------------------------------
(* The palette.                                                              *)

LEMMA NightStarts == UiInit => NightInv
<1> SUFFICES ASSUME UiInit PROVE NightInv OBVIOUS
<1>1. night_override = -1 /\ night_sched = FALSE /\ night_active = FALSE /\ acted = 0 BY DEF UiInit
<1>2. ~(night_override >= 0) /\ night_override \in {-1, 0, 1} BY <1>1
<1> QED BY <1>1, <1>2 DEF NightInv

\* A step keeps the palette's rule, and the palette, unless the schedule or a touch changes it.
PaletteHolds == night_active' # night_active => night_sched' # night_sched \/ acted' # acted

LEMMA NightKept == NightInv /\ [UiNext]_uiVars => NightInv' /\ PaletteHolds
<1> SUFFICES ASSUME NightInv, [UiNext]_uiVars PROVE NightInv' /\ PaletteHolds
  OBVIOUS
<1>1. ASSUME UNCHANGED nightVars, acted' \in Nat PROVE NightInv' /\ PaletteHolds
  BY <1>1 DEF nightVars, NightInv, PaletteHolds
<1>2. ASSUME UNCHANGED <<nightVars, touchVars>> PROVE NightInv' /\ PaletteHolds
  BY <1>1, <1>2 DEF touchVars, NightInv
<1>3. CASE \E s \in Summaries : SummaryArrives(s) BY <1>2, <1>3 DEF SummaryArrives
<1>4. CASE \E b \in BOOLEAN : StatusArrives(b) BY <1>2, <1>4 DEF StatusArrives
<1>5. ASSUME NEW n \in BOOLEAN, ClockArrives(n) PROVE NightInv' /\ PaletteHolds
  <2>1. /\ night_sched' = n /\ night_override' = (IF n # night_sched THEN -1 ELSE night_override)
        /\ night_active' = (IF night_override' >= 0 THEN night_override' = 1 ELSE night_sched')
        /\ acted' = acted
    BY <1>5 DEF ClockArrives, Override, ApplyNight, touchVars
  <2>2. night_override' \in {-1, 0, 1} BY <2>1 DEF NightInv
  <2>3. PaletteHolds BY <2>1 DEF NightInv, PaletteHolds
  <2> QED BY <2>1, <2>2, <2>3 DEF NightInv
<1>6. CASE \E b \in BOOLEAN : Lift(b)
  <2>1. acted' \in Nat /\ UNCHANGED nightVars BY <1>6 DEF Lift, NightInv
  <2> QED BY <1>1, <2>1
<1>7. CASE LinkFails \/ LinkReturns BY <1>2, <1>7 DEF LinkFails, LinkReturns
<1>8. CASE LongPress
  <2>1. CASE touch_ignore
    <3>1. UNCHANGED nightVars /\ acted' = acted BY <1>8, <2>1 DEF LongPress, nightVars
    <3> QED BY <1>1, <3>1 DEF NightInv
  <2>2. CASE ~touch_ignore
    <3>1. /\ night_override' = (IF night_active THEN 0 ELSE 1) /\ acted' = acted + 1
          /\ night_active' = (IF night_override' >= 0 THEN night_override' = 1 ELSE night_sched')
      BY <1>8, <2>2 DEF LongPress, ApplyNight
    <3>2. acted' \in Nat /\ acted' # acted /\ night_override' \in {-1, 0, 1} BY <3>1 DEF NightInv
    <3> QED BY <3>1, <3>2 DEF NightInv, PaletteHolds
  <2> QED BY <2>1, <2>2
<1>9. CASE Dismiss
  <2>1. UNCHANGED nightVars /\ acted' = acted BY <1>9 DEF Dismiss
  <2> QED BY <1>1, <2>1 DEF NightInv
<1>10. CASE \E on \in {"layer", "banner"} : Press(on)
  <2>1. UNCHANGED nightVars /\ acted' = 0 BY <1>10 DEF Press
  <2> QED BY <1>1, <2>1
<1>11. CASE \E step \in {1, Pages - 1} : Swipe(step)
  <2>1. UNCHANGED nightVars /\ acted' \in {acted, acted + 1} BY <1>11 DEF Swipe
  <2> QED BY <1>1, <2>1 DEF NightInv
<1>12. CASE FallsIdle BY <1>2, <1>12 DEF FallsIdle
<1>13. CASE Poll BY <1>2, <1>13 DEF Poll
<1>14. CASE Second
  <2>1. /\ UNCHANGED <<touchVars, night_sched, night_override>>
        /\ night_active' = (IF night_override' >= 0 THEN night_override' = 1 ELSE night_sched')
    BY <1>14 DEF Second, ApplyNight
  <2> QED BY <2>1 DEF NightInv, PaletteHolds, touchVars
<1>15. CASE UNCHANGED uiVars BY <1>2, <1>15 DEF uiVars
<1> QED
  BY <1>3, <1>4, <1>5, <1>6, <1>7, <1>8, <1>9, <1>10, <1>11, <1>12, <1>13, <1>14, <1>15, Zenon DEF UiNext

\* The banner is drawn exactly while a fresh summary of a running bridge has alarms nobody has
\* dismissed, and the palette changes only by the schedule or a long press.
THEOREM AlarmsShown == UiSpec => AlarmsAndNight
<1>1. AlarmInv /\ [UiNext]_uiVars =>
        [Second \/ Dismiss \/ (\E s \in Summaries : SummaryArrives(s)) =>
           banner' = IF /\ seen' < SummaryLimit /\ bridge_online' /\ linked'
                        /\ summary'.max = "alarm" /\ acked' = 0
                     THEN summary'.first ELSE Hidden]_uiVars
  BY DrawKept DEF Draws, Drawn
<1>2. NightInv /\ [UiNext]_uiVars =>
        [night_active' # night_active => night_sched' # night_sched \/ acted' # acted]_uiVars
  BY NightKept DEF PaletteHolds
<1>3. UiSpec => AlarmShown
  BY <1>1, AlarmStarts, AlarmKept, PTL DEF UiSpec, AlarmShown
<1>4. UiSpec => NightHolds
  BY <1>2, NightStarts, NightKept, PTL DEF UiSpec, NightHolds
<1> QED BY <1>3, <1>4, Zenon DEF AlarmsAndNight

-----------------------------------------------------------------------------
(* The tiles and the header of a display.  The inductive invariant.          *)

IsMap(f, S) == f = [x \in S |-> f[x]]

TilesTypes ==
  /\ used \in Displays /\ pending \subseteq Topics /\ connected \in BOOLEAN /\ online \in BOOLEAN
  /\ IsMap(retained, Topics) /\ \A i \in used : retained[i].sev \in 0 .. 3
  /\ ok \in [used -> BOOLEAN] /\ IsMap(received, used) /\ IsMap(val, used) /\ shownSev \in [used -> 0 .. 3]
  /\ IsMap(flag, Flags)
  /\ bridge \in {"up", "stopped", "lost"} /\ will \in Nat /\ silent \in Nat

\* Each item's text and level are those its data call for, and its colour is, once one was drawn.
TileDrawn(i) ==
  /\ text[i] = Text(i) /\ level[i] = Level(i)
  /\ drawn[i] # Undrawn => drawn[i] = Colour(i) /\ paint[i] = <<drawn[i], night>>
ScreenInv == \A i \in used : TileDrawn(i)

\* The display knows the bridge's status, and the header shows what it knows, unless the status is
\* on its way.
LinkInv ==
  /\ ~connected => ~online /\ pending = {}
  /\ connected /\ "status" \notin pending => (online <=> retained["status"] = "online") /\ header = Header

\* What was received and not replaced on its way is what is retained, and new while the bridge runs.
Good(i, m) == m.st = "ok" /\ (IsWord(i) \/ m.v # NoValue)
Holds(i, m) ==
  /\ ok[i] = Good(i, m)
  /\ Good(i, m) \/ Kind[i] = "ha" => val[i] = m.v
  /\ HasSeverity(i) => shownSev[i] = m.sev
FlagOf(s) == CASE s = "connected" -> 1 [] s = "disconnected" -> 2 [] OTHER -> Unknown

MemoryInv ==
  connected =>
    /\ \A i \in used \ pending : Holds(i, retained[i]) /\ (bridge = "up" => received[i] = 0)
    /\ \A f \in Flags \ pending : flag[f] = FlagOf(retained[f])
    /\ "clock" \notin pending /\ bridge = "up" => clock = 0

\* What the broker retains of a bridge that runs, was stopped, or is gone.
BridgeInv ==
  /\ bridge = "up" => /\ will = 0 /\ silent = 0 /\ retained["status"] = "online" /\ retained["clock"] = "set"
                      /\ \A f \in Flags : retained[f] \in {"connected", "disconnected"}
  /\ bridge = "stopped" => will = 0 /\ retained["status"] = "offline"
  /\ will > 0 => silent + will = WillDelay

\* Once the will is due, the display knows and shows that the bridge is gone.
Dark == ~header.online /\ ~header.clock /\ \A f \in Flags : header.dots[f] = Unknown
QuietInv == silent > WillDelay /\ ~Restored => retained["status"] # "online" /\ ~online /\ Dark

TilesInv == TilesTypes /\ ScreenInv /\ LinkInv /\ MemoryInv /\ BridgeInv /\ QuietInv

LEMMA TopicsApart ==
  ASSUME used \in Displays
  PROVE  /\ "status" \notin used \cup Flags /\ "clock" \notin used \cup Flags /\ used \cap Flags = {}
         /\ used \subseteq Items /\ used \subseteq Topics /\ Flags \subseteq Topics
         /\ "status" \in Topics /\ "clock" \in Topics
BY TilesAssumption DEF Topics

LEMMA DarkHeader == ~Online /\ header = Header => Dark
<1> SUFFICES ASSUME ~Online, header = Header PROVE Dark OBVIOUS
<1>1. /\ header.dots = [f \in Flags |-> Dot(f)] /\ header.online = Online
      /\ header.clock = (Online /\ clock < ClockLimit)
  BY DEF Header
<1>2. ~header.online BY <1>1
<1>3. ~header.clock BY <1>1
<1>4. \A f \in Flags : header.dots[f] = Unknown BY <1>1 DEF Dot
<1> QED BY <1>2, <1>3, <1>4 DEF Dark

LEMMA DarkHeaderNext == ~Online' /\ header' = Header' => Dark'
<1> SUFFICES ASSUME ~Online', header' = Header' PROVE Dark' OBVIOUS
<1>1. /\ header'.dots = [f \in Flags |-> Dot(f)'] /\ header'.online = Online'
      /\ header'.clock = (Online' /\ clock' < ClockLimit)
  BY DEF Header
<1>2. ~header'.online BY <1>1
<1>3. ~header'.clock BY <1>1
<1>4. \A f \in Flags : header'.dots[f] = Unknown BY <1>1 DEF Dot
<1> QED BY <1>2, <1>3, <1>4 DEF Dark

LEMMA TilesStart == TilesInit => TilesInv
<1> SUFFICES ASSUME TilesInit PROVE TilesInv OBVIOUS
<1>1. used \in Displays BY DEF TilesInit
<1>2. /\ "status" \notin used \cup Flags /\ "clock" \notin used \cup Flags /\ used \cap Flags = {}
      /\ "status" \in Topics /\ used \subseteq Topics
  BY <1>1, TopicsApart
<1>3. /\ bridge = "stopped" /\ will = 0 /\ silent = WillDelay + 1 /\ retained["status"] = "offline"
      /\ \A i \in used : retained[i] = [st |-> "missing", v |-> NoValue, sev |-> 0]
      /\ pending = {} /\ connected = FALSE /\ online = FALSE /\ header = Header
  BY <1>2 DEF TilesInit
<1>4. ~Online BY <1>3 DEF Online
<1>5. TilesTypes
  <2>1. IsMap(retained, Topics) BY DEF TilesInit, IsMap
  <2>2. /\ ok \in [used -> BOOLEAN] /\ IsMap(received, used) /\ IsMap(val, used) /\ shownSev \in [used -> 0 .. 3]
        /\ IsMap(flag, Flags)
    BY DEF TilesInit, IsMap, Unknown
  <2>3. silent \in Nat BY <1>3, TilesAssumption
  <2>4. \A i \in used : retained[i].sev \in 0 .. 3 BY <1>3
  <2> QED BY <1>1, <1>3, <2>1, <2>2, <2>3, <2>4 DEF TilesTypes
<1>6. ScreenInv BY <1>4 DEF ScreenInv, TileDrawn, TilesInit, Text, Level, Fresh, Undrawn
<1>7. LinkInv /\ MemoryInv BY <1>3 DEF LinkInv, MemoryInv
<1>8. BridgeInv BY <1>3 DEF BridgeInv
<1>9. QuietInv BY <1>3, <1>4, DarkHeader DEF QuietInv
<1> QED BY <1>5, <1>6, <1>7, <1>8, <1>9 DEF TilesInv

-----------------------------------------------------------------------------
(* What is on the screen follows the data.                                   *)

LEMMA Rendered ==
  ASSUME NEW cached, used' = used, used \in Displays, shownSev' \in [used -> 0 .. 3], RenderTiles(cached),
         \A i \in used : cached[i] = Undrawn \/ paint[i] = <<cached[i], night'>>
  PROVE  ScreenInv'
<1>1. ASSUME NEW i \in used PROVE Colour(i)' # Undrawn
  <2>1. shownSev'[i] \in 0 .. 3 OBVIOUS
  <2>2. GaugeColour(i)' \in 0 .. 4 BY <2>1 DEF GaugeColour, Unknown, Neutral
  <2>3. ShoreColour(i)' \in 0 .. 4 BY DEF ShoreColour, Unknown
  <2>4. Colour(i)' \in 0 .. 4
    <3>1. CASE Kind[i] = "gauge" BY <2>2, <3>1 DEF Colour
    <3>2. CASE Kind[i] = "shore" BY <2>3, <3>2 DEF Colour
    <3>3. CASE Kind[i] # "gauge" /\ Kind[i] # "shore" BY <2>1, <3>3 DEF Colour, Unknown
    <3> QED BY <3>1, <3>2, <3>3
  <2> QED BY <2>4 DEF Undrawn
<1> QED BY <1>1 DEF RenderTiles, ScreenInv, TileDrawn

\* Nothing the tiles are drawn from changes.
LEMMA ScreenStays ==
  ASSUME ScreenInv, UNCHANGED <<used, ok, received, val, shownSev, night, drawn, text, level, paint>>, Online' <=> Online
  PROVE  ScreenInv'
<1>1. \A i \in used : (Fresh(i)' <=> Fresh(i)) BY DEF Fresh
<1>2. \A i \in used : Text(i)' = Text(i) BY <1>1 DEF Text, Word, Electrical
<1>3. \A i \in used : Level(i)' = Level(i) BY <1>1 DEF Level
<1>4. \A i \in used : GaugeColour(i)' = GaugeColour(i) BY <1>1 DEF GaugeColour
<1>5. \A i \in used : ShoreColour(i)' = ShoreColour(i) BY <1>1 DEF ShoreColour
<1>6. \A i \in used : Colour(i)' = Colour(i) BY <1>1, <1>4, <1>5 DEF Colour
<1> QED BY <1>2, <1>3, <1>6 DEF ScreenInv, TileDrawn

LEMMA RenderedAgain ==
  ASSUME ScreenInv, TilesTypes, used' = used, night' = night, shownSev' \in [used -> 0 .. 3], RenderTiles(drawn)
  PROVE  ScreenInv'
<1>1. used \in Displays BY DEF TilesTypes
<1>2. \A i \in used : drawn[i] = Undrawn \/ paint[i] = <<drawn[i], night'>> BY DEF ScreenInv, TileDrawn
<1> QED BY <1>1, <1>2, Rendered

LEMMA RetainedStatus ==
  ASSUME TilesInv
  PROVE  /\ used \in Displays /\ pending \subseteq Topics
         /\ "status" \notin used \cup Flags /\ "clock" \notin used \cup Flags /\ used \cap Flags = {}
         /\ used \subseteq Items /\ used \subseteq Topics /\ Flags \subseteq Topics
         /\ "status" \in Topics /\ "clock" \in Topics
<1>1. used \in Displays /\ pending \subseteq Topics BY DEF TilesInv, TilesTypes
<1> QED BY <1>1, TopicsApart

LEMMA ItemShown ==
  ASSUME TilesInv, NEW i \in used, ItemArrives(i)
  PROVE  TilesInv'
<1>1. TilesTypes /\ ScreenInv /\ LinkInv /\ MemoryInv /\ BridgeInv /\ QuietInv BY DEF TilesInv
<1>2. /\ "status" \notin used \cup Flags /\ "clock" \notin used \cup Flags /\ used \cap Flags = {}
  BY RetainedStatus
<1> DEFINE m == retained[i]
           good == m.st = "ok" /\ (IsWord(i) \/ m.v # NoValue)
<1>3. /\ i \in pending /\ pending' = pending \ {i}
      /\ received' = [received EXCEPT ![i] = 0] /\ ok' = [ok EXCEPT ![i] = good]
      /\ val' = [val EXCEPT ![i] = IF good \/ Kind[i] = "ha" THEN m.v ELSE val[i]]
      /\ shownSev' = [shownSev EXCEPT ![i] = IF HasSeverity(i) THEN m.sev ELSE shownSev[i]]
      /\ RenderTiles(drawn)
  BY DEF ItemArrives, Store
<1>4. UNCHANGED <<used, bridge, will, silent, retained, connected, online, flag, clock, night, header>>
  BY DEF ItemArrives, world
<1>5. Topics' = Topics BY <1>4 DEF Topics
<1>6. TilesTypes'
  <2>1. m.sev \in 0 .. 3 BY <1>1 DEF TilesTypes
  <2>2. shownSev' \in [used -> 0 .. 3] BY <1>1, <1>3, <2>1 DEF TilesTypes
  <2>3. good \in BOOLEAN OBVIOUS
  <2>4. ok' \in [used -> BOOLEAN] BY <1>1, <1>3, <2>3 DEF TilesTypes
  <2>5. IsMap(received, used)' /\ IsMap(val, used)' BY <1>1, <1>3, <1>4 DEF TilesTypes, IsMap
  <2>6. IsMap(retained, Topics)' /\ IsMap(flag, Flags)' BY <1>1, <1>4, <1>5 DEF TilesTypes, IsMap
  <2> QED BY <1>1, <1>3, <1>4, <1>5, <2>2, <2>4, <2>5, <2>6 DEF TilesTypes
<1>7. ScreenInv'
  <2>1. shownSev' \in [used -> 0 .. 3] BY <1>4, <1>6 DEF TilesTypes
  <2> QED BY <1>1, <1>3, <1>4, <2>1, RenderedAgain
<1>8. Online' <=> Online BY <1>4 DEF Online
<1>9. Header' = Header BY <1>4, <1>8 DEF Header, Dot
<1>10. connected BY <1>1, <1>3 DEF LinkInv
<1>11. LinkInv' BY <1>1, <1>2, <1>3, <1>4, <1>9, <1>10 DEF LinkInv
<1>12. MemoryInv'
  <2>1. Holds(i, m)' /\ received'[i] = 0
    <3>1. /\ received'[i] = 0 /\ ok'[i] = good
          /\ val'[i] = IF good \/ Kind[i] = "ha" THEN m.v ELSE val[i]
          /\ shownSev'[i] = IF HasSeverity(i) THEN m.sev ELSE shownSev[i]
      BY <1>1, <1>3 DEF TilesTypes, IsMap
    <3>2. Good(i, m) = good BY DEF Good
    <3> QED BY <1>4, <3>1, <3>2 DEF Holds, Good
  <2>2. \A j \in used \ pending : received'[j] = received[j] /\ ok'[j] = ok[j] /\ val'[j] = val[j] /\ shownSev'[j] = shownSev[j]
    BY <1>1, <1>3 DEF TilesTypes, IsMap
  <2>3. \A j \in used \ pending : Holds(j, retained[j])' BY <1>1, <1>4, <1>10, <2>2 DEF MemoryInv, Holds
  <2> QED BY <1>1, <1>2, <1>3, <1>4, <1>10, <2>1, <2>2, <2>3 DEF MemoryInv
<1>13. BridgeInv' BY <1>1, <1>4 DEF BridgeInv
<1>14. QuietInv' BY <1>1, <1>4 DEF QuietInv, Restored, Dark
<1> QED BY <1>6, <1>7, <1>11, <1>12, <1>13, <1>14 DEF TilesInv

\* A step that leaves the items, their messages and the bridge alone.
ItemsAlone ==
  UNCHANGED <<used, bridge, will, silent, retained, ok, received, val, shownSev>>

LEMMA ItemsAloneKeeps ==
  ASSUME TilesInv, ItemsAlone
  PROVE  /\ Topics' = Topics /\ BridgeInv'
         /\ pending' \subseteq Topics /\ connected' \in BOOLEAN /\ online' \in BOOLEAN /\ IsMap(flag, Flags)' => TilesTypes'
         /\ \A j \in used : Holds(j, retained[j])' <=> Holds(j, retained[j])
         /\ Restored' <=> Restored
<1>1. Topics' = Topics BY DEF Topics, ItemsAlone
<1>2. BridgeInv' BY DEF TilesInv, BridgeInv, ItemsAlone
<1>3. ASSUME pending' \subseteq Topics, connected' \in BOOLEAN, online' \in BOOLEAN, IsMap(flag, Flags)' PROVE TilesTypes'
  <2>1. IsMap(retained, Topics)' /\ IsMap(received, used)' /\ IsMap(val, used)'
    BY <1>1 DEF TilesInv, TilesTypes, IsMap, ItemsAlone
  <2> QED BY <1>1, <1>3, <2>1 DEF TilesInv, TilesTypes, ItemsAlone
<1>4. \A j \in used : Holds(j, retained[j])' <=> Holds(j, retained[j]) BY DEF Holds, Good, ItemsAlone
<1>5. Restored' <=> Restored BY DEF Restored, ItemsAlone
<1> QED BY <1>1, <1>2, <1>3, <1>4, <1>5

LEMMA OnlineShown ==
  ASSUME TilesInv, OnlineArrives
  PROVE  TilesInv'
<1>1. TilesTypes /\ ScreenInv /\ LinkInv /\ MemoryInv /\ BridgeInv /\ QuietInv BY DEF TilesInv
<1>2. "status" \notin used \cup Flags /\ "clock" \notin used \cup Flags BY RetainedStatus
<1>3. /\ "status" \in pending /\ pending' = pending \ {"status"} /\ online' = (retained["status"] = "online")
      /\ ItemsAlone /\ UNCHANGED <<connected, flag, clock, night>> /\ RenderTiles(drawn) /\ header' = Header'
  BY DEF OnlineArrives, ItemsAlone, world, data, RenderHeader
<1>4. connected BY <1>1, <1>3 DEF LinkInv
<1>5. online' \in BOOLEAN BY <1>3
<1>6. IsMap(flag, Flags)' BY <1>1, <1>3 DEF TilesTypes, IsMap
<1>7. TilesTypes' /\ BridgeInv' /\ (Restored' <=> Restored)
  BY <1>1, <1>3, <1>5, <1>6, ItemsAloneKeeps DEF TilesTypes
<1>8. ScreenInv'
  <2>1. shownSev' \in [used -> 0 .. 3] /\ used' = used BY <1>1, <1>3 DEF TilesTypes, ItemsAlone
  <2> QED BY <1>1, <1>3, <2>1, RenderedAgain
<1>9. LinkInv'
  <2>1. online' <=> retained'["status"] = "online" BY <1>3 DEF ItemsAlone
  <2> QED BY <1>3, <1>4, <2>1 DEF LinkInv
<1>10. MemoryInv'
  <2>1. \A j \in used : Holds(j, retained[j])' <=> Holds(j, retained[j]) BY <1>3, ItemsAloneKeeps
  <2> QED BY <1>1, <1>2, <1>3, <1>4, <2>1 DEF MemoryInv, ItemsAlone
<1>11. QuietInv'
  <2> SUFFICES ASSUME silent' > WillDelay, ~Restored' PROVE retained'["status"] # "online" /\ ~online' /\ Dark'
    BY DEF QuietInv
  <2>1. retained["status"] # "online" BY <1>1, <1>3, <1>7 DEF QuietInv, ItemsAlone
  <2>2. ~online' BY <1>3, <2>1
  <2>3. ~Online' BY <2>2 DEF Online
  <2>4. Dark' BY <1>3, <2>3, DarkHeaderNext
  <2> QED BY <1>3, <2>1, <2>2, <2>4 DEF ItemsAlone
<1> QED BY <1>7, <1>8, <1>9, <1>10, <1>11 DEF TilesInv

\* Only what the header knows of a connection or the time changes.
LEMMA HeaderShown ==
  ASSUME TilesInv, ItemsAlone, UNCHANGED <<connected, online, night, drawn, text, level, paint>>, RenderHeader,
         connected, IsMap(flag, Flags)', NEW topic \in (Flags \cup {"clock"}) \cap pending, pending' = pending \ {topic},
         topic = "clock" => flag' = flag /\ (bridge = "up" => clock' = 0),
         topic \in Flags => clock' = clock /\ flag'[topic] = FlagOf(retained[topic]) /\ \A f \in Flags \ {topic} : flag'[f] = flag[f]
  PROVE  TilesInv'
<1>1. TilesTypes /\ ScreenInv /\ LinkInv /\ MemoryInv /\ BridgeInv /\ QuietInv BY DEF TilesInv
<1>2. "status" \notin used \cup Flags /\ "clock" \notin used \cup Flags /\ used \cap Flags = {} BY RetainedStatus
<1>3. header' = Header' BY DEF RenderHeader
<1>4. TilesTypes' /\ BridgeInv' /\ (Restored' <=> Restored) BY <1>1, ItemsAloneKeeps DEF TilesTypes
<1>5. Online' <=> Online BY DEF Online
<1>6. ScreenInv' BY <1>1, <1>5, ScreenStays DEF ItemsAlone
<1>7. LinkInv' BY <1>1, <1>2, <1>3 DEF LinkInv, ItemsAlone
<1>8. MemoryInv'
  <2>1. \A j \in used : Holds(j, retained[j])' <=> Holds(j, retained[j]) BY ItemsAloneKeeps
  <2>2. \A j \in used : j # topic BY <1>2
  <2>3. \A j \in used' \ pending' : Holds(j, retained[j])' /\ (bridge' = "up" => received'[j] = 0)
    BY <1>1, <2>1, <2>2 DEF MemoryInv, ItemsAlone
  <2>4. \A f \in Flags \ pending' : flag'[f] = FlagOf(retained'[f])
    BY <1>1, <1>2 DEF MemoryInv, ItemsAlone
  <2>5. "clock" \notin pending' /\ bridge' = "up" => clock' = 0 BY <1>1, <1>2 DEF MemoryInv, ItemsAlone
  <2> QED BY <2>3, <2>4, <2>5 DEF MemoryInv
<1>9. QuietInv'
  <2> SUFFICES ASSUME silent' > WillDelay, ~Restored' PROVE retained'["status"] # "online" /\ ~online' /\ Dark'
    BY DEF QuietInv
  <2>1. retained["status"] # "online" /\ ~online BY <1>1, <1>4 DEF QuietInv, ItemsAlone
  <2>2. ~Online' BY <2>1 DEF Online
  <2>3. Dark' BY <1>3, <2>2, DarkHeaderNext
  <2> QED BY <2>1, <2>3 DEF ItemsAlone
<1> QED BY <1>4, <1>6, <1>7, <1>8, <1>9 DEF TilesInv

LEMMA FlagShown ==
  ASSUME TilesInv, NEW f \in Flags, FlagArrives(f)
  PROVE  TilesInv'
<1>1. /\ f \in pending /\ pending' = pending \ {f} /\ flag' = [flag EXCEPT ![f] = FlagOf(retained[f])]
      /\ ItemsAlone /\ UNCHANGED <<connected, online, clock, night, drawn, text, level, paint>> /\ RenderHeader
  BY DEF FlagArrives, ItemsAlone, world, data, FlagOf
<1>2. flag = [x \in Flags |-> flag[x]] BY DEF TilesInv, TilesTypes, IsMap
<1>3. flag'[f] = FlagOf(retained[f]) /\ (\A g \in Flags \ {f} : flag'[g] = flag[g]) /\ IsMap(flag, Flags)'
  BY <1>1, <1>2 DEF IsMap
<1>4. connected BY <1>1 DEF TilesInv, LinkInv
<1>5. f # "clock" BY RetainedStatus
<1> QED BY <1>1, <1>3, <1>4, <1>5, HeaderShown

LEMMA TimeShown ==
  ASSUME TilesInv, TimeArrives
  PROVE  TilesInv'
<1>1. /\ "clock" \in pending /\ pending' = pending \ {"clock"} /\ clock' = IF retained["clock"] = "set" THEN 0 ELSE MaxAge
      /\ ItemsAlone /\ UNCHANGED <<connected, online, flag, night, drawn, text, level, paint>> /\ RenderHeader
  BY DEF TimeArrives, ItemsAlone, world, data
<1>2. IsMap(flag, Flags)' BY <1>1 DEF TilesInv, TilesTypes, IsMap
<1>3. connected BY <1>1 DEF TilesInv, LinkInv
<1>4. "clock" \notin Flags BY RetainedStatus
<1>5. bridge = "up" => clock' = 0 BY <1>1 DEF TilesInv, BridgeInv
<1> QED BY <1>1, <1>2, <1>3, <1>4, <1>5, HeaderShown

LEMMA PaletteFlipped ==
  ASSUME TilesInv, FlipNight
  PROVE  TilesInv'
<1>1. TilesTypes /\ ScreenInv /\ LinkInv /\ MemoryInv /\ BridgeInv /\ QuietInv BY DEF TilesInv
<1>2. /\ ItemsAlone /\ UNCHANGED <<pending, connected, online, flag, clock>> /\ RenderTiles(Repaint) /\ header' = Header'
  BY DEF FlipNight, ItemsAlone, world, data, RenderHeader
<1>3. IsMap(flag, Flags)' BY <1>1, <1>2 DEF TilesTypes, IsMap
<1>4. TilesTypes' /\ BridgeInv' /\ (Restored' <=> Restored) BY <1>1, <1>2, <1>3, ItemsAloneKeeps DEF TilesTypes
<1>5. ScreenInv'
  <2>1. used' = used /\ used \in Displays /\ shownSev' \in [used -> 0 .. 3] BY <1>1, <1>2 DEF TilesTypes, ItemsAlone
  <2>2. \A i \in used : Repaint[i] = Undrawn BY DEF Repaint
  <2> QED BY <1>2, <2>1, <2>2, Rendered
<1>6. LinkInv' BY <1>1, <1>2 DEF LinkInv, ItemsAlone
<1>7. MemoryInv'
  <2>1. \A j \in used : Holds(j, retained[j])' <=> Holds(j, retained[j]) BY <1>2, ItemsAloneKeeps
  <2> QED BY <1>1, <1>2, <2>1 DEF MemoryInv, ItemsAlone
<1>8. QuietInv'
  <2> SUFFICES ASSUME silent' > WillDelay, ~Restored' PROVE retained'["status"] # "online" /\ ~online' /\ Dark'
    BY DEF QuietInv
  <2>1. retained["status"] # "online" /\ ~online BY <1>1, <1>2, <1>4 DEF QuietInv, ItemsAlone
  <2>2. ~online' /\ ~Online' BY <1>2, <2>1 DEF Online
  <2>3. Dark' BY <1>2, <2>2, DarkHeaderNext
  <2> QED BY <1>2, <2>1, <2>2, <2>3 DEF ItemsAlone
<1> QED BY <1>4, <1>5, <1>6, <1>7, <1>8 DEF TilesInv

LEMMA ConnectionFailed ==
  ASSUME TilesInv, ConnectionFails
  PROVE  TilesInv'
<1>1. TilesTypes /\ ScreenInv /\ LinkInv /\ MemoryInv /\ BridgeInv /\ QuietInv BY DEF TilesInv
<1>2. /\ connected' = FALSE /\ online' = FALSE /\ pending' = {} /\ ItemsAlone
      /\ UNCHANGED <<flag, clock, night, header>> /\ RenderTiles(drawn)
  BY DEF ConnectionFails, Disconnect, ItemsAlone, world, data
<1>3. IsMap(flag, Flags)' BY <1>1, <1>2 DEF TilesTypes, IsMap
<1>4. TilesTypes' /\ BridgeInv' /\ (Restored' <=> Restored) BY <1>2, <1>3, ItemsAloneKeeps
<1>5. ScreenInv'
  <2>1. used' = used /\ shownSev' \in [used -> 0 .. 3] BY <1>1, <1>2 DEF TilesTypes, ItemsAlone
  <2> QED BY <1>1, <1>2, <2>1, RenderedAgain
<1>6. LinkInv' /\ MemoryInv' BY <1>2 DEF LinkInv, MemoryInv
<1>7. QuietInv' BY <1>1, <1>2, <1>4 DEF QuietInv, ItemsAlone, Dark
<1> QED BY <1>4, <1>5, <1>6, <1>7 DEF TilesInv

LEMMA ConnectionReturned ==
  ASSUME TilesInv, ConnectionReturns
  PROVE  TilesInv'
<1>1. TilesTypes /\ ScreenInv /\ LinkInv /\ MemoryInv /\ BridgeInv /\ QuietInv BY DEF TilesInv
<1>2. /\ ~connected /\ connected' = TRUE /\ pending' = Topics /\ ItemsAlone
      /\ UNCHANGED <<online, flag, clock, night, drawn, text, level, paint, header>>
  BY DEF ConnectionReturns, ItemsAlone, world, data, screen
<1>3. IsMap(flag, Flags)' BY <1>1, <1>2 DEF TilesTypes, IsMap
<1>4. Topics' = Topics /\ BridgeInv' /\ (Restored' <=> Restored) BY <1>2, ItemsAloneKeeps
<1>5. TilesTypes' BY <1>1, <1>2, <1>3, <1>4, ItemsAloneKeeps DEF TilesTypes
<1>6. ~online BY <1>1, <1>2 DEF LinkInv
<1>7. Online' <=> Online BY <1>2, <1>6 DEF Online
<1>8. ScreenInv' BY <1>1, <1>2, <1>7, ScreenStays DEF ItemsAlone
<1>9. used \subseteq Topics /\ Flags \subseteq Topics /\ "status" \in Topics /\ "clock" \in Topics BY RetainedStatus
<1>10. LinkInv' /\ MemoryInv' BY <1>2, <1>9 DEF LinkInv, MemoryInv, ItemsAlone
<1>11. QuietInv' BY <1>1, <1>2, <1>4 DEF QuietInv, ItemsAlone, Dark
<1> QED BY <1>4, <1>5, <1>8, <1>10, <1>11 DEF TilesInv

\* A step of the bridge: the display changes nothing, and the topics it published are on their way.
DisplayAlone ==
  UNCHANGED <<used, connected, online, ok, received, val, shownSev, flag, clock, night, drawn, text, level, paint, header>>

LEMMA DisplayAloneKeeps ==
  ASSUME TilesInv, DisplayAlone
  PROVE  /\ Topics' = Topics /\ ScreenInv' /\ Header' = Header
         /\ /\ pending' \subseteq Topics /\ IsMap(retained, Topics)' /\ \A i \in used : retained'[i].sev \in 0 .. 3
            /\ bridge' \in {"up", "stopped", "lost"} /\ will' \in Nat /\ silent' \in Nat
            => TilesTypes'
<1>1. Topics' = Topics BY DEF Topics, DisplayAlone
<1>2. Online' <=> Online BY DEF Online, DisplayAlone
<1>3. ScreenInv' BY <1>2, ScreenStays DEF DisplayAlone, TilesInv
<1>4. Header' = Header BY <1>2 DEF Header, Dot, DisplayAlone
<1>5. IsMap(received, used)' /\ IsMap(val, used)' /\ IsMap(flag, Flags)'
  BY DEF TilesInv, TilesTypes, IsMap, DisplayAlone
<1> QED BY <1>1, <1>3, <1>4, <1>5 DEF TilesInv, TilesTypes, DisplayAlone

LEMMA PublishTo ==
  ASSUME TilesInv, NEW S, Publish(S)
  PROVE  /\ pending' \subseteq Topics
         /\ connected => \A x : x \in pending' <=> x \in pending \/ (x \in S /\ x \in Topics)
         /\ ~connected => pending' = {}
BY DEF Publish, TilesInv, TilesTypes, LinkInv

LEMMA BridgeStarted ==
  ASSUME TilesInv, BridgeStarts
  PROVE  TilesInv'
<1>1. TilesTypes /\ ScreenInv /\ LinkInv /\ MemoryInv /\ BridgeInv /\ QuietInv BY DEF TilesInv
<1>2. /\ "status" \notin used \cup Flags /\ "clock" \notin used \cup Flags /\ used \cap Flags = {} /\ used \subseteq Items
      /\ used \subseteq Topics /\ Flags \subseteq Topics /\ "status" \in Topics /\ "clock" \in Topics
  BY RetainedStatus
<1>3. PICK r \in [used -> UNION {Messages[i] : i \in used}] :
        /\ \A i \in used : r[i] \in Messages[i]
        /\ retained' = [t \in Topics |-> CASE t = "status" -> "online" [] t = "clock" -> "set"
                                           [] t \in Flags -> "disconnected" [] OTHER -> r[t]]
  BY DEF BridgeStarts
<1>4. bridge' = "up" /\ will' = 0 /\ silent' = 0 /\ Publish(Topics) /\ DisplayAlone
  BY DEF BridgeStarts, DisplayAlone, data, screen
<1>5. /\ retained'["status"] = "online" /\ retained'["clock"] = "set"
      /\ \A f \in Flags : retained'[f] = "disconnected"
      /\ \A i \in used : retained'[i] = r[i]
  BY <1>2, <1>3
<1>6. pending' \subseteq Topics /\ (connected => pending' = Topics) /\ (~connected => pending' = {})
  BY <1>1, <1>4, PublishTo DEF TilesTypes
<1>7. Topics' = Topics /\ ScreenInv' BY <1>4, DisplayAloneKeeps
<1>8. TilesTypes'
  <2>1. \A i \in used : retained'[i].sev \in 0 .. 3 BY <1>2, <1>3, <1>5, TilesAssumption
  <2>2. IsMap(retained, Topics)' BY <1>3, <1>7 DEF IsMap
  <2> QED BY <1>4, <1>6, <2>1, <2>2, DisplayAloneKeeps
<1>9. LinkInv' /\ MemoryInv' BY <1>1, <1>2, <1>4, <1>6 DEF LinkInv, MemoryInv, DisplayAlone
<1>10. BridgeInv' BY <1>4, <1>5 DEF BridgeInv
<1>11. QuietInv' BY <1>4, TilesAssumption DEF QuietInv
<1> QED BY <1>7, <1>8, <1>9, <1>10, <1>11 DEF TilesInv

\* The bridge that runs changes what one topic retains.
LEMMA TopicChanges ==
  ASSUME TilesInv, bridge = "up", DisplayAlone, NEW topic \in Topics, NEW m, retained' = [retained EXCEPT ![topic] = m],
         Publish({topic}), UNCHANGED <<will, silent>>, bridge' \in {"up", "stopped", "lost"}, topic # "clock",
         topic \in used => m.sev \in 0 .. 3, topic \in Flags => m \in {"connected", "disconnected"},
         topic = "status" => m = "offline" /\ bridge' = "stopped", topic # "status" => bridge' = "up"
  PROVE  TilesInv'
<1>1. TilesTypes /\ ScreenInv /\ LinkInv /\ MemoryInv /\ BridgeInv /\ QuietInv BY DEF TilesInv
<1>2. /\ "status" \notin used \cup Flags /\ "clock" \notin used \cup Flags
      /\ used \subseteq Topics /\ Flags \subseteq Topics /\ "status" \in Topics /\ "clock" \in Topics
  BY RetainedStatus
<1>3. pending' \subseteq Topics /\ (connected => pending' = pending \cup {topic}) /\ (~connected => pending' = {})
  BY PublishTo
<1>4. Topics' = Topics /\ ScreenInv' /\ Header' = Header BY DisplayAloneKeeps
<1>5. retained = [t \in Topics |-> retained[t]] BY <1>1 DEF TilesTypes, IsMap
<1>6. retained'[topic] = m /\ \A t \in Topics : t # topic => retained'[t] = retained[t] BY <1>5
<1>7. IsMap(retained, Topics)' BY <1>4, <1>5 DEF IsMap
<1>8. TilesTypes'
  <2>1. \A i \in used : retained'[i].sev \in 0 .. 3 BY <1>1, <1>2, <1>6 DEF TilesTypes
  <2>2. will' \in Nat /\ silent' \in Nat BY <1>1 DEF TilesTypes
  <2> QED BY <1>3, <1>7, <2>1, <2>2, DisplayAloneKeeps
<1>9. LinkInv'
  <2>1. CASE topic = "status" BY <1>1, <1>3, <2>1 DEF LinkInv, DisplayAlone
  <2>2. CASE topic # "status"
    <3>1. retained'["status"] = retained["status"] BY <1>2, <1>6, <2>2
    <3> QED BY <1>1, <1>3, <1>4, <2>2, <3>1 DEF LinkInv, DisplayAlone
  <2> QED BY <2>1, <2>2
<1>10. MemoryInv'
  <2> SUFFICES ASSUME connected
               PROVE  /\ \A i \in used \ pending' : Holds(i, retained[i])' /\ received[i] = 0
                      /\ \A f \in Flags \ pending' : flag[f] = FlagOf(retained'[f])
                      /\ "clock" \notin pending' => clock = 0
    BY DEF MemoryInv, DisplayAlone
  <2>1. \A t \in Topics \ pending' : t \notin pending /\ retained'[t] = retained[t] BY <1>3, <1>6
  <2>2. \A i \in used \ pending' : Holds(i, retained[i])' <=> Holds(i, retained[i])
    BY <1>2, <2>1 DEF Holds, Good, DisplayAlone
  <2> QED BY <1>1, <1>2, <2>1, <2>2 DEF MemoryInv
<1>11. BridgeInv'
  <2>1. bridge' = "up" \/ bridge' = "stopped" OBVIOUS
  <2>2. ASSUME topic # "status" PROVE BridgeInv'
    <3>1. /\ retained'["status"] = "online" /\ retained'["clock"] = "set"
          /\ \A f \in Flags : retained'[f] \in {"connected", "disconnected"}
      BY <1>1, <1>2, <1>6, <2>2 DEF BridgeInv
    <3> QED BY <1>1, <2>2, <3>1 DEF BridgeInv
  <2>3. ASSUME topic = "status" PROVE BridgeInv' BY <1>1, <1>6, <2>3 DEF BridgeInv
  <2> QED BY <2>2, <2>3
<1>12. QuietInv' BY <1>1, TilesAssumption DEF QuietInv, BridgeInv
<1> QED BY <1>4, <1>8, <1>9, <1>10, <1>11, <1>12 DEF TilesInv

LEMMA BridgePublished ==
  ASSUME TilesInv,
         (\E i \in used : ReadingChanges(i)) \/ (\E f \in Flags : FlagChanges(f)) \/ BridgeStops
  PROVE  TilesInv'
<1>1. /\ "status" \notin used \cup Flags /\ "clock" \notin used \cup Flags /\ used \cap Flags = {} /\ used \subseteq Items
      /\ used \subseteq Topics /\ Flags \subseteq Topics /\ "status" \in Topics
  BY RetainedStatus
<1>2. ASSUME NEW i \in used, ReadingChanges(i) PROVE TilesInv'
  <2>1. PICK m \in Messages[i] : retained' = [retained EXCEPT ![i] = m] BY <1>2 DEF ReadingChanges
  <2>2. bridge = "up" /\ bridge' = "up" /\ DisplayAlone /\ Publish({i}) /\ UNCHANGED <<will, silent>>
    BY <1>2 DEF ReadingChanges, DisplayAlone, data, screen
  <2>3. m.sev \in 0 .. 3 BY <1>1, TilesAssumption
  <2>4. i \in Topics /\ i # "status" /\ i # "clock" /\ i \notin Flags BY <1>1
  <2> QED BY <2>1, <2>2, <2>3, <2>4, TopicChanges
<1>3. ASSUME NEW f \in Flags, FlagChanges(f) PROVE TilesInv'
  <2>1. PICK s \in {"connected", "disconnected"} : retained' = [retained EXCEPT ![f] = s] BY <1>3 DEF FlagChanges
  <2>2. bridge = "up" /\ bridge' = "up" /\ DisplayAlone /\ Publish({f}) /\ UNCHANGED <<will, silent>>
    BY <1>3 DEF FlagChanges, DisplayAlone, data, screen
  <2>3. f \in Topics /\ f # "status" /\ f # "clock" /\ f \notin used BY <1>1
  <2> QED BY <2>1, <2>2, <2>3, TopicChanges
<1>4. ASSUME BridgeStops PROVE TilesInv'
  <2>1. /\ bridge = "up" /\ bridge' = "stopped" /\ retained' = [retained EXCEPT !["status"] = "offline"]
        /\ DisplayAlone /\ Publish({"status"}) /\ UNCHANGED <<will, silent>>
    BY <1>4 DEF BridgeStops, DisplayAlone, data, screen
  <2> QED BY <1>1, <2>1, TopicChanges
<1> QED BY <1>2, <1>3, <1>4

LEMMA BridgeDied ==
  ASSUME TilesInv, BridgeDies
  PROVE  TilesInv'
<1>1. TilesTypes /\ ScreenInv /\ LinkInv /\ MemoryInv /\ BridgeInv /\ QuietInv BY DEF TilesInv
<1>2. /\ bridge = "up" /\ bridge' = "lost" /\ will' = WillDelay /\ UNCHANGED <<silent, retained, pending>> /\ DisplayAlone
  BY DEF BridgeDies, DisplayAlone, data, screen
<1>3. silent = 0 BY <1>1, <1>2 DEF BridgeInv
<1>4. Topics' = Topics /\ ScreenInv' /\ Header' = Header BY <1>2, DisplayAloneKeeps
<1>5. TilesTypes'
  <2>1. IsMap(retained, Topics)' BY <1>1, <1>2, <1>4 DEF TilesTypes, IsMap
  <2> QED BY <1>1, <1>2, <2>1, DisplayAloneKeeps, TilesAssumption DEF TilesTypes
<1>6. LinkInv' BY <1>1, <1>2, <1>4 DEF LinkInv, DisplayAlone
<1>7. MemoryInv' BY <1>1, <1>2 DEF MemoryInv, Holds, Good, DisplayAlone
<1>8. BridgeInv' BY <1>2, <1>3, TilesAssumption DEF BridgeInv
<1>9. QuietInv' BY <1>2, <1>3, TilesAssumption DEF QuietInv
<1> QED BY <1>4, <1>5, <1>6, <1>7, <1>8, <1>9 DEF TilesInv

LEMMA PowerFailed ==
  ASSUME TilesInv, PowerFails
  PROVE  TilesInv'
<1>1. TilesTypes /\ BridgeInv BY DEF TilesInv
<1>2. /\ bridge = "up" /\ bridge' = "lost" /\ will' = 0 /\ UNCHANGED <<used, silent, retained>>
      /\ online' = FALSE /\ connected' = FALSE /\ pending' = {}
      /\ text' = [i \in used |-> Blank] /\ level' = [i \in used |-> 0] /\ drawn' = [i \in used |-> Undrawn]
  BY DEF PowerFails, NewDisplay
<1>3. /\ ok' \in [used -> BOOLEAN] /\ IsMap(received', used) /\ IsMap(val', used) /\ shownSev' \in [used -> 0 .. 3]
      /\ IsMap(flag', Flags)
  BY DEF PowerFails, NewDisplay, IsMap, Unknown
<1>4. Topics' = Topics BY <1>2 DEF Topics
<1>5. TilesTypes'
  <2>1. IsMap(retained, Topics)' BY <1>1, <1>2, <1>4 DEF TilesTypes, IsMap
  <2>2. IsMap(received, used)' /\ IsMap(val, used)' /\ IsMap(flag, Flags)' BY <1>2, <1>3 DEF IsMap
  <2> QED BY <1>1, <1>2, <1>3, <2>1, <2>2 DEF TilesTypes
<1>6. ~Online' BY <1>2 DEF Online
<1>7. ScreenInv'
  <2>1. \A i \in used : ~Fresh(i)' BY <1>6 DEF Fresh
  <2>2. \A i \in used : Text(i)' = Blank BY <2>1 DEF Text
  <2>3. \A i \in used : Level(i)' = 0 BY <2>1 DEF Level
  <2> QED BY <1>2, <2>2, <2>3 DEF ScreenInv, TileDrawn
<1>8. LinkInv' /\ MemoryInv' BY <1>2 DEF LinkInv, MemoryInv
<1>9. BridgeInv' BY <1>2 DEF BridgeInv
<1>10. QuietInv' BY <1>1, <1>2, TilesAssumption DEF QuietInv, BridgeInv
<1> QED BY <1>5, <1>7, <1>8, <1>9, <1>10 DEF TilesInv

LEMMA TimePassed ==
  ASSUME TilesInv, Elapse
  PROVE  TilesInv'
<1>1. TilesTypes /\ ScreenInv /\ LinkInv /\ MemoryInv /\ BridgeInv /\ QuietInv BY DEF TilesInv
<1>2. /\ "status" \notin used \cup Flags /\ "clock" \notin used \cup Flags
      /\ used \subseteq Topics /\ Flags \subseteq Topics /\ "status" \in Topics /\ "clock" \in Topics
  BY RetainedStatus
<1>3. /\ pending = {} /\ received' = [i \in used |-> Older(received[i])]
      /\ silent' = IF bridge = "up" THEN 0 ELSE IF silent > WillDelay THEN silent ELSE silent + 1
      /\ will' = IF will > 0 THEN will - 1 ELSE 0
      /\ retained' = IF will = 1 THEN [retained EXCEPT !["status"] = "offline"] ELSE retained
      /\ Publish(IF bridge = "up" THEN Topics \ ({"status"} \cup Flags) ELSE IF will = 1 THEN {"status"} ELSE {})
      /\ UNCHANGED <<used, bridge, connected, online, ok, val, shownSev, flag, night>>
      /\ RenderTiles(drawn) /\ header' = Header'
  BY DEF Elapse, RenderHeader
<1>4. Topics' = Topics BY <1>3 DEF Topics
<1>5. bridge = "up" => will = 0 BY <1>1 DEF BridgeInv
<1>6. /\ connected /\ bridge = "up" => \A t \in Topics : t \notin {"status"} \cup Flags => t \in pending'
      /\ connected /\ will = 1 => "status" \in pending'
      /\ pending' \subseteq Topics /\ (~connected => pending' = {})
  BY <1>1, <1>2, <1>3, <1>5, PublishTo
<1>7. /\ IsMap(retained, Topics)' /\ (\A t \in Topics : t # "status" => retained'[t] = retained[t])
      /\ will = 1 => retained'["status"] = "offline"
  BY <1>1, <1>2, <1>3, <1>4 DEF TilesTypes, IsMap
<1>8. will' \in Nat /\ silent' \in Nat BY <1>1, <1>3 DEF TilesTypes
<1>9. TilesTypes'
  <2>1. \A i \in used : retained'[i].sev \in 0 .. 3 BY <1>1, <1>2, <1>7 DEF TilesTypes
  <2>2. IsMap(received, used)' /\ IsMap(val, used)' /\ IsMap(flag, Flags)' BY <1>1, <1>3 DEF TilesTypes, IsMap
  <2> QED BY <1>1, <1>3, <1>4, <1>6, <1>7, <1>8, <2>1, <2>2 DEF TilesTypes
<1>10. ScreenInv'
  <2>1. shownSev' \in [used -> 0 .. 3] BY <1>1, <1>3 DEF TilesTypes
  <2> QED BY <1>1, <1>3, <2>1, RenderedAgain
<1>11. LinkInv'
  <2>1. CASE ~connected BY <1>1, <1>3, <1>6, <2>1 DEF LinkInv
  <2>2. CASE connected /\ "status" \notin pending'
    <3>1. retained' = retained BY <1>3, <1>6, <2>2
    <3> QED BY <1>1, <1>3, <2>2, <3>1 DEF LinkInv
  <2>3. CASE connected /\ "status" \in pending' BY <1>3, <2>3 DEF LinkInv
  <2> QED BY <2>1, <2>2, <2>3
<1>12. MemoryInv'
  <2> SUFFICES ASSUME connected
               PROVE  /\ \A i \in used \ pending' : Holds(i, retained[i])' /\ (bridge = "up" => received'[i] = 0)
                      /\ \A f \in Flags \ pending' : flag[f] = FlagOf(retained'[f])
                      /\ "clock" \notin pending' /\ bridge = "up" => clock' = 0
    BY <1>3 DEF MemoryInv
  <2>1. \A i \in used : Holds(i, retained[i])' <=> Holds(i, retained[i])
    BY <1>2, <1>3, <1>7 DEF Holds, Good
  <2>2. bridge = "up" => used \subseteq pending' /\ "clock" \in pending'
    <3>1. used \cap Flags = {} BY RetainedStatus
    <3> QED BY <1>2, <1>6, <3>1
  <2>3. \A f \in Flags : retained'[f] = retained[f] BY <1>2, <1>7
  <2> QED BY <1>1, <1>3, <2>1, <2>2, <2>3 DEF MemoryInv
<1>13. BridgeInv'
  <2>1. CASE bridge = "up"
    <3>1. retained' = retained /\ will' = 0 /\ silent' = 0 BY <1>3, <1>5, <2>1
    <3> QED BY <1>1, <1>3, <2>1, <3>1 DEF BridgeInv
  <2>2. CASE bridge # "up"
    <3>1. bridge = "stopped" => will' = 0 /\ retained'["status"] = "offline" BY <1>1, <1>3 DEF BridgeInv
    <3>2. will' > 0 => silent' + will' = WillDelay
      BY <1>1, <1>3, <2>2, TilesAssumption DEF BridgeInv, TilesTypes
    <3> QED BY <1>3, <2>2, <3>1, <3>2 DEF BridgeInv
  <2> QED BY <2>1, <2>2
<1>14. QuietInv'
  <2> SUFFICES ASSUME silent' > WillDelay, ~Restored' PROVE retained'["status"] # "online" /\ ~online' /\ Dark'
    BY DEF QuietInv
  <2>1. bridge # "up" /\ silent >= WillDelay BY <1>1, <1>3, TilesAssumption DEF TilesTypes
  <2>2. will = 0 BY <1>1, <2>1, TilesAssumption DEF TilesTypes, BridgeInv
  <2>3. will' = 0 /\ retained' = retained BY <1>3, <2>2
  <2>4. ~Restored BY <1>3, <2>2, <2>3 DEF Restored
  <2>5. retained["status"] # "online" BY <1>1, <2>1, <2>2, <2>4 DEF TilesTypes, BridgeInv, Restored
  <2>6. ~online BY <1>1, <1>3, <2>5 DEF LinkInv, TilesTypes
  <2>7. ~Online' BY <1>3, <2>6 DEF Online
  <2>8. Dark' BY <1>3, <2>7, DarkHeaderNext
  <2> QED BY <1>3, <2>3, <2>5, <2>6, <2>8
<1> QED BY <1>9, <1>10, <1>11, <1>12, <1>13, <1>14 DEF TilesInv

LEMMA TilesKept == TilesInv /\ [TilesNext]_tilesVars => TilesInv'
<1> SUFFICES ASSUME TilesInv, [TilesNext]_tilesVars PROVE TilesInv' OBVIOUS
<1>1. CASE Arrives BY <1>1, ItemShown, OnlineShown, FlagShown, TimeShown DEF Arrives
<1>2. CASE FlipNight BY <1>2, PaletteFlipped
<1>3. CASE ConnectionFails BY <1>3, ConnectionFailed
<1>4. CASE ConnectionReturns BY <1>4, ConnectionReturned
<1>5. CASE Elapse BY <1>5, TimePassed
<1>6. CASE BridgeStarts BY <1>6, BridgeStarted
<1>7. CASE BridgeStops \/ (\E i \in used : ReadingChanges(i)) \/ (\E f \in Flags : FlagChanges(f)) BY <1>7, BridgePublished
<1>8. CASE BridgeDies BY <1>8, BridgeDied
<1>9. CASE PowerFails BY <1>9, PowerFailed
<1>10. CASE UNCHANGED tilesVars
  <2>1. DisplayAlone /\ UNCHANGED <<bridge, will, silent, retained, pending>>
    BY <1>10 DEF tilesVars, world, data, screen, DisplayAlone
  <2>2. Topics' = Topics /\ ScreenInv' /\ Header' = Header BY <2>1, DisplayAloneKeeps
  <2>3. TilesTypes'
    <3>1. IsMap(retained, Topics)' BY <2>1, <2>2 DEF TilesInv, TilesTypes, IsMap
    <3> QED BY <2>1, <3>1, DisplayAloneKeeps DEF TilesInv, TilesTypes
  <2>4. LinkInv' BY <2>1, <2>2 DEF TilesInv, LinkInv, DisplayAlone
  <2>5. MemoryInv' BY <2>1 DEF TilesInv, MemoryInv, Holds, Good, DisplayAlone
  <2>6. BridgeInv' /\ QuietInv' BY <2>1 DEF TilesInv, BridgeInv, QuietInv, Restored, Dark, DisplayAlone
  <2> QED BY <2>2, <2>3, <2>4, <2>5, <2>6 DEF TilesInv
<1> QED BY <1>1, <1>2, <1>3, <1>4, <1>5, <1>6, <1>7, <1>8, <1>9, <1>10 DEF TilesNext

LEMMA NotBlank == \A a, b : <<a>> # Blank /\ <<a, b>> # Blank
<1> SUFFICES ASSUME NEW a, NEW b PROVE <<a>> # Blank /\ <<a, b>> # Blank OBVIOUS
<1>1. 1 \in DOMAIN <<a>> /\ 1 \in DOMAIN <<a, b>> OBVIOUS
<1>2. DOMAIN Blank = {} BY DEF Blank
<1> QED BY <1>1, <1>2

\* What Says asks for, part by part.
LEMMA SaysSo ==
  ASSUME NEW i \in used, NEW m, text[i] # Blank <=> Speaks(i, m), level[i] # 0 => text[i] # Blank,
         text[i] # Blank => CASE Kind[i] \in {"tile", "gauge"} -> text[i] = <<m.v>>
                              [] Kind[i] = "current" -> text[i][1] = m.v
                              [] Kind[i] = "shore" -> (text[i] = <<"ON">>) = (m.v > 0)
                              [] Kind[i] = "word" -> text[i] = <<"word", m.sev>>
                              [] OTHER -> text[i] = <<"state", m.v>>
  PROVE  Says(i, m)
<1>1. (text[i] # Blank) \in BOOLEAN /\ Speaks(i, m) \in BOOLEAN BY DEF Speaks
<1>2. (text[i] # Blank) = Speaks(i, m) BY <1>1
<1> QED BY <1>2 DEF Says

\* A display that is online shows what message m says, if it holds it.
LEMMA HeldIsSaid ==
  ASSUME TilesTypes, NEW i \in used, NEW m, TileDrawn(i), Holds(i, m), Online, received[i] = 0
  PROVE  Says(i, m)
<1>1. i \in Items /\ Kind[i] \in {"tile", "gauge", "current", "shore", "word", "ha"} BY TilesAssumption DEF TilesTypes
<1>2. Limit(i) \in Nat /\ 0 < Limit(i) BY TilesAssumption DEF Limit
<1>3. Fresh(i) <=> Good(i, m)
  <2>1. ok[i] = Good(i, m) BY DEF Holds
  <2> QED BY <1>2, <2>1 DEF Fresh
<1>4. text[i] = Text(i) /\ level[i] = Level(i) BY DEF TileDrawn
<1>5. ~Good(i, m) => text[i] = Blank /\ level[i] = 0
  <2> SUFFICES ASSUME ~Good(i, m) PROVE text[i] = Blank /\ level[i] = 0 OBVIOUS
  <2>1. ~Fresh(i) BY <1>3
  <2> QED BY <1>4, <2>1 DEF Text, Level
<1>6. ~Good(i, m) => ~Speaks(i, m) BY DEF Good, Speaks
<1>7. ASSUME Good(i, m) PROVE Says(i, m)
  <2>1. Fresh(i) /\ val[i] = m.v /\ (HasSeverity(i) => shownSev[i] = m.sev) BY <1>3, <1>7 DEF Holds
  <2>2. CASE Kind[i] = "word"
    <3>1. IsWord(i) /\ HasSeverity(i) BY <2>2 DEF IsWord, HasSeverity, NumericKinds
    <3>2. text[i] = IF m.sev = Unknown THEN Blank ELSE <<"word", m.sev>> BY <1>4, <2>1, <2>2, <3>1 DEF Text, Word
    <3>3. Speaks(i, m) <=> m.sev # Unknown BY <1>7, <2>2, <3>1 DEF Speaks, Good
    <3>4. level[i] = 0 BY <1>4, <2>2 DEF Level
    <3>5. text[i] # Blank <=> Speaks(i, m) BY <3>2, <3>3, NotBlank
    <3> QED BY <2>2, <3>2, <3>4, <3>5, SaysSo
  <2>3. CASE Kind[i] = "ha"
    <3>1. IsWord(i) BY <2>3 DEF IsWord, NumericKinds
    <3>2. text[i] = IF m.v \in -1 .. States - 1 THEN <<"state", m.v>> ELSE Blank BY <1>4, <2>1, <2>3, <3>1 DEF Text, Word
    <3>3. Speaks(i, m) <=> m.v \in -1 .. States - 1 BY <1>7, <2>3, <3>1 DEF Speaks, Good
    <3>4. level[i] = 0 BY <1>4, <2>3 DEF Level
    <3>5. text[i] # Blank <=> Speaks(i, m) BY <3>2, <3>3, NotBlank
    <3> QED BY <2>3, <3>2, <3>4, <3>5, SaysSo
  <2>4. CASE Kind[i] \in NumericKinds
    <3>1. ~IsWord(i) /\ m.v # NoValue BY <1>7, <2>4 DEF IsWord, Good
    <3>2. Speaks(i, m) BY <1>7, <2>4, <3>1 DEF Speaks, Good, NumericKinds
    <3>3. CASE Kind[i] = "shore"
      <4>1. text[i] = IF m.v > 0 THEN <<"ON">> ELSE <<"OFF">> BY <1>4, <2>1, <3>1, <3>3 DEF Text, Electrical
      <4>2. text[i] # Blank BY <4>1, NotBlank
      <4>3. (text[i] = <<"ON">>) = (m.v > 0) BY <4>1
      <4> QED BY <3>2, <3>3, <4>2, <4>3, SaysSo
    <3>4. CASE Kind[i] = "current"
      <4>1. text[i] = <<m.v, IF m.v > 0 THEN "CHG" ELSE IF m.v < 0 THEN "DSG" ELSE "">>
        BY <1>4, <2>1, <3>1, <3>4 DEF Text, Electrical
      <4>0. \A a, b : <<a, b>>[1] = a OBVIOUS
      <4>2. text[i][1] = m.v BY <4>0, <4>1, Zenon
      <4>3. text[i] # Blank BY <4>1, NotBlank
      <4> QED BY <3>2, <3>4, <4>2, <4>3, SaysSo
    <3>5. CASE Kind[i] \in {"tile", "gauge"}
      <4>1. text[i] = <<m.v>> BY <1>4, <2>1, <3>1, <3>5 DEF Text
      <4>2. text[i] # Blank BY <4>1, NotBlank
      <4> QED BY <3>2, <3>5, <4>1, <4>2, SaysSo
    <3> QED BY <2>4, <3>3, <3>4, <3>5 DEF NumericKinds
  <2> QED BY <1>1, <2>2, <2>3, <2>4 DEF NumericKinds
<1> QED BY <1>5, <1>6, <1>7, SaysSo

LEMMA CurrentShown == TilesInv => ShownIsCurrent
<1> SUFFICES ASSUME TilesInv, bridge = "up", connected, pending = {}
             PROVE  /\ \A i \in used : Says(i, retained[i])
                    /\ \A f \in Flags : header.dots[f] = IF retained[f] = "connected" THEN 1 ELSE 2
                    /\ header.online /\ header.clock
  BY DEF ShownIsCurrent
<1>1. TilesTypes /\ ScreenInv /\ LinkInv /\ MemoryInv /\ BridgeInv BY DEF TilesInv
<1>2. online /\ header = Header BY <1>1 DEF LinkInv, BridgeInv
<1>3. Online BY <1>2 DEF Online
<1>4. \A i \in used : Says(i, retained[i]) BY <1>1, <1>3, HeldIsSaid DEF ScreenInv, MemoryInv
<1>5. /\ header.dots = [f \in Flags |-> Dot(f)] /\ header.online = Online
      /\ header.clock = (Online /\ clock < ClockLimit)
  BY <1>2 DEF Header
<1>6. \A f \in Flags : header.dots[f] = FlagOf(retained[f]) BY <1>1, <1>3, <1>5 DEF Dot, MemoryInv
<1>7. \A f \in Flags : retained[f] \in {"connected", "disconnected"} BY <1>1 DEF BridgeInv
<1>8. clock = 0 BY <1>1 DEF MemoryInv
<1>9. clock < ClockLimit BY <1>8 DEF ClockLimit
<1>10. header.online BY <1>3, <1>5
<1>11. header.clock BY <1>3, <1>5, <1>9
<1> QED BY <1>4, <1>6, <1>7, <1>10, <1>11 DEF FlagOf

LEMMA PaintShown == TilesInv => PaintAgrees
<1> SUFFICES ASSUME TilesInv, NEW i \in used, drawn[i] # Undrawn
             PROVE  /\ paint[i] = <<drawn[i], night>>
                    /\ text[i] = Blank /\ Kind[i] # "ha" => paint[i][1] = Unknown
  BY DEF PaintAgrees
<1>1. paint[i] = <<drawn[i], night>> /\ drawn[i] = Colour(i) /\ text[i] = Text(i)
  BY DEF TilesInv, ScreenInv, TileDrawn
<1>2. ASSUME text[i] = Blank, Kind[i] # "ha" PROVE Colour(i) = Unknown
  <2>1. CASE ~Fresh(i) BY <2>1 DEF Colour, GaugeColour, ShoreColour
  <2>2. CASE Fresh(i)
    <3>1. i \in Items /\ Kind[i] \in NumericKinds \cup {"word"}
      BY <1>2, TilesAssumption DEF TilesInv, TilesTypes, NumericKinds
    <3>2. Kind[i] \in NumericKinds => Text(i) # Blank
      BY <2>2 DEF Text, IsWord, NumericKinds, Electrical, Blank
    <3>3. Kind[i] = "word" BY <1>1, <1>2, <3>1, <3>2
    <3>4. Text(i) = Word(i) BY <2>2, <3>3 DEF Text, IsWord, NumericKinds
    <3>5. shownSev[i] = Unknown BY <1>1, <1>2, <3>3, <3>4, NotBlank DEF Word
    <3> QED BY <2>2, <3>3, <3>5 DEF Colour
  <2> QED BY <2>1, <2>2
<1> QED BY <1>1, <1>2

LEMMA SilenceShown == TilesInv => SilenceShows
<1> SUFFICES ASSUME TilesInv, silent > WillDelay, ~Restored
             PROVE  /\ \A i \in used : text[i] = Blank /\ level[i] = 0
                    /\ ~header.online /\ ~header.clock /\ \A f \in Flags : header.dots[f] = Unknown
  BY DEF SilenceShows
<1>1. ~online /\ Dark BY DEF TilesInv, QuietInv
<1>2. \A i \in used : ~Fresh(i) BY <1>1 DEF Fresh, Online
<1>3. \A i \in used : text[i] = Blank /\ level[i] = 0 BY <1>2 DEF TilesInv, ScreenInv, TileDrawn, Text, Level
<1> QED BY <1>1, <1>3 DEF Dark

(* Whatever items, kinds, readings and stale times a display has, and        *)
(* wherever messages, disconnections, a stopped or killed bridge, a power    *)
(* failure or a change of palette come: a connected display that has read    *)
(* what was sent shows it, each colour is the one called for in the palette  *)
(* of the moment, and once the will is due no value or green dot is left.    *)
THEOREM TilesShown == TilesSpec => []TilesTrue
<1>1. TilesInv => TilesTrue BY CurrentShown, PaintShown, SilenceShown DEF TilesTrue
<1>2. TilesInit /\ [][TilesNext]_tilesVars => []TilesTrue
  BY <1>1, TilesStart, TilesKept, PTL
<1> QED BY <1>2, PTL DEF TilesSpec
=============================================================================
