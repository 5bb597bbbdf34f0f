------------------------------- MODULE Readings -------------------------------
(***************************************************************************)
(* The pure functions between a SignalK value and what a display shows:    *)
(* displays/conversions.py (rounding, angles), severity.py (thresholds     *)
(* with hysteresis, notification states) and topics.alarm_summary.         *)
(*                                                                         *)
(* Numbers are integers: a value before rounding counts hundredths (say)   *)
(* of the last digit shown, Unit of them to the digit.  round(..., 9) in   *)
(* numeric_sev only undoes binary floating point and is exact here.        *)
(***************************************************************************)
EXTENDS Integers, FiniteSets

CONSTANTS
  Unit,     \* one step of the rounded value, in steps of the raw value
  MaxAbs    \* MAX_ABS_VALUE, in steps of the raw value

ASSUME UnitAssumption == Unit \in Nat \ {0} /\ MaxAbs \in Nat

Abs(n) == IF n < 0 THEN -n ELSE n

-----------------------------------------------------------------------------
(* conversions.py *)

\* Half away from zero, in units of the last digit shown.
RoundHalfUp(n) ==
  IF n < 0 THEN -((Unit - 2 * n) \div (2 * Unit)) ELSE (2 * n + Unit) \div (2 * Unit)

\* round_value returns None (drop the reading) beyond MAX_ABS_VALUE.
Readable(n) == Abs(n) <= MaxAbs

\* A full turn in raw steps.
Turn == 360 * Unit

\* "rad->deg_360" shown in whole degrees: 359.5 and more rounds up to 360, which is 0.
Heading(a) == LET r == RoundHalfUp(a % Turn) IN IF r >= 360 THEN 0 ELSE r

-----------------------------------------------------------------------------
(* severity.py.  Thresholds are a function from the bounds configured, and   *)
(* "hysteresis", to numbers.                                                 *)

Levels == {"ok", "warn", "alarm"}
Rank(l) == CASE l = "ok" -> 0 [] l = "warn" -> 1 [] l = "alarm" -> 2

BoundNames == {"alarm_below", "warn_below", "warn_above", "alarm_above"}

Hysteresis(t) == IF "hysteresis" \in DOMAIN t THEN t["hysteresis"] ELSE 0
Below(v, t, name, margin) == name \in DOMAIN t /\ v < t[name] + margin
Above(v, t, name, margin) == name \in DOMAIN t /\ v > t[name] - margin

Alarming(v, t, margin) == Below(v, t, "alarm_below", margin) \/ Above(v, t, "alarm_above", margin)
Warning(v, t, margin) == Below(v, t, "warn_below", margin) \/ Above(v, t, "warn_above", margin)

\* schema.validate_thresholds: bounds in order, hysteresis below every gap.
BoundOrder == <<"alarm_below", "warn_below", "warn_above", "alarm_above">>
ValidThresholds(t) ==
  /\ DOMAIN t \cap BoundNames # {}
  /\ DOMAIN t \subseteq BoundNames \cup {"hysteresis"}
  /\ \A n \in DOMAIN t : t[n] \in Int
  /\ Hysteresis(t) >= 0
  /\ \A i, j \in 1 .. 4 :
       i < j /\ {BoundOrder[i], BoundOrder[j]} \subseteq DOMAIN t
         => LET gap == t[BoundOrder[j]] - t[BoundOrder[i]] IN
            /\ gap >= 0 /\ (i <= 2 /\ j >= 3 => gap > 0)
            /\ "hysteresis" \in DOMAIN t => Hysteresis(t) < gap

\* prev is the severity of the previous reading, or anything else (no memory).
HeldAlarmMutant(v, t, prev) == Alarming(v, t, Hysteresis(t))
HeldAlarm(v, t, prev) == prev = "alarm" /\ Alarming(v, t, Hysteresis(t))
HeldWarnMutant(v, t, prev) == FALSE
HeldWarn(v, t, prev) == prev \in {"warn", "alarm"} /\ Warning(v, t, Hysteresis(t))

NumericSev(v, t, prev) ==
  CASE Alarming(v, t, 0) \/ HeldAlarm(v, t, prev) -> "alarm"
    [] ~(Alarming(v, t, 0) \/ HeldAlarm(v, t, prev))
         /\ (Warning(v, t, 0) \/ HeldWarn(v, t, prev)) -> "warn"
    [] OTHER -> "ok"

\* A notification's state; "cleared" is a null value, "other" anything not recognised.
NotificationStates == {"normal", "nominal", "alert", "warn", "alarm", "emergency"}
NotificationSev(state, absent) ==
  CASE state = "cleared" -> IF absent = "ok" THEN "ok" ELSE "unknown"
    [] state \in {"normal", "nominal"} -> "ok"
    [] state \in {"alert", "warn"} -> "warn"
    [] state \in {"alarm", "emergency"} -> "alarm"
    [] OTHER -> "unknown"

=============================================================================
