-------------------------------- MODULE Gauge --------------------------------
(***************************************************************************)
(* One instrument's severity over a sequence of readings, as Engine.update *)
(* and Engine.tick drive severity.numeric_sev: each reading is judged with *)
(* the previous severity as memory, and a stale instrument forgets it.     *)
(*                                                                         *)
(* Next to the code's severity run two latches, one per level, which say   *)
(* what hysteresis promises (docs/DISPLAYS.md, thresholds) without its     *)
(* case analysis, and the reading at which each level was last left.       *)
(***************************************************************************)
EXTENDS Readings

CONSTANTS
  Thresholds,  \* the configured thresholds
  Raws         \* the raw values that may arrive

ASSUME GaugeAssumption ==
  /\ ValidThresholds(Thresholds)
  /\ Raws \subseteq Int

VARIABLES
  value,    \* _State.value: the latest rounded reading
  sev,      \* _State.sev: "none" unless the instrument is ok
  alarmed, warned,  \* the latches
  left      \* left[l]: the reading that last ended level l or worse, if any

vars == <<value, sev, alarmed, warned, left>>

H == Hysteresis(Thresholds)

Init ==
  /\ value = 0 /\ sev = "none"
  /\ alarmed = FALSE /\ warned = FALSE
  /\ left = [l \in {"warn", "alarm"} |-> {}]

AtLeast(l, s) == s \in Levels /\ Rank(s) >= Rank(l)

\* A level is on from a reading beyond one of its bounds until one clears all of them by H; what
\* the warning level holds is also held for an instrument that comes down from alarm.
LatchOn(beyond, on, held) == beyond \/ (on /\ held)

Reading(raw) ==
  LET v == RoundHalfUp(raw) IN
  /\ Readable(raw)
  /\ value' = v
  /\ sev' = NumericSev(v, Thresholds, sev)
  /\ alarmed' = LatchOn(Alarming(v, Thresholds, 0), alarmed, Alarming(v, Thresholds, H))
  /\ warned' = LatchOn(Warning(v, Thresholds, 0), warned \/ alarmed, Warning(v, Thresholds, H))
  /\ left' = [l \in {"warn", "alarm"} |->
                IF AtLeast(l, sev) /\ ~AtLeast(l, sev') THEN {v} ELSE left[l]]

\* Engine.tick: nothing arrived for stale_after_s.
GoesStale ==
  /\ sev # "none"
  /\ sev' = "none"
  /\ alarmed' = FALSE /\ warned' = FALSE
  /\ left' = [l \in {"warn", "alarm"} |-> {}]
  /\ UNCHANGED value

Next == GoesStale \/ \E raw \in Raws : Reading(raw)

Spec == Init /\ [][Next]_vars

-----------------------------------------------------------------------------

\* Severity is the worst latch that is on: going up is immediate, coming down needs the reading
\* to clear the bound by the hysteresis, and there is no memory after the value was stale.
Agrees ==
  /\ sev = "alarm" <=> alarmed
  /\ sev = "warn" <=> warned /\ ~alarmed

\* A level that was left comes back from below only at a reading further than the hysteresis
\* from the one that ended it: noise within the hysteresis never makes a tile flicker.
NoChatter ==
  [][\A l \in {"warn", "alarm"} :
       sev \in Levels /\ ~AtLeast(l, sev) /\ sev' = l
         => \A v \in left[l] : Abs(value' - v) > H]_vars
=============================================================================
