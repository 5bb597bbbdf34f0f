------------------------------ MODULE DisplayUi ------------------------------
(***************************************************************************)
(* How a display behaves under the hand and when an alarm comes: the touch *)
(* layer, the alarm takeover, the night palette and the backlight, as      *)
(* displays/render.py generates them (_touch_layer, _alarm_handler,        *)
(* _alarm_script, _alarm_banner, _clock_handler, _night_script,            *)
(* _power_script, _dim_interval) for a display with swipe, a night         *)
(* schedule, dimming and alarm takeover.  ESPHome runs one handler or      *)
(* script at a time.                                                       *)
(*                                                                         *)
(* The broker's messages and the finger are the environment.  The panel    *)
(* may report a click after a swipe or a long press (not verified on the   *)
(* hardware, says docs/DISPLAYS.md), each at most once in a touch.  Time   *)
(* passes in seconds (the 1 s interval); LVGL's inactivity clock is a flag *)
(* that may rise while nobody touches.  The banner's flashing is left out. *)
(***************************************************************************)
EXTENDS Integers

CONSTANTS
  Pages,           \* number of pages
  AlarmPage,       \* alarm_page
  Names,           \* the items of this display an alarm may name, 0..Names-1
  MaxAlarms,       \* bound: alarms at once
  SummaryLimit,    \* seconds after which the summary is stale, 3 heartbeats
  Day, NightLevel, Dim, Full   \* backlight levels: Full is 100 %

ASSUME UiAssumption ==
  /\ Pages \in Nat \ {0} /\ AlarmPage \in 0 .. Pages - 1
  /\ Names \in Nat /\ MaxAlarms \in Nat /\ SummaryLimit \in Nat \ {0}
  /\ Day \in Nat /\ NightLevel \in Nat /\ Dim \in Nat /\ Full \in Nat

VARIABLES
  linked, bridge_online,
  summary,         \* summary_max (as "unknown", "ok", "alarm"), summary_na, summary_first
  seen,            \* seconds since summary_seen; SummaryLimit when stale or never
  alarm_dismissed,
  banner,          \* the name index the banner shows, or Hidden
  page,            \* the page on the screen
  touch,           \* the touch in progress: on what, on which page, what was reported
  touch_ignore,
  idle,            \* LVGL: nobody has touched the screen for dim_after_s
  dim_idle,
  night_sched, night_override, night_active,
  bl_drawn, light, \* the level written last, and the level of the light
  acted, woke, acked  \* history: what this touch did, it woke the screen; alarms dismissed

alarmVars == <<summary, seen, alarm_dismissed, banner, acked>>
touchVars == <<touch, touch_ignore, acted, woke>>
nightVars == <<night_sched, night_override, night_active>>
lightVars == <<bl_drawn, light>>
uiVars == <<linked, bridge_online, alarmVars, page, touchVars, idle, dim_idle, nightVars, lightVars>>

Hidden == -2
NoTouch == [on |-> "nothing", page |-> 0, reported |-> {}]
Quiet == [max |-> "unknown", na |-> 0, first |-> -1]

UiInit ==
  /\ linked = FALSE /\ bridge_online = FALSE
  /\ summary = Quiet /\ seen = SummaryLimit /\ alarm_dismissed = FALSE /\ banner = Hidden
  /\ page = 0 /\ touch = NoTouch /\ touch_ignore = FALSE
  /\ idle = FALSE /\ dim_idle = FALSE
  /\ night_sched = FALSE /\ night_override = -1 /\ night_active = FALSE
  /\ bl_drawn = -1 /\ light = Full
  /\ acted = 0 /\ woke = FALSE /\ acked = 0

-----------------------------------------------------------------------------
(* The scripts.                                                              *)

\* apply_power
Target ==
  IF banner # Hidden THEN Full
  ELSE LET level == IF night_active THEN NightLevel ELSE Day IN
       IF dim_idle /\ level > Dim THEN Dim ELSE level

ApplyPower ==
  /\ bl_drawn' = Target'
  /\ light' = IF Target' # bl_drawn THEN Target' ELSE light

\* apply_night
ApplyNight == night_active' = IF night_override' >= 0 THEN night_override' = 1 ELSE night_sched'

\* render_alarm: a stale summary is forgotten
RenderAlarm(s, dismissed) ==
  LET now == IF seen' < SummaryLimit THEN s ELSE [s EXCEPT !.max = "unknown", !.na = 0]
      show == seen' < SummaryLimit /\ bridge_online' /\ linked' /\ now.max = "alarm" /\ now.na > 0 /\ ~dismissed
  IN  /\ summary' = now
      /\ alarm_dismissed' = dismissed
      /\ banner' = IF show THEN now.first ELSE Hidden

\* The alarms still dismissed when there are n: another one brings the banner back.
Dismissed(n) == IF n > acked THEN 0 ELSE n

-----------------------------------------------------------------------------
(* Messages.                                                                 *)

RisingMutant(s) == s.max = "alarm" /\ summary.max # "alarm"
Rising(s) == s.max = "alarm" /\ (summary.max # "alarm" \/ s.na > summary.na)

KnowsLight == bl_drawn' = Full

SummaryArrives(s) ==
  /\ linked
  /\ seen' = 0
  /\ UNCHANGED <<linked, bridge_online, touchVars, idle, dim_idle, nightVars>>
  /\ RenderAlarm(s, alarm_dismissed /\ ~Rising(s))
  /\ IF Rising(s) THEN page' = AlarmPage /\ light' = Full /\ KnowsLight
                  ELSE UNCHANGED <<page, lightVars>>
  /\ acked' = Dismissed(s.na)

StatusArrives(online) ==
  /\ linked
  /\ bridge_online' = online
  /\ UNCHANGED <<linked, alarmVars, page, touchVars, idle, dim_idle, nightVars, lightVars>>

Override(n) == IF n # night_sched THEN -1 ELSE night_override

ClockArrives(n) ==
  /\ linked
  /\ night_sched' = n /\ night_override' = Override(n)
  /\ UNCHANGED <<linked, bridge_online, alarmVars, page, touchVars, idle, dim_idle>>
  /\ ApplyNight /\ ApplyPower

LinkFails ==
  /\ linked
  /\ linked' = FALSE /\ bridge_online' = FALSE
  /\ UNCHANGED <<alarmVars, page, touchVars, idle, dim_idle, nightVars, lightVars>>

LinkReturns ==
  /\ ~linked
  /\ linked' = TRUE
  /\ UNCHANGED <<bridge_online, alarmVars, page, touchVars, idle, dim_idle, nightVars, lightVars>>

-----------------------------------------------------------------------------
(* The finger.                                                               *)

WakesMutant == FALSE
Wakes == dim_idle

\* The banner lies above the touch layer of the page.
Press(on) ==
  /\ touch = NoTouch /\ (on = "banner" => banner # Hidden)
  /\ touch' = [on |-> on, page |-> page, reported |-> {}]
  /\ touch_ignore' = IF on = "layer" THEN Wakes ELSE touch_ignore
  /\ idle' = FALSE /\ acted' = 0 /\ woke' = (on = "layer" /\ dim_idle)
  /\ UNCHANGED <<linked, bridge_online, alarmVars, page, dim_idle, nightVars, lightVars>>

Report(gesture) ==
  /\ touch.on = "layer" /\ gesture \notin touch.reported
  /\ touch' = [touch EXCEPT !.reported = @ \cup {gesture}]

Done == touch_ignore' = TRUE

\* on_swipe_left, on_swipe_right: explicit page ids, from the page that was touched
Swipe(step) ==
  /\ Report("swipe")
  /\ IF touch_ignore THEN UNCHANGED <<page, acted>>
                     ELSE page' = (touch.page + step) % Pages /\ acted' = acted + 1
  /\ Done
  /\ UNCHANGED <<linked, bridge_online, alarmVars, woke, idle, dim_idle, nightVars, lightVars>>

\* on_long_press
LongPress ==
  /\ Report("long")
  /\ UNCHANGED <<linked, bridge_online, alarmVars, page, woke, idle, dim_idle, night_sched>>
  /\ IF touch_ignore
       THEN UNCHANGED <<night_override, night_active, lightVars, acted>>
       ELSE /\ night_override' = (IF night_active THEN 0 ELSE 1) /\ acted' = acted + 1
            /\ ApplyNight /\ ApplyPower
  /\ Done

\* The finger is lifted, with or without a short click.
Lift(click) ==
  /\ touch.on = "layer"
  /\ touch' = NoTouch
  /\ IF click /\ ~touch_ignore THEN page' = (touch.page + 1) % Pages /\ acted' = acted + 1
                               ELSE UNCHANGED <<page, acted>>
  /\ UNCHANGED <<linked, bridge_online, alarmVars, touch_ignore, woke, idle, dim_idle, nightVars, lightVars>>

\* on_click of the banner
Dismiss ==
  /\ touch.on = "banner"
  /\ touch' = NoTouch
  /\ seen' = seen /\ acked' = summary.na
  /\ UNCHANGED <<linked, bridge_online, page, touch_ignore, acted, woke, idle, dim_idle, nightVars, lightVars>>
  /\ RenderAlarm(summary, TRUE)

-----------------------------------------------------------------------------
(* Time.                                                                     *)

FallsIdle ==
  /\ ~idle /\ touch = NoTouch
  /\ idle' = TRUE
  /\ UNCHANGED <<linked, bridge_online, alarmVars, page, touchVars, dim_idle, nightVars, lightVars>>

\* The 250 ms interval
Poll ==
  /\ dim_idle' = idle
  /\ UNCHANGED <<linked, bridge_online, alarmVars, page, touchVars, idle, nightVars>>
  /\ ApplyPower

\* The 1 s interval
Second ==
  /\ seen' = IF seen < SummaryLimit THEN seen + 1 ELSE seen
  /\ UNCHANGED <<linked, bridge_online, page, touchVars, idle, dim_idle, night_sched, night_override>>
  /\ RenderAlarm(summary, alarm_dismissed) /\ ApplyNight /\ ApplyPower
  /\ acked' = Dismissed(summary'.na)

Summaries ==
  [max : {"unknown", "ok"}, na : {0}, first : {-1}]
    \cup [max : {"alarm"}, na : 1 .. MaxAlarms, first : -1 .. Names - 1]

UiNext ==
  \/ \E s \in Summaries : SummaryArrives(s)
  \/ \E b \in BOOLEAN : StatusArrives(b) \/ ClockArrives(b) \/ Lift(b)
  \/ LinkFails \/ LinkReturns \/ LongPress \/ Dismiss
  \/ \E on \in {"layer", "banner"} : Press(on)
  \/ \E step \in {1, Pages - 1} : Swipe(step)
  \/ FallsIdle \/ Poll \/ Second

UiSpec == UiInit /\ [][UiNext]_uiVars

-----------------------------------------------------------------------------
(* Properties.                                                               *)

\* One touch does one thing at most, and a touch that woke a dimmed screen does nothing else, in
\* whatever order the panel reports its gestures and the screen dims or lights under the finger.
TouchActsOnce == acted <= 1 /\ (woke => acted = 0)

\* The controller never believes the light to be at another level than it is: once it has written
\* the backlight, a level that does not change need not be written again.
LightTrue == bl_drawn # -1 => light = bl_drawn

\* TouchTrue: a touch and the light under it do what the controller believes they did.
TouchTrue == TouchActsOnce /\ LightTrue

\* Whenever the banner is drawn, it is shown exactly while a fresh summary of a running bridge has
\* alarms, unless they were dismissed and none has begun or all have ended since.  It names the first
\* alarm.
AlarmShown ==
  [][Second \/ Dismiss \/ (\E s \in Summaries : SummaryArrives(s)) =>
       banner' = IF /\ seen' < SummaryLimit /\ bridge_online' /\ linked'
                    /\ summary'.max = "alarm" /\ acked' = 0
                 THEN summary'.first ELSE Hidden]_uiVars

\* The palette changes only by a long press or when the schedule does: a bridge that dies at night
\* does not light up the cabin, and an override lasts until the schedule's next change.
NightHolds ==
  [][night_active' # night_active => night_sched' # night_sched \/ acted' # acted]_uiVars

\* AlarmsAndNight: what is drawn over the pages and in which palette.
AlarmsAndNight == AlarmShown /\ NightHolds
=============================================================================
