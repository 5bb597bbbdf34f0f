------------------------------- MODULE MCDevice -------------------------------
(***************************************************************************)
(* The way of one reading to the screen for TLC: its severity (Gauge, in   *)
(* tenths of a unit around four bounds), what a display shows of the       *)
(* messages (DisplayTiles) and how it answers the hand and alarms          *)
(* (DisplayUi).  They share no state and are checked in one run: "part"    *)
(* says which of them a behaviour is about, the others rest in an initial  *)
(* state, and no step changes "part".                                      *)
(***************************************************************************)
EXTENDS Gauge, DisplayUi, DisplayTiles

VARIABLE part

deviceVars == <<part, vars, tilesVars, uiVars>>

BothSides == [alarm_below |-> 0, warn_below |-> 4, warn_above |-> 9, alarm_above |-> 13,
              hysteresis |-> 3]
MCRaws == -40 .. 180

-----------------------------------------------------------------------------
(* A display with an item of one kind at a time: the header is the same for  *)
(* all, and no tile reads another's item.                                    *)

Message(v, s) == [st |-> "ok", v |-> v, sev |-> s]
Silent == [st |-> "missing", v |-> NoValue, sev |-> 0]
Kinds == [depth |-> "tile", fuel |-> "gauge", amps |-> "current", shore |-> "shore", bilge |-> "word", hatch |-> "ha"]
Shown == DOMAIN Kinds
Published == [depth |-> {Silent, Message(2, 3)}, fuel |-> {Message(1, 0), Message(NoValue, 0)},
              amps |-> {Silent, Message(-1, 0)}, shore |-> {Message(1, 0), Message(0, 0)},
              bilge |-> {Message(0, 1), Message(0, 3)}, hatch |-> {Message(0, 1), Message(1, 2)}]
StaleTimes == [depth |-> 1, fuel |-> 1, amps |-> 1, shore |-> 1]
OneEach == {{i} : i \in Shown}

-----------------------------------------------------------------------------
DeviceInit ==
  /\ part \in {"gauge", "tiles", "ui"}
  /\ Init /\ UiInit
  /\ TilesInit /\ (part # "tiles" => used = {"depth"})

DeviceNext ==
  \/ part = "gauge" /\ Next /\ UNCHANGED <<part, tilesVars, uiVars>>
  \/ part = "tiles" /\ TilesNext /\ UNCHANGED <<part, vars, uiVars>>
  \/ part = "ui" /\ UiNext /\ UNCHANGED <<part, vars, tilesVars>>

DeviceSpec ==
  /\ DeviceInit /\ [][DeviceNext]_deviceVars
  /\ part = "tiles" => []<>(pending = {})
  /\ WF_tilesVars(part = "tiles" /\ Elapse)

(* Properties: Agrees and NoChatter of Gauge, TouchTrue and AlarmsAndNight of DisplayUi, TilesTrue   *)
(* and StaleBlanks of DisplayTiles.                                                                    *)
=============================================================================
