----------------------------- MODULE MCFreshness -----------------------------
(* Instances of Freshness for TLC: a board of instruments, and one of the  *)
(* other sources. *)
EXTENDS Freshness, TLC

CONSTANTS depth, speed, anchor, tank

NoThresholds == [bound \in {} |-> 0]
MCThresholds ==
  depth :> [alarm_below |-> 1, warn_above |-> 3, hysteresis |-> 1]
    @@ speed :> NoThresholds @@ tank :> [alarm_below |-> 1]

SilenceIsOk      == anchor :> "ok"
SilenceIsUnknown == anchor :> "unknown"

TankStates == {[kind |-> "gone"]} \cup [kind : {"number"}, raw : {0, 10, 20}]
DoorStates == {[kind |-> "gone"], [kind |-> "state", index |-> 0, sev |-> "ok"],
               [kind |-> "state", index |-> 1, sev |-> "warn"]}
=============================================================================
