--------------------------- MODULE RetainedChannel ---------------------------
(***************************************************************************)
(* What the bridge's MQTT publisher promises a display about one retained  *)
(* topic, whatever threads, queues and reconnections lie in between: the   *)
(* retained value is one the bridge has really published, and it is never  *)
(* replaced by an older one.  Publications are numbered 1, 2, ... per      *)
(* topic; 0 is a topic without a retained message.                         *)
(***************************************************************************)
EXTENDS Naturals

CONSTANT Topics          \* retained topics with a single publishing thread

VARIABLES latest,        \* latest[t]: number of the last publication of t
          shown          \* shown[t]: number of the publication the broker retains

chanVars == <<latest, shown>>

ChanInit == /\ latest \in [Topics -> {0}]
            /\ shown \in [Topics -> {0}]

\* The bridge publishes a new value of t.
ChanPublish(t) == /\ latest' = [latest EXCEPT ![t] = @ + 1]
                  /\ UNCHANGED shown

\* The broker's retained value of t advances; values in between may be skipped.
ChanShow(t) == /\ \E n \in shown[t] .. latest[t] : shown' = [shown EXCEPT ![t] = n]
               /\ UNCHANGED latest

\* The broker restarts without its persistence database.
ChanForget == /\ shown' = [t \in Topics |-> 0]
              /\ UNCHANGED latest

ChanNext == \/ \E t \in Topics : ChanPublish(t) \/ ChanShow(t)
            \/ ChanForget

ChanSpec == ChanInit /\ [][ChanNext]_chanVars
=============================================================================
