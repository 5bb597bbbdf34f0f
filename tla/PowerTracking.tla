---------------------------- MODULE PowerTracking -----------------------------
(***************************************************************************)
(* Boat Chat's solar bookkeeping: the five-minute sample and the history   *)
(* run (telemetry_indexer.py, refresh_latest_context) each put one         *)
(* observation of the batteries into a table, and keep the energy of the   *)
(* last days as rolling summaries (telemetry_cache.py,                     *)
(* power_tracking_summary).  Each has a lock of its own; both write the    *)
(* same tables.                                                            *)
(*                                                                         *)
(* Energy is counted in units of 1/(2 * Scale): a sign change inside an    *)
(* interval divides it by the span of its powers.                          *)
(***************************************************************************)
EXTENDS Integers, Sequences, FiniteSets, FiniteSetsExt, Functions

CONSTANTS
  Cases,      \* bound: [jobs, inputs, days]: jobs, what Signal K and Home Assistant may say to them
              \* ([shore, underway, distance, radius, rpms, power]) and rolling windows kept, in order
  NoReading,  \* a reading that is missing or not a finite number
  EngineRpm,  \* engine_rpm
  MaxGap,     \* POWER_MAX_GAP_SECONDS
  Windows,    \* lengths a summary may have
  Keep,       \* keep_days
  TimeLimit,  \* a job is killed after this
  Scale,      \* a multiple of every span of two powers
  LastSample  \* bound: ticks

VARIABLES
  case,       \* of Cases
  clock,
  obs,        \* power_observations, by observed_at
  rolling,    \* when the cached summary of a window was computed
  latest,     \* when the latest context was read
  sampler     \* sampler["sample"], sampler["history"]: what each job is doing

powerVars == <<case, clock, obs, rolling, latest, sampler>>

Jobs == {"sample", "history"}
NoInput == <<>>

Larger(a, b) == IF a > b THEN a ELSE b
Smaller(a, b) == IF a < b THEN a ELSE b
Inputs == UNION {c.inputs : c \in Cases}

\* The unit of energy is so small that where the power changes its sign nothing is rounded.
ASSUME PowerAssumption ==
  /\ TimeLimit \in Nat /\ MaxGap \in Nat /\ Windows \subseteq Nat /\ Scale \in Nat \ {0}
  /\ \A c \in Cases : c.jobs \subseteq Jobs /\ c.days \in Seq(Windows)
  /\ \A o \in Inputs : o.power = NoReading \/ o.power \in Int
  /\ \A o, w \in Inputs :
       o.power # NoReading /\ w.power # NoReading /\ o.power > 0 /\ w.power < 0 => Scale % (o.power - w.power) = 0

NotRunning == [at |-> "idle", read |-> 0, input |-> NoInput, left |-> <<>>, of |-> 0]

-----------------------------------------------------------------------------
(* classify_power_observation: the energy counts while the boat is away from *)
(* its dock or not charging there, and both engines are known to be off.     *)

OffShore(o) ==
  \/ o.underway = "on" \/ o.shore = "off"
  \/ o.distance # NoReading /\ o.radius # NoReading /\ o.radius > 0 /\ o.distance > o.radius

Counts(o) ==
  /\ OffShore(o)
  /\ \A rpm \in o.rpms : rpm # NoReading /\ rpm < EngineRpm
  /\ o.power # NoReading

-----------------------------------------------------------------------------
(* power_tracking_summary of the "days" before end                           *)

RowsOf(table, start, end) == {t \in DOMAIN table : start - MaxGap <= t /\ t <= end}
After(times, t) == {u \in times : u > t}
Pairs(times) == {<<t, Min(After(times, t))>> : t \in {u \in times : After(times, u) # {}}}

Clip(pair, start, end) == Smaller(pair[2], end) - Larger(pair[1], start)
Valid(table, pair) ==
  pair[2] - pair[1] <= MaxGap /\ Counts(table[pair[1]]) /\ Counts(table[pair[2]])

\* The energy of one sign: a triangle that ends where the power changes sign, else a trapezoid.
FlipMutant(p, q, sign, seconds) == (Larger(sign * p, 0) + Larger(sign * q, 0)) * seconds * Scale
Energy(p, q, sign, seconds) ==
  IF p * q < 0
    THEN LET peak == Larger(sign * p, sign * q) IN (peak * peak * seconds * Scale) \div (Larger(p, -p) + Larger(q, -q))
    ELSE (Larger(sign * p, 0) + Larger(sign * q, 0)) * seconds * Scale

Counted(table, start, end) ==
  {pair \in Pairs(RowsOf(table, start, end)) : Clip(pair, start, end) > 0 /\ Valid(table, pair)}

EnergyOf(table, start, end, sign) ==
  SumFunction([pair \in Counted(table, start, end) |->
                 Energy(table[pair[1]].power, table[pair[2]].power, sign, Clip(pair, start, end))])
Net(table, start, end) ==
  SumFunction([pair \in Counted(table, start, end) |->
                 (table[pair[1]].power + table[pair[2]].power) * Clip(pair, start, end) * Scale])
Covered(table, start, end) == SumFunction([pair \in Counted(table, start, end) |-> Clip(pair, start, end)])

-----------------------------------------------------------------------------
(* The jobs: refresh_latest_context and refresh_solar_inference.             *)

StartSample(m, input) ==
  /\ sampler[m].at = "idle"
  /\ sampler' = [sampler EXCEPT ![m] = [at |-> "read", read |-> clock, input |-> input, left |-> <<>>, of |-> 0]]
  /\ UNCHANGED <<case, clock, obs, rolling, latest>>

\* Observations of one second are one row; the old ones go.
Observe(m) ==
  /\ sampler[m].at = "read"
  /\ obs' = [t \in {u \in DOMAIN obs \cup {clock} : u >= clock - Keep} |-> IF t = clock THEN sampler[m].input ELSE obs[t]]
  /\ sampler' = [sampler EXCEPT ![m] = [@ EXCEPT !.at = "rolling", !.input = NoInput, !.left = case.days]]
  /\ UNCHANGED <<case, clock, rolling, latest>>

Summarize(m) ==
  /\ sampler[m].at = "rolling" /\ sampler[m].left # <<>>
  /\ sampler' = [sampler EXCEPT ![m] = [@ EXCEPT !.at = "computed", !.of = clock]]
  /\ UNCHANGED <<case, clock, obs, rolling, latest>>

PutRolling(m) ==
  /\ sampler[m].at = "computed"
  /\ rolling' = [rolling EXCEPT ![Head(sampler[m].left)] = sampler[m].of]
  /\ sampler' = [sampler EXCEPT ![m] = [@ EXCEPT !.at = "rolling", !.of = 0, !.left = Tail(sampler[m].left)]]
  /\ UNCHANGED <<case, clock, obs, latest>>

PutLatest(m) ==
  /\ sampler[m].at = "rolling" /\ sampler[m].left = <<>>
  /\ latest' = sampler[m].read
  /\ sampler' = [sampler EXCEPT ![m] = NotRunning]
  /\ UNCHANGED <<case, clock, obs, rolling>>

\* An exception, systemd's TimeoutStartSec or a shutdown.
SampleEnds(m) ==
  /\ sampler[m].at # "idle"
  /\ sampler' = [sampler EXCEPT ![m] = NotRunning]
  /\ UNCHANGED <<case, clock, obs, rolling, latest>>

\* A job that takes longer than its time limit is killed.
InTimeMutant(m) == sampler[m].at = "read" => clock - sampler[m].read < TimeLimit
InTime(m) == sampler[m].at # "idle" => clock - sampler[m].read < TimeLimit

SampleTick ==
  /\ clock < LastSample
  /\ \A m \in Jobs : InTime(m)
  /\ clock' = clock + 1 /\ UNCHANGED <<case, obs, rolling, latest, sampler>>

PowerInit ==
  /\ case \in Cases
  /\ clock = 0 /\ obs = <<>> /\ latest = 0
  /\ rolling = [d \in Windows |-> 0]
  /\ sampler = [m \in Jobs |-> NotRunning]

JobStep(m) == (\E input \in case.inputs : StartSample(m, input)) \/ Observe(m) \/ Summarize(m) \/ PutRolling(m)
              \/ PutLatest(m) \/ SampleEnds(m)
PowerNext == SampleTick \/ \E m \in case.jobs : JobStep(m)
PowerSpec == PowerInit /\ [][PowerNext]_powerVars

-----------------------------------------------------------------------------
(* Properties.                                                               *)

\* The area under the line from p to q that has this sign, cut in Scale pieces.
Line(p, q, j) == p * (Scale - j) + q * j
Area(p, q, sign) ==
  SumFunction([j \in 0 .. Scale - 1 |-> Larger(sign * Line(p, q, j), 0) + Larger(sign * Line(p, q, j + 1), 0)])

\* The seconds of a window that lie between two observations of the whole table, no more than
\* MaxGap apart, both of which count.
Between(table, s) ==
  \E u, v \in DOMAIN table : /\ u <= s /\ s < v /\ \A t \in DOMAIN table : ~(u < t /\ t < v)
                             /\ v - u <= MaxGap /\ Counts(table[u]) /\ Counts(table[v])

\* What a rolling summary says: it covers the seconds that can be trusted and no others, none
\* twice; charge and discharge are the areas under the line through the observations, also where
\* the power changes its sign; and the net energy is their difference.
EnergyTrue ==
  \A d \in Windows :
    LET start == clock - d IN
    /\ Covered(obs, start, clock) = Cardinality({s \in start .. clock - 1 : Between(obs, s)})
    /\ \A pair \in Counted(obs, start, clock) : \A sign \in {1, -1} :
         LET p == obs[pair[1]].power  q == obs[pair[2]].power IN
         Energy(p, q, sign, Clip(pair, start, clock)) * Scale = Area(p, q, sign) * Clip(pair, start, clock)
    /\ Net(obs, start, clock) = EnergyOf(obs, start, clock, 1) - EnergyOf(obs, start, clock, -1)

\* The two jobs write over each other, and every observation and every second leaves the energy of
\* each window true; a rolling summary or a context never gives way to one that is older by more than
\* the jobs' time limit.
PowerTrue ==
  [][/\ obs' # obs \/ clock' # clock => EnergyTrue'
     /\ latest' >= latest - TimeLimit
     /\ \A d \in Windows : rolling'[d] >= rolling[d] - TimeLimit]_powerVars
=============================================================================
