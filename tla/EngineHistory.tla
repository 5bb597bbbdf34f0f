---------------------------- MODULE EngineHistory -----------------------------
(***************************************************************************)
(* What Boat Chat says of a window of engine history: runs, fuel used,     *)
(* fuel economy and the balance of the two engines (boat-chat/app.py), and *)
(* the economy of each band of speeds (cruise_efficiency.py).  Influx      *)
(* gives one row a minute, of what was measured in it.  The summaries are  *)
(* computed by separate queries and loops over the same minutes, and an    *)
(* answer may quote several of them.                                       *)
(*                                                                         *)
(* Units and rounding are left out: fuel is counted as the rates say and   *)
(* distance as the speeds.                                                 *)
(***************************************************************************)
EXTENDS Integers, Sequences, FiniteSets, FiniteSetsExt, Functions

CONSTANTS
  Rows,       \* what a minute may have measured: [port, starboard, portFuel, starboardFuel, speed]
  Unmeasured, \* not measured, or not a number
  Threshold,  \* ENGINE_RUNNING_RPM
  Bands,      \* rpm bands of a question: [low, high]
  CruiseRpm, Apart,             \* speed_bands: 600 rpm, and no more than 150 apart
  SlowBand, FastBand, BandStep, \* speed_bands: minimum, maximum and step
  MaxMinutes  \* bound

ASSUME EnginesAssumption ==
  /\ LET measured == Int \cup {Unmeasured} IN
     Rows \subseteq [port : measured, starboard : measured, portFuel : measured, starboardFuel : measured, speed : measured]
  /\ Threshold \in Nat \ {0}
  /\ SlowBand \in Nat /\ FastBand \in Nat /\ SlowBand < FastBand /\ BandStep \in Nat \ {0}

VARIABLE rows
enginesVars == <<rows>>

Minutes == 1 .. Len(rows)
Or0(v) == IF v = Unmeasured THEN 0 ELSE v

-----------------------------------------------------------------------------
(* The minutes each summary counts.                                          *)

\* fuel_usage_summary, fuel_economy_summary and fuel_balance_summary: a missing speed counts as 0
RunningMutant(r) == Or0(r.port) > Threshold \/ Or0(r.starboard) > Threshold
Running(r) == Or0(r.port) >= Threshold \/ Or0(r.starboard) >= Threshold
Used == {m \in Minutes : Running(rows[m])}

\* engine_run_history_summary, engine_running_history_rows: of the rows measured, those fast enough
Revs(m) == {rows[m].port, rows[m].starboard} \ {Unmeasured}
Runs == {m \in Minutes : \E rpm \in Revs(m) : rpm >= Threshold}
FirstRun == IF Runs = {} THEN Unmeasured ELSE Min(Runs)
LastRun == IF Runs = {} THEN Unmeasured ELSE Max(Runs)

\* matched_sample
Matched(r) ==
  /\ \A v \in {r.port, r.starboard, r.portFuel, r.starboardFuel, r.speed} : v # Unmeasured /\ v >= 0
  /\ r.port >= Threshold \/ r.starboard >= Threshold

\* fuel_economy_summary's filters
BothRunning(r) == \A v \in {r.port, r.starboard} : v # Unmeasured /\ v >= Threshold
In(v, band) == v # Unmeasured /\ band.low <= v /\ v <= band.high
InBand(r, band, both) ==
  IF both THEN In(r.port, band) /\ In(r.starboard, band) ELSE In(r.port, band) \/ In(r.starboard, band)

Wanted(m, band, both) ==
  /\ both => BothRunning(rows[m])
  /\ band # Unmeasured => InBand(rows[m], band, both)
  /\ Running(rows[m])

Economy(band, both) ==
  LET minutes == {m \in Minutes : Wanted(m, band, both)}
      matched == {m \in minutes : Matched(rows[m])}
  IN [minutes |-> minutes, matched |-> matched,
      fuel |-> SumFunction([m \in matched |-> rows[m].portFuel + rows[m].starboardFuel]),
      distance |-> SumFunction([m \in matched |-> rows[m].speed])]

\* fuel_usage_summary: each engine's own samples
PortUsed == SumFunction([m \in Used |-> Or0(rows[m].portFuel)])
StarboardUsed == SumFunction([m \in Used |-> Or0(rows[m].starboardFuel)])

\* fuel_balance_summary: minutes with both rates; the difference of the averages over them
Balanced == {m \in Used : rows[m].portFuel # Unmeasured /\ rows[m].starboardFuel # Unmeasured}
Balance == SumFunction([m \in Balanced |-> rows[m].starboardFuel - rows[m].portFuel])

\* speed_bands: the bands are SlowBand + i * BandStep up to FastBand
Count == (FastBand - SlowBand + BandStep - 1) \div BandStep
Cruising(r) ==
  /\ Matched(r) /\ r.port >= CruiseRpm /\ r.starboard >= CruiseRpm
  /\ r.port - r.starboard <= Apart /\ r.starboard - r.port <= Apart
  /\ SlowBand <= r.speed /\ r.speed <= FastBand /\ r.portFuel + r.starboardFuel > 0
BandOf(r) == Min({(r.speed - SlowBand) \div BandStep, Count - 1})
Group(i) == {m \in Minutes : Cruising(rows[m]) /\ BandOf(rows[m]) = i}

-----------------------------------------------------------------------------
EnginesInit == rows = <<>>
Minute == \E r \in Rows : Len(rows) < MaxMinutes /\ rows' = Append(rows, r)
EnginesNext == Minute
EnginesSpec == EnginesInit /\ [][EnginesNext]_enginesVars

-----------------------------------------------------------------------------
(* The summaries of one window do not contradict each other: they run over   *)
(* the same minutes; the economy's fuel and what was used in the minutes it  *)
(* leaves out are the fuel used; a narrower question counts no more than a   *)
(* wider one; and what the engines used differs by their balance where both  *)
(* were measured.                                                            *)
SummariesAgree ==
  LET all == Economy(Unmeasured, FALSE)
      paired == Economy(Unmeasured, TRUE)
      left == SumFunction([m \in Used \ all.matched |-> Or0(rows[m].portFuel) + Or0(rows[m].starboardFuel)])
  IN /\ all.minutes = Used /\ Runs = Used
     /\ all.fuel + left = PortUsed + StarboardUsed
     /\ all.matched \subseteq Balanced
     /\ Balanced = Used => Balance = StarboardUsed - PortUsed
     /\ \A band \in Bands :
          LET either == Economy(band, FALSE)  both == Economy(band, TRUE) IN
          /\ both.minutes \subseteq either.minutes
          /\ either.matched \subseteq all.matched
          /\ both.fuel <= either.fuel
          /\ both.minutes \subseteq paired.minutes

\* Every cruising minute is in one band, and in that one's limits: the last includes its end.
BandsHold ==
  /\ {m \in Minutes : Cruising(rows[m])} = UNION {Group(i) : i \in 0 .. Count - 1}
  /\ \A i \in 0 .. Count - 1 : \A m \in Group(i) :
       LET low == SlowBand + i * BandStep  high == Min({FastBand, low + BandStep}) IN
       low <= rows[m].speed /\ rows[m].speed <= high /\ (rows[m].speed = high => i = Count - 1)

\* The summaries of one window agree with each other, and a minute is in the speed band it belongs to.
SummariesTrue == SummariesAgree /\ BandsHold
=============================================================================
