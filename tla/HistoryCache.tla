----------------------------- MODULE HistoryCache -----------------------------
(***************************************************************************)
(* Summaries of the boat's history and their cache: the windows of time a  *)
(* question names (boat-chat/app.py), the table they are kept in           *)
(* (telemetry_cache.py) and the indexer's run that refreshes the usual     *)
(* ones and prunes the rest (telemetry_indexer.py, mode "history").        *)
(*                                                                         *)
(* A tick is five minutes; the days and months of a model are a few ticks  *)
(* and days long.  What a summary says of its window is left out (see      *)
(* EngineHistory): an entry is the window it was computed over.  Influx    *)
(* answers within MaxWork ticks or not at all, and never on an empty       *)
(* range.                                                                  *)
(***************************************************************************)
EXTENDS Integers, Sequences

CONSTANTS
  Day,        \* ticks
  Month,      \* days
  FirstDay,   \* the weekday at tick 0: Monday is 0
  Fresh,      \* TELEMETRY_CACHE_FRESH_SECONDS
  Static,     \* TELEMETRY_CACHE_STATIC_SECONDS
  Margin,     \* a window is closed when it ended longer ago than this
  MaxWork,    \* Influx's time out
  Horizon,    \* bound: ticks
  Asked,      \* sets of questions a behaviour is about
  Indexed     \* fuel_window_messages: the questions the indexer prepares, in order

\* Questions by the window they name; those of the last three are computed from a rolling one.
IsRolling(kind) == kind \in {"last day", "first run", "battery"}
Kinds == {"today", "yesterday", "this week", "this month", "last month", "weekend", "last weekend",
          "last day", "first run", "battery"}

ASSUME CacheAssumption ==
  /\ Day \in Nat /\ Day > 1 /\ Month \in Nat \ {0} /\ FirstDay \in 0 .. 6
  /\ Fresh \in Nat /\ Static \in Nat /\ Margin \in Nat /\ MaxWork \in Nat
  /\ Asked \subseteq SUBSET Kinds /\ \A n \in DOMAIN Indexed : Indexed[n] \in Kinds

VARIABLES
  topics,     \* the questions of this behaviour
  now,
  cache,      \* telemetry_summaries: entries [key, start, stop, updated]
  question,   \* a question Influx is asked about: [window, since], or NoWork
  job         \* the indexer's run: [todo, keys, window, since], or NoWork

cacheVars == <<topics, now, cache, question, job>>
NoWork == <<>>

-----------------------------------------------------------------------------
(* resolve_fuel_usage_window: the window of a question at a time, and its    *)
(* key.  engine_run, battery, shore power and economy keys name the length   *)
(* of a rolling window too.                                                  *)

Midnight(t) == t - (t % Day)
Weekday(t) == (t \div Day + FirstDay) % 7
ThisWeek(t) == Midnight(t) - Weekday(t) * Day
ThisMonth(t) == t - (t % (Month * Day))

Saturday(t, last) ==
  Midnight(t) - (((Weekday(t) + 2) % 7) + IF last /\ Weekday(t) >= 5 THEN 7 ELSE 0) * Day
WeekendStop(t, last) ==
  IF Weekday(t) < 5 \/ last THEN Saturday(t, last) + 2 * Day ELSE t
SoFar == -1
StopKey(stop) == IF stop % Day = 0 THEN stop ELSE SoFar

Span(start, stop, name, a, b) == [start |-> start, stop |-> stop, key |-> <<name, a, b>>]
Rolling(t, n, name) == Span(t - n, t, name, n, 0)

Today(t) == Span(Midnight(t), t, "today", Midnight(t), 0)

WeekendMutant(t, last) == Span(Saturday(t, last), WeekendStop(t, last), "weekend", Saturday(t, last), 0)
Weekend(t, last) ==
  Span(Saturday(t, last), WeekendStop(t, last), "weekend", Saturday(t, last), StopKey(WeekendStop(t, last)))

Window(kind, t) ==
  CASE kind = "today"        -> Today(t)
    [] kind = "yesterday"    -> Span(Midnight(t) - Day, Midnight(t), "yesterday", Midnight(t) - Day, 0)
    [] kind = "this week"    -> Span(ThisWeek(t), t, "this_week", ThisWeek(t), 0)
    [] kind = "this month"   -> Span(ThisMonth(t), t, "this_month", ThisMonth(t), 0)
    [] kind = "last month"   -> Span(ThisMonth(t) - Month * Day, ThisMonth(t), "last_month",
                                     ThisMonth(t) - Month * Day, 0)
    [] kind = "weekend"      -> Weekend(t, FALSE)
    [] kind = "last weekend" -> Weekend(t, TRUE)
    [] kind = "last day"     -> Rolling(t, Day, "rolling")
    [] kind = "first run"    -> Rolling(t, Month * Day, "first")
    [] kind = "battery"      -> Rolling(t, 2 * Day, "battery")

-----------------------------------------------------------------------------
(* telemetry_cache                                                           *)

Put(window) == {e \in cache : e.key # window.key}
                 \cup {[key |-> window.key, start |-> window.start, stop |-> window.stop, updated |-> now]}

\* A closed window's fuel and the first run may be a day old.
Closed(window) == window.stop < now - Margin
MaxAge(kind, window) == IF kind = "first run" \/ (kind # "battery" /\ Closed(window)) THEN Static ELSE Fresh

Hits(kind, window) == {e \in cache : e.key = window.key /\ now - e.updated <= MaxAge(kind, window)}

-----------------------------------------------------------------------------
(* A question is asked of the chat, which has no fresh answer to it; others  *)
(* wait for their turn.                                                      *)

Ask(kind) ==
  LET window == Window(kind, now) IN
  /\ question = NoWork
  /\ Hits(kind, window) = {}
  /\ question' = [window |-> window, since |-> now]
  /\ UNCHANGED <<topics, now, cache, job>>

\* The summary is computed over the window and kept.
Summarized ==
  /\ question # NoWork /\ question.window.start < question.window.stop
  /\ cache' = Put(question.window) /\ question' = NoWork
  /\ UNCHANGED <<topics, now, job>>

NotSummarized == question # NoWork /\ question' = NoWork /\ UNCHANGED <<topics, now, cache, job>>

-----------------------------------------------------------------------------
(* refresh_all, under the lock of its mode                                   *)

IndexerStarts ==
  /\ job = NoWork
  /\ job' = [todo |-> {n \in DOMAIN Indexed : Indexed[n] \in topics}, keys |-> {}, window |-> NoWork, since |-> now]
  /\ UNCHANGED <<topics, now, cache, question>>

IsNextItem(n) == n \in job.todo /\ \A m \in job.todo : n <= m

\* Two names of one window are refreshed once.
Resolve(n) ==
  /\ job # NoWork /\ job.window = NoWork /\ IsNextItem(n)
  /\ LET window == Window(Indexed[n], now) IN
       job' = [job EXCEPT !.keys = @ \cup {window.key}, !.since = now,
                          !.window = IF window.key \in job.keys THEN NoWork ELSE window,
                          !.todo = IF window.key \in job.keys THEN @ \ {n} ELSE @]
  /\ UNCHANGED <<topics, now, cache, question>>

\* refresh_item: what goes wrong is reported, and the next item follows
RefreshItem(n) ==
  /\ job # NoWork /\ job.window # NoWork /\ IsNextItem(n)
  /\ \/ job.window.start < job.window.stop /\ cache' = Put(job.window)
     \/ UNCHANGED cache
  /\ job' = [job EXCEPT !.window = NoWork, !.todo = @ \ {n}]
  /\ UNCHANGED <<topics, now, question>>

Prune ==
  /\ job # NoWork /\ job.window = NoWork /\ job.todo = {}
  /\ cache' = {e \in cache : e.key \in job.keys} /\ job' = NoWork
  /\ UNCHANGED <<topics, now, question>>

\* systemd's TimeoutStartSec, or a shutdown
IndexerKilled == job # NoWork /\ job' = NoWork /\ UNCHANGED <<topics, now, cache, question>>

\* An entry older than Static is as good as none.
Tick ==
  /\ now < Horizon
  /\ question # NoWork => now - question.since < MaxWork
  /\ job # NoWork => now - job.since < MaxWork
  /\ now' = now + 1 /\ cache' = {e \in cache : now + 1 - e.updated <= Static}
  /\ UNCHANGED <<topics, question, job>>

CacheInit ==
  /\ topics \in Asked /\ now = 0 /\ cache = {}
  /\ question = NoWork /\ job = NoWork

CacheNext ==
  \/ \E kind \in topics : Ask(kind)
  \/ Summarized \/ NotSummarized
  \/ IndexerStarts \/ Prune \/ IndexerKilled
  \/ \E n \in DOMAIN Indexed : Resolve(n) \/ RefreshItem(n)
  \/ Tick

CacheSpec == CacheInit /\ [][CacheNext]_cacheVars

-----------------------------------------------------------------------------
(* A cached answer is about the window that was asked for: it begins when    *)
(* that begins and, once the window is over, ends when it ended; a window    *)
(* that is still open, or rolling, may be seen as it was when the entry was  *)
(* still fresh.                                                              *)
Drift(kind) == MaxWork + IF kind = "first run" THEN Static ELSE Fresh

AnswerTrue ==
  \A kind \in topics :
    LET asked == Window(kind, now) IN
    \A served \in Hits(kind, asked) :
      /\ served.start <= asked.start /\ served.stop <= asked.stop
      /\ asked.start - served.start <= IF IsRolling(kind) THEN Drift(kind) ELSE 0
      /\ asked.stop - served.stop <= IF asked.stop < now - Drift(kind) THEN 0 ELSE Drift(kind)
=============================================================================
