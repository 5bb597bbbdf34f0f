------------------------------ MODULE ChatAnswer ------------------------------
(***************************************************************************)
(* How Boat Chat answers one question (boat-chat/app.py): what the         *)
(* question is about decides what is read; what was read may answer it by  *)
(* itself; if not, or when more than the figure is wanted, a model is      *)
(* asked with as much of the evidence as its prompt has room for, and the  *)
(* fallback model when that one fails.  The settings are a file that the   *)
(* Settings page may save at any time: each use reads it again.            *)
(*                                                                         *)
(* A question is the set of the things its words mention; what a reader    *)
(* found is data, nothing, or an error; sizes are counts.  Wording and     *)
(* units are left out.                                                     *)
(***************************************************************************)
EXTENDS Integers, FiniteSets, FiniteSetsExt, Sequences, Functions

CONSTANTS
  Questions,          \* sets of Words
  Settings,           \* what may be saved: [provider, fallback, chars]
  Summary, Samples,   \* sizes of a record: its summary and its rows
  Reserve, Marker,    \* room kept for the note that evidence was left out, and its size
  Wide, Complex,      \* max_chars of the APIs, and the least of a complex question elsewhere
  MaxChanges          \* bound

VARIABLES
  settings, saved,
  at,                 \* where the request is
  words, got,         \* the question; what was read for it, by section
  computed,           \* the deterministic answer, or None
  prompt,             \* what the last model was sent: [max, sent, asked, cut]
  answer              \* who gave the answer; a provider's name: its reply ended the request

answerVars == <<settings, saved, at, words, got, computed, prompt, answer>>

None == <<>>
Sections == {"engine_run_history", "fuel_usage", "fuel_economy", "shore_power_history", "solar_inference",
             "battery_voltage", "ha_telemetry", "influx_history", "ha_event_history", "fuel_balance",
             "current_telemetry", "ha_states", "local_docs", "outing_brief"}
Records == Sections \cup {"boat_facts", "query_plan", "computed_answer", "conversation", "interpreted_question", "prior_query_plan"}

\* A record has a size, and the note fits the room kept for it.
ASSUME AnswerAssumption ==
  /\ \A s \in Settings : s.chars \in Int
  /\ Records \subseteq DOMAIN Summary /\ \A key \in DOMAIN Summary : Summary[key] \in Nat
  /\ \A key \in DOMAIN Samples : Samples[key] \in Nat
  /\ Reserve \in Nat /\ Marker \in Nat /\ Marker <= Reserve /\ Wide \in Int /\ Complex \in Int

-----------------------------------------------------------------------------
(* classify_question.  "alarm" stands for the concepts that fuel balance,    *)
(* state history and events share (alarm, trip, ...), "figure" for any other *)
(* signal, "operation" for a plan that asks when, how often or how long.     *)

Telemetry(w) == w \cap {"figure", "alarm", "solar", "ais", "freshness", "battery", "shore"} # {}
Concepts(w) == w \cap {"alarm", "solar", "ais", "freshness", "shore"}
EngineRun(w) == w \cap {"first run", "last run"} # {}
FuelUsage(w) == "usage" \in w /\ w \cap {"balance", "economy"} = {}
NeedsWindow(w) == (FuelUsage(w) \/ "economy" \in w) /\ "period" \notin w
BatteryHistory(w) == {"battery", "history"} \subseteq w
GenericHistory(w) == Telemetry(w) /\ w \cap {"history", "operation"} # {}
BalanceComplex(w) == "balance" \in w /\ ((GenericHistory(w) /\ "complex" \in w) \/ "alarm" \in w)
ComplexHistory(w) == (GenericHistory(w) /\ "complex" \in w) \/ BalanceComplex(w)
GenericTelemetry(w) == Telemetry(w) \/ "overview" \in w
Outing(w) == {"brief", "outing"} \subseteq w
Wants(w) == w \cap {"why", "recommend"} # {}

-----------------------------------------------------------------------------
(* What collect_context reads.                                               *)

ReadsLive(w) ==      \* should_read_live_telemetry
  /\ GenericHistory(w) => w \cap {"now", "overview"} # {}
  /\ \/ ComplexHistory(w)
     \/ ~(w \cap {"identity", "balance", "economy", "shore"} # {} \/ EngineRun(w) \/ FuelUsage(w) \/ BatteryHistory(w))

ReadsStates(w) ==    \* ha_entity_ids_for_question
  /\ GenericHistory(w) => "now" \in w
  /\ w \cap {"identity", "economy"} = {} /\ ~EngineRun(w) /\ ~FuelUsage(w)
  /\ w \cap {"balance", "shore"} # {} \/ BatteryHistory(w) => ComplexHistory(w)

ReadsDocs(w) ==      \* should_search_docs
  \/ "hardware" \in w
  \/ /\ w \cap {"identity", "economy"} = {} /\ ~EngineRun(w) /\ ~FuelUsage(w)
     /\ "shore" \in w \/ BatteryHistory(w) => ComplexHistory(w)
     /\ "balance" \in w \/ GenericTelemetry(w) \/ GenericHistory(w) => Wants(w)

ReadsHa(w) ==        \* should_collect_ha_telemetry
  /\ GenericTelemetry(w) /\ "solar" \notin w
  /\ \/ ~GenericHistory(w) \/ ~ComplexHistory(w)
     \/ w \cap {"overview", "now", "freshness", "shore", "alarm"} # {}

Purpose(w) ==
  EngineRun(w) \/ FuelUsage(w) \/ BatteryHistory(w) \/ w \cap {"balance", "economy", "shore", "solar"} # {}

ReadsInflux(w) ==
  \/ "overview" \in w
  \/ GenericHistory(w) /\ "solar" \notin w /\ (ComplexHistory(w) \/ ~Purpose(w))

Reads(s, w) ==
  CASE s = "current_telemetry"   -> ReadsLive(w)
    [] s = "ha_states"           -> ReadsStates(w)
    [] s = "outing_brief"        -> Outing(w)
    [] s = "local_docs"          -> ReadsDocs(w)
    [] s = "engine_run_history"  -> EngineRun(w)
    [] s = "fuel_usage"          -> FuelUsage(w) /\ ~NeedsWindow(w)
    [] s = "fuel_economy"        -> "economy" \in w /\ ~NeedsWindow(w)
    [] s = "shore_power_history" -> "shore" \in w /\ "solar" \notin w
    [] s = "solar_inference"     -> "solar" \in w
    [] s = "battery_voltage"     -> BatteryHistory(w) /\ ~ComplexHistory(w)
    [] s = "ha_telemetry"        -> ReadsHa(w)
    [] s = "influx_history"      -> ReadsInflux(w)
    [] s = "ha_event_history"    -> /\ ComplexHistory(w) \/ "operation" \in w
                                    /\ "solar" \notin w /\ w \cap {"alarm", "shore"} # {}
    [] s = "fuel_balance"        -> "balance" \in w

\* What a reader may find: data, data too long for a prompt, nothing, or an error.  Signal K and the state of each entity keep
\* an error in their record; an entity or a bucket that cannot be read is one without data;
\* documents come from the index or else from the files; what else a reader raises is caught
\* beside its section.
LiveTelemetry == {"data", "error"}
HaStates == {"data", "error"}
OutingBrief == {"data"}
LocalDocs == {"data", "long"}
ShorePower == {"data", "error"}
SolarInference == {"data", "error"}
HaTelemetry == {"data", "error"}
EventHistory == {"data", "empty", "error"}
InfluxHistory == {"data", "empty", "error"}
RunningMinutes == {"data", "empty", "error"}

Reading(s) ==
  CASE s = "current_telemetry"   -> LiveTelemetry
    [] s = "ha_states"           -> HaStates
    [] s = "outing_brief"        -> OutingBrief
    [] s = "local_docs"          -> LocalDocs
    [] s = "shore_power_history" -> ShorePower
    [] s = "solar_inference"     -> SolarInference
    [] s = "ha_telemetry"        -> HaTelemetry
    [] s = "ha_event_history"    -> EventHistory
    [] s = "influx_history"      -> InfluxHistory
    [] OTHER                     -> RunningMinutes

Readings(w) ==
  LET read == {s \in Sections : Reads(s, w)} IN
  {g \in [read -> {"data", "long", "empty", "error"}] : \A s \in read : g[s] \in Reading(s)}

-----------------------------------------------------------------------------
(* The answer_from_... functions: what each says of what was read, or <<>>.  *)

Is(s, what) == s \in DOMAIN got /\ got[s] = what
Say(s, says) == <<[of |-> s, says |-> says]>>
When(guard, answers) == IF guard THEN answers ELSE None

\* A section that was read, found empty, or could not be read and says so.
Told(s) ==
  IF s \notin DOMAIN got THEN None
  ELSE Say(s, CASE got[s] = "data" -> "data" [] got[s] = "empty" -> "nothing" [] OTHER -> "unread")

\* One that says the same of an error as of nothing found.
FoundOrNot(s) == Say(s, IF Is(s, "data") THEN "data" ELSE "nothing")

ClarificationAnswer == When(NeedsWindow(words), Say("period", "which"))
AisAnswer ==
  When({"ais", "freshness"} \subseteq words /\ "current_telemetry" \in DOMAIN got, FoundOrNot("current_telemetry"))
FreshnessAnswer == When("freshness" \in words /\ "ais" \notin words, Told("ha_telemetry"))
FactsAnswer == When("identity" \in words, Say("facts", "data"))
BriefingAnswer == When("brief" \in words /\ ~Outing(words), Say("briefing", "data"))
HealthAnswer == When("boat ok" \in words /\ "balance" \notin words, Say("status", "data"))
EngineAnswer == When(EngineRun(words), FoundOrNot("engine_run_history"))
UsageAnswer == When(FuelUsage(words), Told("fuel_usage"))
EconomyAnswer == When("economy" \in words, Told("fuel_economy"))
HardwareAnswer == When("hardware" \in words, Say("hardware", "data"))
SolarAnswer == When("solar" \in words /\ "hardware" \notin words, Told("solar_inference"))
ShoreAnswer == When("shore" \in words /\ ~ComplexHistory(words), Told("shore_power_history"))
BatteryAnswer == When(BatteryHistory(words) /\ ~ComplexHistory(words), Told("battery_voltage"))
BalanceAnswer == When("balance" \in words /\ ~BalanceComplex(words), FoundOrNot("fuel_balance"))
OverviewAnswer == When("overview" \in words, Say("overview", "data"))
EventAnswer == When("operation" \in words /\ Is("ha_event_history", "data"), Say("ha_event_history", "data"))
HistoryAnswer ==
  When(GenericHistory(words) /\ "overview" \notin words /\ ~ComplexHistory(words), FoundOrNot("influx_history"))

\* generate_answer's order
Answers ==
  <<ClarificationAnswer, AisAnswer, FreshnessAnswer, FactsAnswer, BriefingAnswer, HealthAnswer, EngineAnswer,
    UsageAnswer, EconomyAnswer, HardwareAnswer, SolarAnswer, ShoreAnswer, BatteryAnswer, BalanceAnswer,
    OverviewAnswer, EventAnswer, HistoryAnswer>>

Deterministic ==
  LET given == SelectSeq(Answers, LAMBDA a : a # None) IN IF given = <<>> THEN None ELSE Head(given)

Rich == ComplexHistory(words) \/ words \cap {"mode", "complex", "interpreted", "why", "recommend"} # {}

-----------------------------------------------------------------------------
(* compact_context and serialize_context_with_budget                         *)

Evidence ==
  DOMAIN got \cup {"boat_facts", "query_plan"}
    \cup (IF computed # None THEN {"computed_answer"} ELSE {})
    \cup (IF "interpreted" \in words THEN {"conversation", "interpreted_question", "prior_query_plan"} ELSE {})

\* What goes into it shortened: each document's text to an excerpt, each turn of a conversation
\* to its first 4000 characters (sanitize_conversation_history; "long talk" is a question after
\* such a turn).  Summary is the size of what is left.
Excerpts ==
  (IF Is("local_docs", "long") THEN {"local_docs"} ELSE {})
    \cup (IF {"interpreted", "long talk"} \subseteq words THEN {"conversation"} ELSE {})

Supporting == <<"local_docs", "prior_query_plan", "boat_facts">>
Priority ==
  <<"computed_answer", "query_plan", "interpreted_question", "conversation", "outing_brief", "fuel_usage",
    "fuel_economy", "engine_run_history", "battery_voltage", "solar_inference", "shore_power_history",
    "ha_event_history", "influx_history", "ha_telemetry", "ha_states", "current_telemetry",
    "boat_facts", "fuel_balance", "prior_query_plan", "local_docs">>

SizeOf(whole) == [key \in DOMAIN Summary |-> Summary[key] + IF whole /\ key \in DOMAIN Samples THEN Samples[key] ELSE 0]
Size(keys, whole) == SumFunctionOnSet(SizeOf(whole), keys)

\* What supports an answer is left out first, one after the other until the rest has room.
Remaining(keys, max) ==
  LET kept[n \in 0 .. Len(Supporting)] ==
        IF n = 0 THEN keys
        ELSE IF Size(kept[n - 1], TRUE) <= max THEN kept[n - 1] ELSE kept[n - 1] \ {Supporting[n]}
  IN kept[Len(Supporting)]

\* Of that, whole records in their order, each if there is room for it.
Selected(keys, whole, order, max) ==
  LET taken[n \in 0 .. Len(order)] ==
        IF n = 0 THEN {}
        ELSE IF order[n] \in keys /\ Size(taken[n - 1] \cup {order[n]}, whole) <= max
             THEN taken[n - 1] \cup {order[n]} ELSE taken[n - 1]
  IN taken[Len(order)]

Fitted(keys, order, max) ==
  LET rest == Remaining(keys, max)
      whole == Size(rest, TRUE) <= max
  IN [keys |-> Selected(rest, whole, order, max), whole |-> whole, marked |-> TRUE]

ReversedPrompt(max) ==
  LET sent == IF Size(Evidence, TRUE) <= max THEN [keys |-> Evidence, whole |-> TRUE, marked |-> FALSE]
              ELSE Fitted(Evidence, [k \in 1 .. Len(Priority) |-> Priority[Len(Priority) + 1 - k]], max - Reserve)
  IN [max |-> max, sent |-> sent, asked |-> Evidence, cut |-> Excerpts]
Prompt(max) ==
  LET sent == IF Size(Evidence, TRUE) <= max THEN [keys |-> Evidence, whole |-> TRUE, marked |-> FALSE]
              ELSE Fitted(Evidence, Priority, max - Reserve)
  IN [max |-> max, sent |-> sent, asked |-> Evidence, cut |-> Excerpts]

\* context_char_budget for the command lines and Ollama; build_prompt's default for the others
Room(provider) ==
  IF provider \notin {"codex_cli", "claude_cli", "ollama"} THEN Wide
  ELSE IF ComplexHistory(words) \/ Outing(words) THEN Max({settings.chars, Complex}) ELSE settings.chars

-----------------------------------------------------------------------------
ChangeSettings ==
  /\ saved < MaxChanges /\ \E s \in Settings : settings' = s /\ saved' = saved + 1
  /\ UNCHANGED <<at, words, got, computed, prompt, answer>>

AskQuestion(w) ==
  /\ at = "idle" /\ at' = "reading" /\ words' = w
  /\ got' = None /\ computed' = None /\ prompt' = None /\ answer' = None
  /\ UNCHANGED <<settings, saved>>

CollectContext ==
  /\ at = "reading" /\ at' = "read"
  /\ got' \in Readings(words)
  /\ UNCHANGED <<settings, saved, words, computed, prompt, answer>>

ReplyBy(by) == at' = "idle" /\ answer' = by

\* generate_answer: an apology for the model gives way to the computed answer.
ModelReplied(by) == ReplyBy(IF by = "apology" /\ computed # None THEN "computed" ELSE by)

GenerateAnswer ==
  /\ at = "read"
  /\ computed' = Deterministic
  /\ IF computed' # None /\ (~Rich \/ computed'[1].says = "which") THEN ReplyBy("computed")
     ELSE at' = "primary" /\ UNCHANGED answer
  /\ UNCHANGED <<settings, saved, words, got, prompt>>

\* A provider's call: it fails before it has a prompt when a key is missing; a model that is sent
\* the prompt answers or fails; and an answer of a form nobody expected is caught with the failures
\* (ModelCallError) or, by the calls that read it after their try, ends the request with an
\* error 500.
Sent(provider) == prompt' = Prompt(Room(provider))
Called(failed) == ModelReplied("model") \/ failed
Odd(provider) == ReplyBy(provider)
Unset(failed) == UNCHANGED prompt /\ failed

CallCompatible(failed) == Unset(failed) \/ (Sent("openai_compatible") /\ Called(failed))
CallOpenai(failed) == Unset(failed) \/ (Sent("openai") /\ (Called(failed) \/ Odd("openai")))
CallBedrock(failed) == Unset(failed) \/ (Sent("bedrock") /\ (Called(failed) \/ Odd("bedrock")))
CallGoogle(failed) == Sent("google") /\ Called(failed)
CallOllama(failed) == Sent("ollama") /\ (Called(failed) \/ Odd("ollama"))
CallCodex(failed) == Sent("codex_cli") /\ Called(failed)
CallClaude(failed) == Sent("claude_cli") /\ Called(failed)

\* "local" is no model.
CallProvider(provider, failed) ==
  CASE provider = "local"      -> ModelReplied("apology") /\ UNCHANGED prompt
    [] provider = "openai"     -> CallOpenai(failed)
    [] provider \in {"vercel", "openai_compatible"} -> CallCompatible(failed)
    [] provider = "bedrock"    -> CallBedrock(failed)
    [] provider = "google"     -> CallGoogle(failed)
    [] provider = "ollama"     -> CallOllama(failed)
    [] provider = "codex_cli"  -> CallCodex(failed)
    [] provider = "claude_cli" -> CallClaude(failed)
    [] OTHER                   -> Unset(failed)

CallPrimary ==
  /\ at = "primary"
  /\ CallProvider(settings.provider, at' = "fallback" /\ UNCHANGED answer)
  /\ UNCHANGED <<settings, saved, words, got, computed>>

CallFallback ==
  /\ at = "fallback"
  /\ IF settings.fallback = "" THEN ModelReplied("apology") /\ UNCHANGED prompt
     ELSE CallProvider(settings.fallback, ModelReplied("apology"))
  /\ UNCHANGED <<settings, saved, words, got, computed>>

AnswerInit ==
  /\ settings \in Settings /\ saved = 0 /\ at = "idle"
  /\ words = {} /\ got = None /\ computed = None /\ prompt = None /\ answer = None

AnswerNext ==
  \/ ChangeSettings \/ \E w \in Questions : AskQuestion(w)
  \/ CollectContext \/ GenerateAnswer \/ CallPrimary \/ CallFallback

AnswerSpec == AnswerInit /\ [][AnswerNext]_answerVars

-----------------------------------------------------------------------------
(* An answer computed from the boat's records is not lost on the way: it is  *)
(* the answer when the models fail in a way their calls expect, and a model  *)
(* that answers instead was given it, unless it is longer by itself than     *)
(* the room there is.  The exception: a reply of a form nobody expected, of  *)
(* one of the three providers whose calls read it outside their try, ends    *)
(* the request, and the computed answer is lost with it.                     *)
ReadOutside == {"openai", "bedrock", "ollama"}
ComputedStands ==
  at = "idle" /\ computed # None =>
    \/ answer \in {"computed"} \cup ReadOutside
    \/ /\ answer = "model"
       /\ "computed_answer" \in prompt.sent.keys \/ Summary["computed_answer"] > prompt.max - Reserve

(* A prompt is no longer than the room there is, if the note has room, and   *)
(* when it leaves out a record that was gathered, or the rows of one, it     *)
(* says so.  The exceptions: the text of a document and a turn of the        *)
(* conversation are cut to an excerpt, and no note says that.                *)
CutUnsaid == {"local_docs", "conversation"}
PromptHonest ==
  prompt # None =>
    LET sent == prompt.sent IN
    /\ Size(sent.keys, sent.whole) + (IF sent.marked THEN Marker ELSE 0) <= prompt.max \/ prompt.max < Marker
    /\ ~sent.marked => sent.keys = prompt.asked /\ sent.whole /\ prompt.cut \subseteq CutUnsaid

\* A computed answer is not lost to a model that was not given it, nor to a failure but the exception
\* above; and a prompt fits, and says what it leaves out but the ends of its excerpts.
AnswersHonest == ComputedStands /\ PromptHonest
===============================================================================
