------------------------------ MODULE MCBoatChat ------------------------------
(***************************************************************************)
(* Boat Chat for TLC.  The parts of it that share no state are checked in  *)
(* one run: "part" says which of them a behaviour is about, the others     *)
(* rest in an initial state, and no step changes "part".                   *)
(***************************************************************************)
EXTENDS TelegramBot, ChatSettings, ChatDeploy, HistoryCache, PowerTracking, ChatAnswer, MemoryIndex, EngineHistory, TLC

CONSTANTS skipper, guest

VARIABLE part
chatVars == <<part, vars, cacheVars, powerVars, enginesVars, answerVars, memoryVars, settingsVars, deployVars>>

-----------------------------------------------------------------------------
(* The Telegram bot and the server it asks: a command of one chat, and of    *)
(* the other a question, /clear and two more; one kill or failed reply.  Two *)
(* exchanges are kept: a batch that is sent again may make it three.         *)

BotUpdates ==
  LET by(chat, kind) == [chat |-> chat, kind |-> kind] IN
  <<by(guest, "help"), by(skipper, "question"), by(skipper, "clear"), by(skipper, "question"), by(skipper, "question")>>

(* Cached windows: days of four ticks, months of two days that begin on a    *)
(* Friday, so that a weekend, a week and three months are passed.            *)
AskedTopics ==
  {{"today"}, {"yesterday"}, {"this week"}, {"last day"}, {"this month"}, {"last month"},
   {"weekend", "last weekend"}, {"first run"}, {"battery"}}
IndexedTopics == <<"today", "yesterday", "weekend", "last day", "this week", "battery", "first run">>

(* Observations away from the dock, at it, under way, and with an engine on. *)
Away == [shore |-> "off", underway |-> "unknown", distance |-> Missing, radius |-> Missing,
         rpms |-> {0}, power |-> 2]
Drawing == [Away EXCEPT !.power = -1]
Docked  == [Away EXCEPT !.shore = "unknown", !.distance = 30, !.radius = 40]
Moving  == [Away EXCEPT !.shore = "on", !.distance = 50, !.radius = 40]
Engine  == [Away EXCEPT !.rpms = {0, 600}]
PowerCases ==
  {[jobs |-> {"sample"}, inputs |-> {Moving, Drawing}, days |-> <<>>],
   [jobs |-> {"sample"}, inputs |-> {Drawing, Engine}, days |-> <<>>],
   [jobs |-> {"sample"}, inputs |-> {Moving, Docked}, days |-> <<>>],
   [jobs |-> {"sample", "history"}, inputs |-> {Away}, days |-> <<3>>]}

(* Two minutes of two engines, around the running threshold and the bands.   *)
MinuteRows == [port : {Missing, 100, 700}, starboard : {Missing, 200, 800}, portFuel : {Missing, 2},
               starboardFuel : {Missing, 3}, speed : {Missing, 20, 24, 25}]
RpmBands == {[low |-> 600, high |-> 700], [low |-> 700, high |-> 800]}

(* Questions that between them read every section and take every answer; a   *)
(* prompt with room for hardly anything, a few sections, or nearly all.      *)
AskedQuestions ==
  {{"last run"}, {"first run", "operation", "figure"}, {"usage"}, {"usage", "period", "why"}, {"economy", "period"},
   {"economy", "balance", "mode"}, {"balance", "why"}, {"balance", "alarm"},
   {"balance", "history", "figure", "complex"}, {"battery", "history"}, {"battery", "history", "complex"},
   {"shore", "operation"}, {"shore", "history", "complex"}, {"solar", "history"}, {"solar", "hardware"},
   {"ais", "freshness"}, {"freshness", "mode"}, {"identity"}, {"brief"}, {"brief", "outing"}, {"boat ok"},
   {"overview"}, {"figure", "now", "recommend"}, {"figure", "history"}, {"figure", "history", "interpreted"},
   {"identity", "interpreted", "long talk"},
   {"alarm", "operation"}, {"why"}}
ChatModels ==
  {[provider |-> p[1], fallback |-> p[2], chars |-> p[3]] :
     p \in {<<"local", "", 4>>, <<"openai", "ollama", 9>>, <<"vercel", "google", 9>>, <<"ollama", "", 9>>,
            <<"bedrock", "codex_cli", 4>>, <<"google", "claude_cli", 4>>, <<"codex_cli", "openai", 4>>,
            <<"claude_cli", "none such", 9>>, <<"ollama", "local", 0>>}}
Sizes == [key \in Records |-> IF key \in {"computed_answer", "boat_facts", "local_docs", "influx_history"} THEN 3 ELSE 2]
SampleSizes == [key \in {"influx_history", "battery_voltage"} |-> 6]

(* Documents of up to five lines, two of which overlap and may be enough for *)
(* a chunk of their own.                                                     *)
Row(kind, size) == [kind |-> kind, size |-> size]
Lines == {Row("head", 1), Row("text", 1), Row("text", 4), Row("blank", 0)}
SmallDocuments == UNION {[1 .. n -> Lines] : n \in 0 .. 5}
EditedDocuments == {<<Row("head", 1), Row("text", 1)>>}

(* A setting and a secret of the chat, and one of the vessel; the panel and  *)
(* two page requests make two saves between them.                          *)
FormKeys == [k \in {"model", "key", "host"} |-> IF k = "host" THEN "vessel" ELSE "chat"]

(* Two signed commits and an unsigned one; the bot's file is restored last   *)
(* when a deployment is rolled back.                                         *)
DeployedFiles == <<"telegram_bot.py", "index.html", "app.py">>
Version(bot, index_html, app) == [f \in {"telegram_bot.py", "index.html", "app.py"} |->
  CASE f = "telegram_bot.py" -> bot [] f = "index.html" -> index_html [] OTHER -> app]
Contents == [c \in {"a", "b", "u"} |->
  CASE c = "a" -> Version("bot1", Absent, "app1") [] c = "b" -> Version("bot2", "page2", "app2")
    [] OTHER -> Version("bot1", "page2", "app3")]

-----------------------------------------------------------------------------
Parts == {"bot", "history", "power", "engines", "answer", "memory", "form", "deploy"}

\* The parts with several initial states rest in one of them.
ChatInit ==
  /\ part \in Parts
  /\ Init /\ EnginesInit
  /\ CacheInit /\ (part # "history" => topics = {"today"})
  /\ PowerInit /\ (part # "power" => case.inputs = {Away})
  /\ AnswerInit /\ (part # "answer" => settings = [provider |-> "local", fallback |-> "", chars |-> 4])
  /\ MemoryInit /\ (part # "memory" => doc = <<>>)
  /\ SettingsInit /\ (part # "form" => \A k \in DOMAIN base : base[k] = "" /\ (k \in DOMAIN override => override[k] = Missing))
  /\ DeployInit /\ (part # "deploy" => checkout.head = "a" /\ origin = "a" /\ running["telegram"] = Nothing)

ChatNext ==
  \* What comes while the bot's thread is busy is what comes before its next poll.
  \/ /\ part = "bot" /\ Next /\ (pc = "poll" \/ UNCHANGED arrived)
     /\ UNCHANGED <<part, cacheVars, powerVars, enginesVars, answerVars, memoryVars, settingsVars, deployVars>>
  \/ /\ part = "history" /\ CacheNext
     /\ UNCHANGED <<part, vars, powerVars, enginesVars, answerVars, memoryVars, settingsVars, deployVars>>
  \/ /\ part = "power" /\ PowerNext
     /\ UNCHANGED <<part, vars, cacheVars, enginesVars, answerVars, memoryVars, settingsVars, deployVars>>
  \/ /\ part = "engines" /\ EnginesNext
     /\ UNCHANGED <<part, vars, cacheVars, powerVars, answerVars, memoryVars, settingsVars, deployVars>>
  \/ /\ part = "answer" /\ AnswerNext
     /\ UNCHANGED <<part, vars, cacheVars, powerVars, enginesVars, memoryVars, settingsVars, deployVars>>
  \/ /\ part = "memory" /\ MemoryNext
     /\ UNCHANGED <<part, vars, cacheVars, powerVars, enginesVars, answerVars, settingsVars, deployVars>>
  \/ /\ part = "form" /\ SettingsNext
     /\ UNCHANGED <<part, vars, cacheVars, powerVars, enginesVars, answerVars, memoryVars, deployVars>>
  \/ /\ part = "deploy" /\ DeployNext
     /\ UNCHANGED <<part, vars, cacheVars, powerVars, enginesVars, answerVars, memoryVars, settingsVars>>

\* Only the bot has a property that needs fairness: its thread runs.
ChatSpec == ChatInit /\ [][ChatNext]_chatVars /\ WF_vars(part = "bot" /\ BotStep)

=============================================================================
