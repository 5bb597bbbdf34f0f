------------------------------ MODULE TelegramBot ------------------------------
(***************************************************************************)
(* The Telegram bridge, boat-chat/telegram_bot.py: one thread that polls   *)
(* for updates, handles them one by one and remembers in a file up to      *)
(* where.  It asks the server of ChatServer and gives up after 240 s; a    *)
(* Telegram call may fail; the process may be killed at any point and is   *)
(* started again by systemd.                                               *)
(*                                                                         *)
(* Telegram keeps an update until a poll asks for a later one.  Texts are  *)
(* left out: an update is a question, /clear, or a command that only sends *)
(* a message (/help, /status, /id, a refusal).  A chat is one conversation *)
(* and its session on the server.  Callback queries arrive as questions.   *)
(***************************************************************************)
EXTENDS ChatServer

CONSTANTS
  Updates,      \* the updates that will come, in order: [chat, kind]
  MaxTroubles   \* bound: failed sends that raise, and kills

ASSUME UpdatesAssumption == Updates \in Seq([chat : Sessions, kind : STRING]) /\ MaxTroubles \in Nat

VARIABLES
  arrived,      \* updates that have come
  confirmed,    \* Telegram has forgotten updates up to this
  offset,       \* main's offset: the next update, 0 when unknown
  file,         \* the offset in telegram-offset.json, 0 when missing or torn
  batch,        \* updates of this poll not yet handled
  pc,           \* where the thread is
  asked,        \* the request it waits for
  conversation, \* CONVERSATIONS, of the exchanges' requests (the file follows each change)
  troubles,
  attempts,     \* history: how often update u was taken up
  done,         \* history: updates that were taken up to the end
  since         \* history: requests of a chat from this number on were made after its last clear

botVars == <<arrived, confirmed, offset, file, batch, pc, asked, conversation, troubles, attempts, done, since>>
vars == <<serverVars, botVars>>

Numbers == 1 .. Len(Updates)
Chat == Updates[Head(batch)].chat
Nobody == 0

Init ==
  /\ ServerInit
  /\ arrived = 0 /\ confirmed = 0 /\ offset = 0 /\ file = 0 /\ batch = <<>> /\ pc = "poll"
  /\ asked = Nobody /\ conversation = [s \in Sessions |-> <<>>] /\ troubles = 0
  /\ attempts = [u \in Numbers |-> 0] /\ done = {}
  /\ since = [s \in Sessions |-> 1]

Go(step) == pc' = step
History0 == <<attempts, done, since>>

Arrive ==
  /\ arrived < Len(Updates)
  /\ arrived' = arrived + 1
  /\ UNCHANGED <<serverVars, confirmed, offset, file, batch, pc, asked, conversation, troubles, History0>>

-----------------------------------------------------------------------------
(* poll_once                                                                 *)

First == IF offset = 0 THEN confirmed + 1 ELSE offset

\* getUpdates: asking from an offset confirms the updates before it.
Poll ==
  /\ pc = "poll" /\ First <= arrived
  /\ confirmed' = IF offset = 0 THEN confirmed ELSE offset - 1
  /\ batch' = [k \in 1 .. arrived - First + 1 |-> First + k - 1]
  /\ Go("take")
  /\ UNCHANGED <<serverVars, arrived, offset, file, asked, conversation, troubles, History0>>

Take ==
  /\ pc = "take" /\ batch # <<>>
  /\ attempts' = [attempts EXCEPT ![Head(batch)] = @ + 1]
  /\ Go(CASE Updates[Head(batch)].kind = "question" -> "progress"
          [] Updates[Head(batch)].kind = "clear" -> "forget"
          [] OTHER -> "send")
  /\ UNCHANGED <<serverVars, arrived, confirmed, offset, file, batch, asked, conversation, troubles,
                 done, since>>

\* The batch is handled: poll_once returns the new offset.
Return ==
  /\ pc = "take" /\ batch = <<>>
  /\ offset' = file /\ Go("poll")
  /\ UNCHANGED <<serverVars, arrived, confirmed, file, batch, asked, conversation, troubles, History0>>

SavedBatchMutant == Head(batch) + Len(batch)
SavedSameMutant == Head(batch)
Saved == Head(batch) + 1

\* The finally clause.  What the handler raised leaves poll_once, and main keeps its offset.
Finish(raised) ==
  /\ file' = Saved
  /\ done' = done \cup {Head(batch)}
  /\ batch' = IF raised THEN <<>> ELSE Tail(batch)
  /\ Go(IF raised THEN "poll" ELSE "take")
  /\ UNCHANGED <<serverVars, arrived, confirmed, offset, asked, conversation, attempts>>

-----------------------------------------------------------------------------
(* handle_message                                                            *)

\* A command's send_message is not guarded: a failure leaves handle_message.
Send ==
  /\ pc = "send"
  /\ \/ Finish(FALSE) /\ UNCHANGED <<troubles, since>>
     \/ troubles < MaxTroubles /\ troubles' = troubles + 1 /\ Finish(TRUE) /\ UNCHANGED since

\* /clear: the bot's own turns, then the server's, which may not answer
Forget ==
  /\ pc = "forget"
  /\ conversation' = [conversation EXCEPT ![Chat] = <<>>]
  /\ Go("clear")
  /\ UNCHANGED <<serverVars, arrived, confirmed, offset, file, batch, asked, troubles, History0>>

Clear == ClearSession(Chat)

ClearServer ==
  /\ pc = "clear"
  /\ Clear \/ (troubles < MaxTroubles /\ UNCHANGED serverVars)
  /\ Go("cleared")
  /\ UNCHANGED <<arrived, confirmed, offset, file, batch, asked, conversation, troubles, History0>>

\* "Conversation context cleared."
Cleared ==
  /\ pc = "cleared"
  /\ Finish(FALSE)
  /\ since' = [since EXCEPT ![Chat] = Cardinality({r \in Requests : request[r].at # "unsent"}) + 1]
  /\ UNCHANGED troubles

\* "Gathering boat telemetry...", then the question; a failure of the first is the answer.
AskServer(r) ==
  /\ pc = "progress"
  /\ Post(r, Chat, conversation[Chat]) /\ UNCHANGED stored
  /\ asked' = r /\ Go("wait")
  /\ UNCHANGED <<arrived, confirmed, offset, file, batch, conversation, troubles, attempts, done, since>>

ProgressFails ==
  /\ pc = "progress" /\ Go("reply")
  /\ UNCHANGED <<serverVars, arrived, confirmed, offset, file, batch, asked, conversation, troubles, History0>>

NewestFirst(turns) == Last(<<turns[Len(turns)]>> \o SubSeq(turns, 1, Len(turns) - 1))
Remember(turns) == Last(turns)

Answered ==
  /\ pc = "wait" /\ request[asked].at = "answered"
  /\ conversation' = [conversation EXCEPT ![Chat] = Remember(Append(request[asked].sent, asked))]
  /\ Go("reply")
  /\ UNCHANGED <<serverVars, arrived, confirmed, offset, file, batch, asked, troubles, History0>>

\* An error of the server, or 240 s without an answer: "Request failed"
GivesUp ==
  /\ pc = "wait" /\ request[asked].at # "answered"
  /\ Go("reply")
  /\ UNCHANGED <<serverVars, arrived, confirmed, offset, file, batch, asked, conversation, troubles, History0>>

\* edit_message or send_message, whose failure is only logged
Reply == pc = "reply" /\ Finish(FALSE) /\ UNCHANGED <<troubles, since>>

\* The process is killed: an offset file being written may be torn.
Killed ==
  /\ troubles < MaxTroubles /\ troubles' = troubles + 1
  /\ file' \in (IF pc \in {"send", "cleared", "reply"} THEN {file, 0} ELSE {file})
  /\ offset' = file' /\ batch' = <<>> /\ Go("poll")
  /\ UNCHANGED <<serverVars, arrived, confirmed, asked, conversation, History0>>

BotStep == Poll \/ Take \/ Return \/ Send \/ Forget \/ ClearServer \/ Cleared
           \/ (\E r \in Requests : AskServer(r)) \/ ProgressFails \/ Answered \/ GivesUp \/ Reply

Next == (ServerNext /\ UNCHANGED botVars) \/ Arrive \/ BotStep \/ Killed

\* The thread runs, and waits for an answer no longer than its timeout.
Spec == Init /\ [][Next]_vars /\ WF_vars(BotStep)

-----------------------------------------------------------------------------
(* Properties.                                                               *)

\* No update is passed over: whatever was killed or failed, an offset is only ever saved, and an
\* update only ever confirmed to Telegram, after the update was taken up to its end.
NothingSkipped == \A u \in Numbers : u < file \/ u <= confirmed => u \in done

\* An update is handled again only after the process was killed or a reply failed.
OnceUnlessTroubled == \A u \in Numbers : attempts[u] <= 1 + troubles

\* UpdatesHandledOnce: what the offset file, the offset and Telegram's confirmation promise together.
UpdatesHandledOnce == NothingSkipped /\ OnceUnlessTroubled

\* A conversation is what was answered: its exchanges are in the order they were asked, none twice,
\* all with an answer, and none from before the last /clear.
Increasing(turns) == \A j, k \in 1 .. Len(turns) : j < k => turns[j] < turns[k]

ConversationTrue ==
  \A s \in Sessions :
    LET turns == conversation[s] IN
    /\ Increasing(turns) /\ Len(turns) <= Kept
    /\ \A k \in 1 .. Len(turns) : /\ request[turns[k]].at = "answered" /\ request[turns[k]].session = s
                                  /\ turns[k] >= since[s]

\* Every update is handled in the end, once replies stop failing and the process stays up.
AllHandled == <>[](\A u \in 1 .. arrived : u \in done)
=============================================================================
