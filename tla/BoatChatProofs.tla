------------------------------ MODULE BoatChatProofs ------------------------------
(***************************************************************************)
(* Boat Chat.  The Telegram bridge, for any updates of any chats, any      *)
(* number of kills and failed replies, and any server behaviour: no update *)
(* is passed over, and a conversation is what was asked and answered since *)
(* the last clear.  The settings, for any keys, values and page requests:  *)
(* what the last finished save meant is what the next start finds.  A      *)
(* deployment, for any files, commits and failures: only verified commits  *)
(* are deployed, and what a deployment reports is so.  Cached summaries,   *)
(* for any calendar: what is served is of the window that was asked for.   *)
(***************************************************************************)
EXTENDS TelegramBot, ChatSettings, ChatDeploy, HistoryCache, TLAPS, SequenceTheorems, FiniteSetTheorems

-----------------------------------------------------------------------------
(* The inductive invariants.                                                 *)

Handling == {"send", "forget", "clear", "cleared", "progress", "wait", "reply"}

\* What the bot's own variables are.
BotTypes ==
  /\ arrived \in 0 .. Len(Updates) /\ confirmed \in Nat /\ offset \in Nat /\ file \in Nat
  /\ batch \in Seq(Numbers) /\ pc \in {"poll", "take"} \cup Handling
  /\ pc \in Handling => batch # <<>>
  /\ troubles \in Nat /\ attempts \in [Numbers -> Nat] /\ done \subseteq Numbers

\* A batch is a run of updates, and those before it are done.
BatchInv ==
  /\ \A k \in 1 .. Len(batch) : batch[k] = batch[1] + k - 1
  /\ batch # <<>> => \A u \in Numbers : u < batch[1] => u \in done

\* The next update that will be taken up, unless the process is killed.
Position ==
  CASE pc = "poll" -> First
    [] pc = "take" /\ batch = <<>> -> file
    [] pc = "take" /\ batch # <<>> -> batch[1]
    [] OTHER -> batch[1] + 1

\* Every place where the bot or Telegram remembers a position has only handled updates before
\* it, and an update from the position on was taken up only before a trouble.
HandledInv ==
  /\ \A u \in Numbers : u < file \/ u < offset \/ u <= confirmed => u \in done
  /\ pc = "take" /\ batch = <<>> => file > 0
  /\ \A u \in Numbers : attempts[u] <= troubles + (IF u < Position THEN 1 ELSE 0)

\* What the server's requests are; they are posted in the order of their numbers.
Request ==
  [at : {"unsent", "accepted", "answering", "read", "answered", "failed"}, session : Sessions,
   sent : Seq(Requests), context : SUBSET Requests, read : Seq(Requests)]

RequestInv ==
  /\ request \in [Requests -> Request] /\ stored \in [Sessions -> Seq(Requests)]
  /\ \E n \in 0 .. MaxRequests : \A r \in Requests : request[r].at # "unsent" <=> r <= n

\* The conversations, and the request the bot waits for.
ConversationInv ==
  /\ conversation \in [Sessions -> Seq(Requests)]
  /\ since \in [Sessions -> Nat]
  /\ \A s \in Sessions, r \in Requests : request[r].at = "unsent" => since[s] <= r
  /\ pc \in {"clear", "cleared"} => conversation[Chat] = <<>>
  /\ pc = "wait" =>
       /\ asked \in Requests
       /\ request[asked].at # "unsent" /\ request[asked].session = Chat
       /\ request[asked].sent = conversation[Chat] /\ since[Chat] <= asked
       /\ \A k \in 1 .. Len(conversation[Chat]) : conversation[Chat][k] < asked

-----------------------------------------------------------------------------
(* Lemmas.                                                                   *)

LEMMA NumbersType == Len(Updates) \in Nat /\ \A u \in Numbers : Updates[u].chat \in Sessions
<1>1. Updates \in Seq([chat : Sessions, kind : STRING]) BY UpdatesAssumption
<1>2. Len(Updates) \in Nat BY <1>1, LenProperties
<1>3. \A u \in Numbers : Updates[u] \in [chat : Sessions, kind : STRING]
  BY <1>1, ElementOfSeq DEF Numbers
<1> QED BY <1>2, <1>3

\* What is left of a batch when its first update is handled.
LEMMA BatchTail ==
  ASSUME NEW b \in Seq(Numbers), b # <<>>, \A k \in 1 .. Len(b) : b[k] = b[1] + k - 1
  PROVE  /\ Head(b) = b[1] /\ b[1] \in Numbers
         /\ Tail(b) \in Seq(Numbers) /\ Len(Tail(b)) = Len(b) - 1
         /\ Tail(b) # <<>> => Tail(b)[1] = b[1] + 1
         /\ \A k \in 1 .. Len(Tail(b)) : Tail(b)[k] = Tail(b)[1] + k - 1
<1>1. Len(b) \in Nat /\ Len(b) >= 1 BY EmptySeq, LenProperties
<1>2. /\ Tail(b) \in Seq(Numbers) /\ Len(Tail(b)) = Len(b) - 1
      /\ \A k \in 1 .. Len(Tail(b)) : Tail(b)[k] = b[k + 1]
  BY <1>1, HeadTailProperties
<1>3. Head(b) = b[1] /\ b[1] \in Numbers BY <1>1, HeadTailProperties, ElementOfSeq
<1>4. \A k \in 1 .. Len(Tail(b)) : Tail(b)[k] = b[1] + k
  BY <1>1, <1>2, <1>3 DEF Numbers
<1>5. Tail(b) # <<>> => 1 \in 1 .. Len(Tail(b)) BY <1>2, EmptySeq
<1>6. \A k \in 1 .. Len(Tail(b)) : 1 \in 1 .. Len(Tail(b)) BY <1>1, <1>2
<1>7. Tail(b) # <<>> => Tail(b)[1] = b[1] + 1 BY <1>4, <1>5
<1>8. \A k \in 1 .. Len(Tail(b)) : Tail(b)[k] = Tail(b)[1] + k - 1
  BY <1>3, <1>4, <1>6 DEF Numbers
<1> QED BY <1>2, <1>3, <1>7, <1>8

\* The updates of a poll.
LEMMA PolledBatch ==
  ASSUME NEW f \in Nat \ {0}, NEW a \in Nat, a <= Len(Updates), f <= a,
         NEW b, \A k \in 1 .. a - f + 1 : b[k] = f + k - 1,
         DOMAIN b = 1 .. a - f + 1, b = [k \in DOMAIN b |-> b[k]]
  PROVE  /\ b \in Seq(Numbers) /\ b # <<>> /\ b[1] = f
         /\ \A k \in 1 .. Len(b) : b[k] = b[1] + k - 1
<1>1. a - f + 1 \in Nat /\ a - f + 1 >= 1 BY SMT
<1>2. \A k \in 1 .. a - f + 1 : f + k - 1 \in Numbers BY NumbersType DEF Numbers
<1>3. b \in Seq(Numbers) /\ Len(b) = a - f + 1 BY <1>1, <1>2
<1>4. b # <<>> BY <1>1, <1>3, EmptySeq
<1>5. 1 \in 1 .. a - f + 1 BY <1>1
<1>6. b[1] = f BY <1>5
<1>7. \A k \in 1 .. Len(b) : b[k] = b[1] + k - 1 BY <1>3, <1>6
<1> QED BY <1>3, <1>4, <1>6, <1>7

-----------------------------------------------------------------------------
(* No update is passed over.                                                 *)

HandlingInv == BotTypes /\ BatchInv /\ HandledInv

\* The variables the invariant is about.
handlingVars == <<arrived, confirmed, offset, file, batch, pc, troubles, attempts, done>>

LEMMA HandlingStutters ==
  ASSUME HandlingInv, UNCHANGED handlingVars
  PROVE  HandlingInv'
BY DEF HandlingInv, handlingVars, BotTypes, BatchInv, HandledInv, Position, First

\* An update taken up to its end: the new position is behind it.
LEMMA FinishKeeps ==
  ASSUME HandlingInv, pc \in Handling, NEW raised \in BOOLEAN, Finish(raised),
         troubles' = IF raised THEN troubles + 1 ELSE troubles
  PROVE  HandlingInv'
<1>1. /\ batch \in Seq(Numbers) /\ batch # <<>> /\ troubles \in Nat /\ attempts \in [Numbers -> Nat]
      /\ done \subseteq Numbers /\ file \in Nat /\ offset \in Nat /\ confirmed \in Nat
      /\ \A k \in 1 .. Len(batch) : batch[k] = batch[1] + k - 1
      /\ arrived \in 0 .. Len(Updates)
  BY DEF HandlingInv, BotTypes, BatchInv
<1>2. /\ Head(batch) = batch[1] /\ batch[1] \in Numbers
      /\ Tail(batch) \in Seq(Numbers) /\ Len(Tail(batch)) = Len(batch) - 1
      /\ Tail(batch) # <<>> => Tail(batch)[1] = batch[1] + 1
      /\ \A k \in 1 .. Len(Tail(batch)) : Tail(batch)[k] = Tail(batch)[1] + k - 1
  BY <1>1, BatchTail
<1>3. /\ file' = batch[1] + 1 /\ done' = done \cup {batch[1]}
      /\ batch' = (IF raised THEN <<>> ELSE Tail(batch))
      /\ pc' = (IF raised THEN "poll" ELSE "take")
      /\ UNCHANGED <<arrived, confirmed, offset, attempts>>
  BY <1>2 DEF Finish, Saved, Go
<1>4. \A u \in Numbers : u < batch[1] + 1 => u \in done'
  BY <1>1, <1>2, <1>3 DEF HandlingInv, BatchInv, Numbers
<1>5. BotTypes'
  <2>1. batch' \in Seq(Numbers) BY <1>2, <1>3
  <2>2. file' \in Nat BY <1>2, <1>3 DEF Numbers
  <2>3. done' \subseteq Numbers BY <1>1, <1>2, <1>3, Zenon
  <2>4. troubles' \in Nat BY <1>1
  <2> QED BY <1>1, <1>3, <2>1, <2>2, <2>3, <2>4 DEF BotTypes, Handling
<1>6. BatchInv'
  <2>1. CASE raised
    <3>1. Len(batch') = 0 BY <1>3, <2>1
    <3> QED BY <1>3, <2>1, <3>1 DEF BatchInv
  <2>2. CASE ~raised
    BY <1>2, <1>3, <1>4, <2>2 DEF BatchInv
  <2> QED BY <2>1, <2>2
<1>7. HandledInv'
  <2>1. \A u \in Numbers : u < file' \/ u < offset' \/ u <= confirmed' => u \in done'
    BY <1>3, <1>4 DEF HandlingInv, HandledInv
  <2>2. file' > 0 BY <1>2, <1>3 DEF Numbers
  <2>3. \A u \in Numbers : attempts[u] <= troubles + (IF u < batch[1] + 1 THEN 1 ELSE 0)
    BY DEF HandlingInv, HandledInv, Position, Handling
  <2>4. CASE raised
    <3>1. \A u \in Numbers : attempts'[u] <= troubles'
      BY <1>1, <1>3, <2>3, <2>4
    <3> HIDE DEF Position
    <3>2. \A u \in Numbers : attempts'[u] <= troubles' + (IF u < Position' THEN 1 ELSE 0)
      BY <1>1, <1>3, <2>4, <3>1
    <3> QED BY <2>1, <2>2, <3>2 DEF HandledInv
  <2>5. CASE ~raised
    <3>1. Position' = batch[1] + 1 BY <1>2, <1>3, <2>5 DEF Position
    <3> QED BY <1>3, <2>1, <2>2, <2>3, <2>5, <3>1 DEF HandledInv
  <2> QED BY <2>4, <2>5
<1> QED BY <1>5, <1>6, <1>7 DEF HandlingInv

LEMMA HandlingStarts == Init => HandlingInv
<1> SUFFICES ASSUME Init PROVE HandlingInv OBVIOUS
<1>1. Len(Updates) \in Nat BY NumbersType
<1>2. batch = <<>> /\ Len(batch) = 0 BY DEF Init
<1>3. BotTypes BY <1>1, <1>2 DEF Init, BotTypes, Handling
<1>4. BatchInv BY <1>2 DEF BatchInv
<1>5. HandledInv BY <1>1, <1>2 DEF Init, HandledInv, Position, First, Numbers
<1> QED BY <1>3, <1>4, <1>5 DEF HandlingInv

LEMMA PollKeeps ==
  ASSUME HandlingInv, Poll
  PROVE  HandlingInv'
<1>1. /\ First \in Nat \ {0} /\ arrived \in Nat /\ arrived <= Len(Updates) /\ First <= arrived
      /\ Len(Updates) \in Nat
  BY NumbersType DEF HandlingInv, BotTypes, Poll, First
<1>2. /\ batch' = [k \in 1 .. arrived - First + 1 |-> First + k - 1] /\ pc' = "take"
      /\ confirmed' = (IF offset = 0 THEN confirmed ELSE offset - 1)
      /\ UNCHANGED <<arrived, offset, file, troubles, attempts, done>>
  BY DEF Poll, History0, Go
<1>3. /\ batch' \in Seq(Numbers) /\ batch' # <<>> /\ batch'[1] = First
      /\ \A k \in 1 .. Len(batch') : batch'[k] = batch'[1] + k - 1
  <2> DEFINE f == First
  <2>1. f \in Nat \ {0} /\ f <= arrived BY <1>1
  <2>2. batch' = [k \in 1 .. arrived - f + 1 |-> f + k - 1] BY <1>2
  <2>4. arrived \in Nat /\ arrived <= Len(Updates) BY <1>1
  <2> HIDE DEF f
  <2>3. /\ batch' \in Seq(Numbers) /\ batch' # <<>> /\ batch'[1] = f
        /\ \A k \in 1 .. Len(batch') : batch'[k] = batch'[1] + k - 1
    <3>1. DOMAIN batch' = 1 .. arrived - f + 1 /\ batch' = [k \in DOMAIN batch' |-> batch'[k]]
      BY <2>2, Zenon
    <3>2. \A k \in 1 .. arrived - f + 1 : batch'[k] = f + k - 1 BY <2>2, Zenon
    <3> QED BY <2>1, <2>4, <3>1, <3>2, PolledBatch
  <2> QED BY <2>3 DEF f
<1>4. \A u \in Numbers : u < First => u \in done
  BY DEF HandlingInv, HandledInv, BotTypes, First, Numbers
<1>5. BotTypes' BY <1>2, <1>3 DEF HandlingInv, BotTypes, Handling
<1>6. BatchInv' BY <1>2, <1>3, <1>4 DEF BatchInv
<1>7. HandledInv'
  <2>1. \A u \in Numbers : u < file' \/ u < offset' \/ u <= confirmed' => u \in done'
    BY <1>2 DEF HandlingInv, HandledInv, BotTypes, Numbers
  <2>2. pc = "poll" BY DEF Poll
  <2>3. Position' = First BY <1>2, <1>3 DEF Position
  <2>4. \A u \in Numbers : attempts[u] <= troubles + (IF u < First THEN 1 ELSE 0)
    BY <2>2 DEF HandlingInv, HandledInv, Position
  <2> QED BY <1>2, <1>3, <2>1, <2>3, <2>4 DEF HandledInv
<1> QED BY <1>5, <1>6, <1>7 DEF HandlingInv

LEMMA TakeKeeps ==
  ASSUME HandlingInv, Take
  PROVE  HandlingInv'
<1>1. /\ batch \in Seq(Numbers) /\ batch # <<>> /\ pc = "take"
      /\ attempts \in [Numbers -> Nat] /\ troubles \in Nat
      /\ \A k \in 1 .. Len(batch) : batch[k] = batch[1] + k - 1
  BY DEF HandlingInv, BotTypes, BatchInv, Take
<1>2. Head(batch) = batch[1] /\ batch[1] \in Numbers BY <1>1, BatchTail
<1>3. /\ attempts' = [attempts EXCEPT ![batch[1]] = @ + 1]
      /\ pc' \in {"progress", "forget", "send"}
      /\ UNCHANGED <<arrived, confirmed, offset, file, batch, troubles, done>>
  BY <1>2, Zenon DEF Take, Go
<1>4. BotTypes'
  <2>1. attempts' \in [Numbers -> Nat] BY <1>1, <1>2, <1>3
  <2>2. pc' \in Handling BY <1>3 DEF Handling
  <2> QED BY <1>1, <1>3, <2>1, <2>2 DEF HandlingInv, BotTypes
<1>5. BatchInv' BY <1>3 DEF HandlingInv, BatchInv
<1>6. HandledInv'
  <2>1. Position = batch[1] /\ Position' = batch[1] + 1 BY <1>1, <1>3 DEF Position
  <2>2. \A u \in Numbers : attempts[u] <= troubles + (IF u < batch[1] THEN 1 ELSE 0)
    BY <2>1 DEF HandlingInv, HandledInv
  <2>3. \A u \in Numbers : attempts'[u] <= troubles + (IF u < batch[1] + 1 THEN 1 ELSE 0)
    BY <1>1, <1>2, <1>3, <2>2 DEF Numbers
  <2> QED BY <1>3, <2>1, <2>3 DEF HandlingInv, HandledInv
<1> QED BY <1>4, <1>5, <1>6 DEF HandlingInv

LEMMA ReturnKeeps ==
  ASSUME HandlingInv, Return
  PROVE  HandlingInv'
<1>1. /\ pc = "take" /\ batch = <<>> /\ offset' = file /\ pc' = "poll"
      /\ UNCHANGED <<arrived, confirmed, file, batch, troubles, attempts, done>>
  BY DEF Return, Go, History0
<1>2. file > 0 /\ file \in Nat BY <1>1 DEF HandlingInv, HandledInv, BotTypes
<1>3. BotTypes' BY <1>1, <1>2 DEF HandlingInv, BotTypes, Handling
<1>4. BatchInv' BY <1>1 DEF HandlingInv, BatchInv
<1>5. Position = file /\ Position' = file BY <1>1, <1>2 DEF Position, First
<1>6. HandledInv' BY <1>1, <1>5 DEF HandlingInv, HandledInv
<1> QED BY <1>3, <1>4, <1>6 DEF HandlingInv

LEMMA KilledKeeps ==
  ASSUME HandlingInv, Killed
  PROVE  HandlingInv'
<1>1. /\ troubles' = troubles + 1 /\ file' \in {file, 0} /\ offset' = file' /\ batch' = <<>> /\ pc' = "poll"
      /\ UNCHANGED <<arrived, confirmed, attempts, done>>
  BY DEF Killed, Go, History0
<1>2. file \in Nat /\ troubles \in Nat /\ attempts \in [Numbers -> Nat] BY DEF HandlingInv, BotTypes
<1>3. BotTypes'
  <2>1. batch' \in Seq(Numbers) BY <1>1
  <2> QED BY <1>1, <1>2, <2>1 DEF HandlingInv, BotTypes, Handling
<1>4. BatchInv'
  <2>1. Len(batch') = 0 BY <1>1
  <2> QED BY <1>1, <2>1 DEF BatchInv
<1>5. HandledInv'
  <2>1. \A u \in Numbers : u < file' \/ u < offset' \/ u <= confirmed' => u \in done'
    <3>1. \A u \in Numbers : u > 0 BY DEF Numbers
    <3> QED BY <1>1, <1>2, <3>1 DEF HandlingInv, HandledInv, Numbers
  <2>2. \A u \in Numbers : attempts[u] <= troubles + 1
    BY <1>2 DEF HandlingInv, HandledInv
  <2>3. \A u \in Numbers : attempts'[u] <= troubles' + (IF u < Position' THEN 1 ELSE 0)
    BY <1>1, <1>2, <2>2
  <2> QED BY <1>1, <2>1, <2>3 DEF HandledInv
<1> QED BY <1>3, <1>4, <1>5 DEF HandlingInv

\* A step of handle_message that stays within it.
LEMMA HandlerKeeps ==
  ASSUME HandlingInv, pc \in Handling, pc' \in Handling,
         UNCHANGED <<arrived, confirmed, offset, file, batch, troubles, attempts, done>>
  PROVE  HandlingInv'
<1>1. BotTypes' BY DEF HandlingInv, BotTypes
<1>2. BatchInv' BY DEF HandlingInv, BatchInv
<1>3. Position' = Position BY DEF Position, Handling
<1>4. HandledInv' BY <1>3 DEF HandlingInv, HandledInv, Handling
<1> QED BY <1>1, <1>2, <1>4 DEF HandlingInv

LEMMA HandlingKept == HandlingInv /\ [Next]_vars => HandlingInv'
<1> SUFFICES ASSUME HandlingInv, [Next]_vars PROVE HandlingInv'
  OBVIOUS
<1>1. CASE UNCHANGED handlingVars BY <1>1, HandlingStutters
<1>2. CASE ServerNext /\ UNCHANGED botVars
  BY <1>1, <1>2, Zenon DEF botVars, handlingVars
<1>3. CASE Arrive
  <2>1. arrived < Len(Updates) /\ arrived' = arrived + 1 /\ UNCHANGED <<confirmed, offset, file, batch, pc, troubles, History0>>
    BY <1>3 DEF Arrive
  <2>2. BotTypes' BY <2>1, NumbersType DEF HandlingInv, BotTypes, History0
  <2>3. BatchInv' BY <2>1 DEF HandlingInv, BatchInv, History0
  <2>4. Position' = Position BY <2>1 DEF Position, First
  <2>5. HandledInv' BY <2>1, <2>4 DEF HandlingInv, HandledInv, History0
  <2> QED BY <2>2, <2>3, <2>5 DEF HandlingInv
<1>4. CASE Poll BY <1>4, PollKeeps
<1>5. CASE Take BY <1>5, TakeKeeps
<1>6. CASE Return BY <1>6, ReturnKeeps
<1>7. CASE Send
  <2>1. pc \in Handling BY <1>7 DEF Send, Handling
  <2>2. CASE Finish(FALSE) /\ UNCHANGED troubles
    BY <2>1, <2>2, FinishKeeps
  <2>3. CASE Finish(TRUE) /\ troubles' = troubles + 1
    BY <2>1, <2>3, FinishKeeps
  <2> QED BY <1>7, <2>2, <2>3, Zenon DEF Send
<1>8. CASE Forget BY <1>8, HandlerKeeps DEF Forget, Handling, Go, History0
<1>9. CASE ClearServer BY <1>9, HandlerKeeps DEF ClearServer, Handling, Go, History0
<1>10. CASE Cleared
  <2>1. pc \in Handling /\ Finish(FALSE) /\ UNCHANGED troubles BY <1>10 DEF Cleared, Handling
  <2> QED BY <2>1, FinishKeeps
<1>11. CASE \E r \in Requests : AskServer(r)
  BY <1>11, HandlerKeeps DEF AskServer, Handling, Go
<1>12. CASE ProgressFails BY <1>12, HandlerKeeps DEF ProgressFails, Handling, Go, History0
<1>13. CASE Answered BY <1>13, HandlerKeeps DEF Answered, Handling, Go, History0
<1>14. CASE GivesUp BY <1>14, HandlerKeeps DEF GivesUp, Handling, Go, History0
<1>15. CASE Reply
  <2>1. pc \in Handling /\ Finish(FALSE) /\ UNCHANGED troubles BY <1>15 DEF Reply, Handling
  <2> QED BY <2>1, FinishKeeps
<1>16. CASE Killed BY <1>16, KilledKeeps
<1>17. CASE UNCHANGED vars BY <1>1, <1>17, Zenon DEF vars, botVars, handlingVars
<1> QED
  BY <1>2, <1>3, <1>4, <1>5, <1>6, <1>7, <1>8, <1>9, <1>10, <1>11, <1>12, <1>13, <1>14, <1>15, <1>16,
     <1>17, Zenon DEF Next, BotStep

\* No update is passed over, and none is taken up more often than the troubles account for:
\* poll_once and main save, confirm and reload positions in the order that makes this so.
THEOREM UpdatesHandled == Spec => []UpdatesHandledOnce
<1>1. HandlingInv => UpdatesHandledOnce
  <2> SUFFICES ASSUME HandlingInv PROVE UpdatesHandledOnce OBVIOUS
  <2>1. NothingSkipped BY DEF HandlingInv, HandledInv, NothingSkipped
  <2>2. troubles \in Nat /\ attempts \in [Numbers -> Nat] BY DEF HandlingInv, BotTypes
  <2>3. \A u \in Numbers : attempts[u] <= 1 + troubles
    BY <2>2 DEF HandlingInv, HandledInv
  <2> QED BY <2>1, <2>3 DEF UpdatesHandledOnce, OnceUnlessTroubled
<1> QED BY <1>1, HandlingStarts, HandlingKept, PTL DEF Spec

-----------------------------------------------------------------------------
(* A conversation is what was asked and answered.                            *)

LEMMA NoRequest == request' = request /\ stored' = stored /\ RequestInv => RequestInv'
BY DEF RequestInv

\* The last exchanges of a conversation.
LEMMA LastProperties ==
  ASSUME NEW t \in Seq(Requests)
  PROVE  /\ Last(t) \in Seq(Requests) /\ Len(Last(t)) <= Kept
         /\ \E d \in Nat : /\ Len(Last(t)) + d = Len(t)
                           /\ \A k \in 1 .. Len(Last(t)) : Last(t)[k] = t[k + d]
<1> DEFINE d == IF Len(t) > Kept THEN Len(t) - Kept ELSE 0
<1>1. Len(t) \in Nat /\ Kept \in Nat /\ d \in Nat /\ d <= Len(t) /\ Len(t) - d <= Kept
  BY ServerAssumption, LenProperties
<1>2. Last(t) = SubSeq(t, d + 1, Len(t)) BY <1>1 DEF Last
<1> HIDE DEF d
<1>3. \A i \in d + 1 .. Len(t) : t[i] \in Requests BY <1>1, ElementOfSeq
<1>4. /\ SubSeq(t, d + 1, Len(t)) \in Seq(Requests)
      /\ Len(SubSeq(t, d + 1, Len(t))) = IF d + 1 <= Len(t) THEN Len(t) - (d + 1) + 1 ELSE 0
      /\ \A i \in 1 .. Len(t) - (d + 1) + 1 : SubSeq(t, d + 1, Len(t))[i] = t[d + 1 + i - 1]
  <2>1. d + 1 \in Int /\ Len(t) \in Int BY <1>1
  <2> QED BY <2>1, <1>3, SubSeqProperties
<1>5. Len(Last(t)) = Len(t) - d BY <1>1, <1>2, <1>4
<1>6. \A k \in 1 .. Len(Last(t)) : Last(t)[k] = t[k + d]
  <2> SUFFICES ASSUME NEW k \in 1 .. Len(Last(t)) PROVE Last(t)[k] = t[k + d] OBVIOUS
  <2>1. k \in 1 .. Len(t) - (d + 1) + 1 /\ d + 1 + k - 1 = k + d BY <1>1, <1>5
  <2> QED BY <1>2, <1>4, <2>1
<1> QED BY <1>1, <1>2, <1>4, <1>5, <1>6

\* What every step does to a request that was posted.
ServerMoves ==
  \A r \in Requests :
    request[r].at # "unsent" =>
      /\ request'[r].at # "unsent"
      /\ request'[r].session = request[r].session /\ request'[r].sent = request[r].sent
      /\ request[r].at = "answered" => request'[r].at = "answered"

\* A request that has ended.
Ended(x, end) == [x EXCEPT !.at = end, !.read = <<>>, !.context = {}]

LEMMA EndedType ==
  ASSUME NEW x \in Request, NEW end \in {"answered", "failed"}
  PROVE  /\ Ended(x, end) \in Request /\ Ended(x, end).at = end
         /\ Ended(x, end).session = x.session /\ Ended(x, end).sent = x.sent
<1> DEFINE none == <<>>
<1>1. none \in Seq(Requests) OBVIOUS
<1>2. Ended(x, end) = [x EXCEPT !.at = end, !.read = none, !.context = {}] BY DEF Ended
<1> HIDE DEF none
<1> QED BY <1>1, <1>2 DEF Request

\* A thread's step on its own request, not yet answered.
LEMMA StepKeeps ==
  ASSUME RequestInv, NEW r \in Requests, NEW to \in Request,
         request[r].at \notin {"unsent", "answered"}, to.at # "unsent",
         to.session = request[r].session, to.sent = request[r].sent,
         request' = [request EXCEPT ![r] = to], stored' \in [Sessions -> Seq(Requests)]
  PROVE  RequestInv' /\ ServerMoves
<1>1. request' \in [Requests -> Request] BY DEF RequestInv
<1>2. \A q \in Requests : request'[q] = IF q = r THEN to ELSE request[q] BY DEF RequestInv
<1>3. \A q \in Requests : request'[q].at # "unsent" <=> request[q].at # "unsent" BY <1>2
<1>4. ServerMoves BY <1>2 DEF ServerMoves
<1> QED BY <1>1, <1>3, <1>4 DEF RequestInv

LEMMA WorkKeeps ==
  ASSUME RequestInv, NEW r \in Requests, Work(r)
  PROVE  RequestInv' /\ ServerMoves
<1>1. /\ request[r] \in Request /\ stored \in [Sessions -> Seq(Requests)]
      /\ request[r].session \in Sessions
  BY DEF RequestInv, Request
<1>2. CASE ReadSession(r)
  <2> DEFINE context == Elements(Last(History(r))) \cup Plan(r)
  <2>1. /\ request[r].at = "accepted" /\ stored' = stored
        /\ request' = [request EXCEPT ![r] = [request[r] EXCEPT !.at = "answering", !.context = context]]
    BY <1>2 DEF ReadSession, Step
  <2>2. context \subseteq Requests
    <3>1. History(r) \in Seq(Requests) BY <1>1 DEF History, Request
    <3>2. Last(History(r)) \in Seq(Requests) BY <3>1, LastProperties
    <3>3. Elements(Last(History(r))) \subseteq Requests BY <3>2, ElementOfSeq DEF Elements
    <3>4. Plan(r) \subseteq Requests
      <4> DEFINE turns == stored[request[r].session]
      <4>1. turns \in Seq(Requests) BY <1>1
      <4>2. Plan(r) = IF turns = <<>> THEN {} ELSE {turns[Len(turns)]} BY DEF Plan
      <4> HIDE DEF turns
      <4>3. turns # <<>> => turns[Len(turns)] \in Requests
        <5>1. turns # <<>> => Len(turns) \in 1 .. Len(turns) BY <4>1, EmptySeq, LenProperties
        <5> QED BY <4>1, <5>1, ElementOfSeq
      <4> QED BY <4>2, <4>3
    <3> QED BY <3>3, <3>4
  <2> HIDE DEF context
  <2> DEFINE to == [request[r] EXCEPT !.at = "answering", !.context = context]
  <2>3. /\ to \in Request /\ to.at = "answering" /\ to.session = request[r].session
        /\ to.sent = request[r].sent
    BY <1>1, <2>2 DEF Request
  <2>4. request' = [request EXCEPT ![r] = to] BY <2>1
  <2>5. stored' \in [Sessions -> Seq(Requests)] BY <1>1, <2>1
  <2>6. /\ request[r].at \notin {"unsent", "answered"} /\ to.at # "unsent"
        /\ to \in Request /\ to.session = request[r].session /\ to.sent = request[r].sent
    BY <2>1, <2>3
  <2> HIDE DEF to
  <2> QED BY <2>4, <2>5, <2>6, StepKeeps, Zenon
<1>3. CASE ReadTurns(r)
  <2> DEFINE turns == stored[request[r].session]
  <2> DEFINE to == [request[r] EXCEPT !.at = "read", !.read = turns]
  <2>1. /\ request[r].at = "answering" /\ stored' = stored /\ request' = [request EXCEPT ![r] = to]
    BY <1>3 DEF ReadTurns, Step
  <2>2. turns \in Seq(Requests) BY <1>1
  <2> HIDE DEF turns
  <2>3. /\ to \in Request /\ to.at = "read" /\ to.session = request[r].session
        /\ to.sent = request[r].sent
    BY <1>1, <2>2 DEF Request
  <2>5. stored' \in [Sessions -> Seq(Requests)] BY <1>1, <2>1
  <2>6. /\ request[r].at \notin {"unsent", "answered"} /\ to.at # "unsent"
        /\ to \in Request /\ to.session = request[r].session /\ to.sent = request[r].sent
    BY <2>1, <2>3
  <2> HIDE DEF to
  <2> QED BY <2>1, <2>5, <2>6, StepKeeps, Zenon
<1>4. CASE WriteTurns(r)
  <2>1. PICK end \in {"answered", "failed"} : Step(r, "read", [request[r] EXCEPT !.at = end, !.read = <<>>, !.context = {}])
    BY <1>4 DEF WriteTurns
  <2> DEFINE to == Ended(request[r], end)
  <2>2. request[r].at = "read" /\ request' = [request EXCEPT ![r] = to] BY <2>1 DEF Step, Ended
  <2>3. /\ to \in Request /\ to.at = end /\ to.session = request[r].session
        /\ to.sent = request[r].sent
    BY <1>1, <2>1, EndedType
  <2> HIDE DEF to
  <2>4. stored' \in [Sessions -> Seq(Requests)]
    <3>1. Append(request[r].read, r) \in Seq(Requests) BY <1>1, AppendProperties DEF Request
    <3>2. Longer(r) \in Seq(Requests) BY <3>1, LastProperties DEF Longer
    <3>3. stored' = [stored EXCEPT ![request[r].session] = Longer(r)] BY <1>4 DEF WriteTurns
    <3> QED BY <1>1, <3>2, <3>3
  <2> QED BY <2>1, <2>2, <2>3, <2>4, StepKeeps
<1>5. CASE Raise(r)
  <2> DEFINE to == Ended(request[r], "failed")
  <2>1. request[r].at \notin {"unsent", "answered"} BY <1>5 DEF Raise, Active
  <2>2. request' = [request EXCEPT ![r] = to] /\ stored' = stored BY <1>5 DEF Raise, Ended
  <2>3. /\ to \in Request /\ to.at = "failed" /\ to.session = request[r].session
        /\ to.sent = request[r].sent
    BY <1>1, EndedType
  <2>5. stored' \in [Sessions -> Seq(Requests)] BY <1>1, <2>2
  <2>6. /\ to.at # "unsent"
        /\ to \in Request /\ to.session = request[r].session /\ to.sent = request[r].sent
    BY <2>3
  <2> HIDE DEF to
  <2> QED BY <2>1, <2>2, <2>5, <2>6, StepKeeps, Zenon
<1> QED BY <1>2, <1>3, <1>4, <1>5 DEF Work

LEMMA ServerKeeps ==
  ASSUME RequestInv, ServerNext
  PROVE  RequestInv' /\ ServerMoves
<1>1. CASE ServerRestarts
  <2>1. /\ request' = [r \in Requests |-> IF r \in Active THEN Ended(request[r], "failed")
                                                         ELSE request[r]]
        /\ stored' = stored
    BY <1>1 DEF ServerRestarts, Ended
  <2>2. \A r \in Requests : request[r] \in Request BY DEF RequestInv
  <2>3. \A r \in Requests : r \in Active => request[r].at \notin {"unsent", "answered"} BY DEF Active
  <2>4. \A r \in Requests : request'[r] = IF r \in Active THEN Ended(request[r], "failed")
                                                         ELSE request[r]
    BY <2>1, Zenon
  <2>5. \A r \in Requests :
          LET to == Ended(request[r], "failed") IN
          to \in Request /\ to.at = "failed" /\ to.session = request[r].session /\ to.sent = request[r].sent
    BY <2>2, EndedType
  <2>6. \A r \in Requests : request'[r] \in Request BY <2>2, <2>4, <2>5
  <2>7. request' \in [Requests -> Request] BY <2>1, <2>6
  <2>8. \A r \in Requests : request'[r].at # "unsent" <=> request[r].at # "unsent"
    BY <2>3, <2>4, <2>5
  <2>9. ServerMoves BY <2>3, <2>4, <2>5 DEF ServerMoves
  <2> QED BY <2>1, <2>7, <2>8, <2>9 DEF RequestInv
<1> QED BY <1>1, WorkKeeps DEF ServerNext

\* A question is posted: it is the first that was not.
LEMMA PostKeeps ==
  ASSUME RequestInv, NEW r \in Requests, NEW s \in Sessions, NEW history \in Seq(Requests),
         Post(r, s, history), stored' = stored
  PROVE  /\ RequestInv' /\ ServerMoves
         /\ request[r].at = "unsent" /\ \A q \in Requests : request[q].at # "unsent" => q < r
         /\ request'[r].at # "unsent" /\ request'[r].session = s /\ request'[r].sent = history
<1>1. PICK accepted \in BOOLEAN :
        request' = [request EXCEPT ![r] = [Unsent EXCEPT
                      !.at = IF accepted THEN "accepted" ELSE "failed", !.session = s, !.sent = history]]
  BY DEF Post
<1> DEFINE to == [Unsent EXCEPT !.at = IF accepted THEN "accepted" ELSE "failed", !.session = s, !.sent = history]
<1>2. Unsent \in Request /\ Unsent.at = "unsent"
  <2>1. (CHOOSE s0 \in Sessions : TRUE) \in Sessions BY ServerAssumption
  <2> QED BY <2>1 DEF Unsent, Request
<1>3. to \in Request /\ to.at # "unsent" /\ to.session = s /\ to.sent = history
  BY <1>2 DEF Request
<1>4. request' = [request EXCEPT ![r] = to] BY <1>1
<1> HIDE DEF to
<1>5. request[r].at = "unsent" /\ \A q \in 1 .. r - 1 : request[q].at # "unsent" BY DEF Post
<1>6. PICK n \in 0 .. MaxRequests : \A q \in Requests : request[q].at # "unsent" <=> q <= n
  BY DEF RequestInv
<1>7. n = r - 1
  <2>1. r > n BY <1>5, <1>6 DEF Requests
  <2>2. n + 1 \in Requests /\ ~(n + 1 <= n) BY <1>6, <2>1, ServerAssumption DEF Requests
  <2>3. ~(n + 1 < r) BY <1>5, <1>6, <2>2 DEF Requests
  <2> QED BY <2>1, <2>3, <1>6 DEF Requests
<1>8. \A q \in Requests : request'[q] = IF q = r THEN to ELSE request[q] BY <1>4 DEF RequestInv
<1>9. request' \in [Requests -> Request] BY <1>3, <1>4 DEF RequestInv
<1>10. r \in 0 .. MaxRequests /\ \A q \in Requests : request'[q].at # "unsent" <=> q <= r
  BY <1>3, <1>6, <1>7, <1>8 DEF Requests
<1>11. RequestInv' BY <1>9, <1>10 DEF RequestInv
<1>12. ServerMoves BY <1>5, <1>8 DEF ServerMoves
<1>13. \A q \in Requests : request[q].at # "unsent" => q < r BY <1>6, <1>7 DEF Requests
<1> QED BY <1>3, <1>5, <1>8, <1>11, <1>12, <1>13

\* A conversation of answered requests, in their order, since the last clear.
TurnsTrue(s) ==
  LET turns == conversation[s] IN
  /\ Increasing(turns) /\ Len(turns) <= Kept
  /\ \A k \in 1 .. Len(turns) : /\ request[turns[k]].at = "answered" /\ request[turns[k]].session = s
                                /\ turns[k] >= since[s]

TalkInv == RequestInv /\ ConversationInv /\ ConversationTrue

LEMMA ConversationTurns == ConversationTrue <=> \A s \in Sessions : TurnsTrue(s)
BY Zenon DEF ConversationTrue, TurnsTrue

LEMMA ConversationTurnsNext == ConversationTrue' <=> \A s \in Sessions : TurnsTrue(s)'
BY Zenon DEF ConversationTrue, TurnsTrue

\* A conversation that stays as it is stays true whatever the server does.
LEMMA TurnsStay ==
  ASSUME ServerMoves, NEW s \in Sessions, conversation \in [Sessions -> Seq(Requests)], TurnsTrue(s),
         conversation'[s] = conversation[s], since'[s] = since[s]
  PROVE  TurnsTrue(s)'
<1> DEFINE turns == conversation[s]
<1>1. turns \in Seq(Requests) OBVIOUS
<1>2. /\ Increasing(turns) /\ Len(turns) <= Kept
      /\ \A k \in 1 .. Len(turns) : request[turns[k]].at = "answered" /\ request[turns[k]].session = s
                                    /\ turns[k] >= since[s]
  BY DEF TurnsTrue
<1>3. conversation'[s] = turns OBVIOUS
<1> HIDE DEF turns
<1>4. \A k \in 1 .. Len(turns) : turns[k] \in Requests BY <1>1, ElementOfSeq
<1>5. \A k \in 1 .. Len(turns) : request'[turns[k]].at = "answered" /\ request'[turns[k]].session = s
                                 /\ turns[k] >= since'[s]
  BY <1>2, <1>4 DEF ServerMoves
<1> QED BY <1>2, <1>3, <1>5, Zenon DEF TurnsTrue

LEMMA SinceStays ==
  ASSUME ServerMoves, \A s \in Sessions, r \in Requests : request[r].at = "unsent" => since[s] <= r,
         since' = since
  PROVE  \A s \in Sessions, r \in Requests : request'[r].at = "unsent" => since'[s] <= r
BY DEF ServerMoves

\* A step that neither changes a conversation nor enters a question or a clear.
LEMMA TalkStays ==
  ASSUME TalkInv, RequestInv', ServerMoves, UNCHANGED <<conversation, since>>,
         pc' \notin {"clear", "cleared", "wait"} \/ UNCHANGED <<pc, batch, asked>>
  PROVE  TalkInv'
<1>1. conversation \in [Sessions -> Seq(Requests)] BY DEF TalkInv, ConversationInv
<1>2. ConversationTrue'
  <2>1. \A s \in Sessions : TurnsTrue(s) BY ConversationTurns DEF TalkInv
  <2>2. \A s \in Sessions : conversation'[s] = conversation[s] /\ since'[s] = since[s] OBVIOUS
  <2>3. \A s \in Sessions : TurnsTrue(s)' BY <1>1, <2>1, <2>2, TurnsStay
  <2> QED BY <2>3, ConversationTurnsNext
<1>3. \A s \in Sessions, r \in Requests : request'[r].at = "unsent" => since'[s] <= r
  BY SinceStays DEF TalkInv, ConversationInv
<1>4. conversation' \in [Sessions -> Seq(Requests)] /\ since' \in [Sessions -> Nat]
  BY DEF TalkInv, ConversationInv
<1>5. CASE pc' \notin {"clear", "cleared", "wait"}
  BY <1>2, <1>3, <1>4, <1>5 DEF TalkInv, ConversationInv
<1>6. CASE UNCHANGED <<pc, batch, asked>>
  <2>1. Chat' = Chat BY <1>6 DEF Chat
  <2>2. pc' \in {"clear", "cleared"} => conversation'[Chat'] = <<>>
    BY <1>6, <2>1 DEF TalkInv, ConversationInv
  <2>3. ASSUME pc' = "wait"
        PROVE  /\ asked' \in Requests
               /\ request'[asked'].at # "unsent" /\ request'[asked'].session = Chat'
               /\ request'[asked'].sent = conversation'[Chat'] /\ since'[Chat'] <= asked'
               /\ \A k \in 1 .. Len(conversation'[Chat']) : conversation'[Chat'][k] < asked'
    <3>1. pc = "wait" /\ asked' = asked BY <1>6, <2>3
    <3>2. /\ asked \in Requests
          /\ request[asked].at # "unsent" /\ request[asked].session = Chat
          /\ request[asked].sent = conversation[Chat] /\ since[Chat] <= asked
          /\ \A k \in 1 .. Len(conversation[Chat]) : conversation[Chat][k] < asked
      BY <3>1 DEF TalkInv, ConversationInv
    <3>3. /\ request'[asked].at # "unsent" /\ request'[asked].session = request[asked].session
          /\ request'[asked].sent = request[asked].sent
      BY <3>2 DEF ServerMoves
    <3> QED BY <2>1, <3>1, <3>2, <3>3
  <2> QED BY <1>2, <1>3, <1>4, <2>2, <2>3 DEF TalkInv, ConversationInv
<1> QED BY <1>5, <1>6

LEMMA NothingMoves == UNCHANGED <<request, stored>> => ServerMoves /\ (RequestInv => RequestInv')
BY DEF ServerMoves, RequestInv

LEMMA TalkStarts == Init => TalkInv
<1> SUFFICES ASSUME Init PROVE TalkInv OBVIOUS
<1>1. Unsent \in Request /\ Unsent.at = "unsent"
  <2>1. (CHOOSE s0 \in Sessions : TRUE) \in Sessions BY ServerAssumption
  <2> QED BY <2>1 DEF Unsent, Request
<1>2. request = [r \in Requests |-> Unsent] /\ stored = [s \in Sessions |-> <<>>]
  BY DEF Init, ServerInit
<1>3. \A r \in Requests : request[r].at = "unsent" BY <1>1, <1>2
<1>4. 0 \in 0 .. MaxRequests /\ \A r \in Requests : request[r].at # "unsent" <=> r <= 0
  BY <1>3, ServerAssumption DEF Requests
<1>5. RequestInv BY <1>1, <1>2, <1>4 DEF RequestInv
<1>6. conversation = [s \in Sessions |-> <<>>] /\ since = [s \in Sessions |-> 1] /\ pc = "poll"
  BY DEF Init
<1>7. ConversationInv BY <1>6 DEF ConversationInv, Requests
<1>8. ASSUME NEW s \in Sessions PROVE TurnsTrue(s)
  <2>1. conversation[s] = <<>> /\ Len(conversation[s]) = 0 BY <1>6
  <2> QED BY <2>1, ServerAssumption DEF TurnsTrue, Increasing
<1> QED BY <1>5, <1>7, <1>8, ConversationTurns DEF TalkInv

\* The chat of the update in hand.
LEMMA ChatType == HandlingInv /\ pc \in Handling => Chat \in Sessions
<1> SUFFICES ASSUME HandlingInv, pc \in Handling PROVE Chat \in Sessions OBVIOUS
<1>1. batch \in Seq(Numbers) /\ batch # <<>> BY DEF HandlingInv, BotTypes
<1>2. Head(batch) \in Numbers BY <1>1, HeadTailProperties
<1> QED BY <1>2, NumbersType DEF Chat

\* /clear: nothing of the conversation is left, at the bot first.
LEMMA ForgetTalks ==
  ASSUME TalkInv, HandlingInv, Forget
  PROVE  TalkInv'
<1>1. Chat \in Sessions BY ChatType DEF Forget, Handling
<1>2. /\ conversation' = [conversation EXCEPT ![Chat] = <<>>] /\ pc' = "clear"
      /\ UNCHANGED <<request, stored, batch, since>>
  BY DEF Forget, Go, History0, serverVars
<1>3. Chat' = Chat BY <1>2 DEF Chat
<1>4. /\ conversation \in [Sessions -> Seq(Requests)] /\ since \in [Sessions -> Nat]
      /\ \A s \in Sessions, r \in Requests : request[r].at = "unsent" => since[s] <= r
  BY DEF TalkInv, ConversationInv
<1>5. conversation' \in [Sessions -> Seq(Requests)] /\ conversation'[Chat'] = <<>>
  BY <1>1, <1>2, <1>3, <1>4
<1>6. ServerMoves /\ RequestInv' BY <1>2, NothingMoves DEF TalkInv
<1>7. ConversationInv' BY <1>2, <1>4, <1>5 DEF ConversationInv
<1>8. ASSUME NEW s \in Sessions PROVE TurnsTrue(s)'
  <2>1. CASE s = Chat
    <3>1. conversation'[s] = <<>> /\ Len(conversation'[s]) = 0 BY <1>3, <1>5, <2>1
    <3> QED BY <3>1, ServerAssumption DEF TurnsTrue, Increasing
  <2>2. CASE s # Chat
    <3>1. conversation'[s] = conversation[s] /\ since'[s] = since[s] BY <1>2, <1>4, <2>2
    <3>2. TurnsTrue(s) BY ConversationTurns DEF TalkInv
    <3> QED BY <1>4, <1>6, <3>1, <3>2, TurnsStay
  <2> QED BY <2>1, <2>2
<1> QED BY <1>6, <1>7, <1>8, ConversationTurnsNext DEF TalkInv

\* The clear is over: what is asked from now on is asked after it.
LEMMA ClearedTalks ==
  ASSUME TalkInv, HandlingInv, Cleared
  PROVE  TalkInv'
<1>1. Chat \in Sessions /\ pc = "cleared" BY ChatType DEF Cleared, Handling
<1> DEFINE posted == {r \in Requests : request[r].at # "unsent"}
<1>2. /\ since' = [since EXCEPT ![Chat] = Cardinality(posted) + 1] /\ pc' = "take"
      /\ UNCHANGED <<request, stored, conversation>>
  BY DEF Cleared, Finish, Go, serverVars
<1>3. /\ conversation \in [Sessions -> Seq(Requests)] /\ since \in [Sessions -> Nat]
      /\ \A s \in Sessions, r \in Requests : request[r].at = "unsent" => since[s] <= r
      /\ conversation[Chat] = <<>>
  BY <1>1 DEF TalkInv, ConversationInv
<1>4. PICK n \in 0 .. MaxRequests : \A r \in Requests : request[r].at # "unsent" <=> r <= n
  BY DEF TalkInv, RequestInv
<1>5. posted = 1 .. n BY <1>4, ServerAssumption DEF Requests
<1> HIDE DEF posted
<1>6. Cardinality(posted) = n
  <2>1. Cardinality(1 .. n) = IF 1 > n THEN 0 ELSE n - 1 + 1 BY <1>4, FS_Interval
  <2> QED BY <1>4, <1>5, <2>1
<1>7. since' \in [Sessions -> Nat] /\ \A s \in Sessions : since'[s] = IF s = Chat THEN n + 1 ELSE since[s]
  BY <1>1, <1>2, <1>3, <1>4, <1>6
<1>8. \A s \in Sessions, r \in Requests : request'[r].at = "unsent" => since'[s] <= r
  BY <1>2, <1>3, <1>4, <1>7 DEF Requests
<1>9. ServerMoves /\ RequestInv' BY <1>2, NothingMoves DEF TalkInv
<1>10. ConversationInv' BY <1>2, <1>3, <1>7, <1>8 DEF ConversationInv
<1>11. ASSUME NEW s \in Sessions PROVE TurnsTrue(s)'
  <2>1. CASE s = Chat
    <3>1. conversation'[s] = <<>> /\ Len(conversation'[s]) = 0 BY <1>2, <1>3, <2>1
    <3> QED BY <3>1, ServerAssumption DEF TurnsTrue, Increasing
  <2>2. CASE s # Chat
    <3>1. conversation'[s] = conversation[s] /\ since'[s] = since[s] BY <1>2, <1>7, <2>2
    <3>2. TurnsTrue(s) BY ConversationTurns DEF TalkInv
    <3> QED BY <1>3, <1>9, <3>1, <3>2, TurnsStay
  <2> QED BY <2>1, <2>2
<1> QED BY <1>9, <1>10, <1>11, ConversationTurnsNext DEF TalkInv

\* A question is posted with the conversation so far: it comes after all of it.
LEMMA AskTalks ==
  ASSUME TalkInv, HandlingInv, NEW r \in Requests, AskServer(r)
  PROVE  TalkInv'
<1>1. Chat \in Sessions BY ChatType DEF AskServer, Handling
<1>2. /\ Post(r, Chat, conversation[Chat]) /\ stored' = stored /\ asked' = r /\ pc' = "wait"
      /\ UNCHANGED <<batch, conversation, since>>
  BY DEF AskServer, Go
<1>3. Chat' = Chat BY <1>2 DEF Chat
<1>4. /\ conversation \in [Sessions -> Seq(Requests)] /\ since \in [Sessions -> Nat]
      /\ \A s \in Sessions, q \in Requests : request[q].at = "unsent" => since[s] <= q
      /\ RequestInv
  BY DEF TalkInv, ConversationInv
<1>5. conversation[Chat] \in Seq(Requests) BY <1>1, <1>4
<1>6. /\ RequestInv' /\ ServerMoves
      /\ request[r].at = "unsent" /\ \A q \in Requests : request[q].at # "unsent" => q < r
      /\ request'[r].at # "unsent" /\ request'[r].session = Chat /\ request'[r].sent = conversation[Chat]
  BY <1>1, <1>2, <1>4, <1>5, PostKeeps
<1>7. \A s \in Sessions : TurnsTrue(s) BY ConversationTurns DEF TalkInv
<1>8. \A k \in 1 .. Len(conversation[Chat]) : conversation[Chat][k] < r
  <2> SUFFICES ASSUME NEW k \in 1 .. Len(conversation[Chat]) PROVE conversation[Chat][k] < r
    OBVIOUS
  <2>1. conversation[Chat][k] \in Requests BY <1>5, ElementOfSeq
  <2>2. request[conversation[Chat][k]].at = "answered" BY <1>1, <1>7 DEF TurnsTrue
  <2> QED BY <1>6, <2>1, <2>2
<1>9. since[Chat] <= r BY <1>1, <1>4, <1>6
<1>10. \A s \in Sessions, q \in Requests : request'[q].at = "unsent" => since'[s] <= q
  BY <1>2, <1>4, <1>6, SinceStays
<1>11. ConversationInv'
  BY <1>2, <1>3, <1>4, <1>6, <1>8, <1>9, <1>10 DEF ConversationInv
<1>12. \A s \in Sessions : conversation'[s] = conversation[s] /\ since'[s] = since[s] BY <1>2
<1>13. \A s \in Sessions : TurnsTrue(s)' BY <1>4, <1>6, <1>7, <1>12, TurnsStay
<1> QED BY <1>6, <1>11, <1>13, ConversationTurnsNext DEF TalkInv

\* The answered exchange is added to the conversation it was asked with.
LEMMA AnsweredTalks ==
  ASSUME TalkInv, HandlingInv, Answered
  PROVE  TalkInv'
<1>1. Chat \in Sessions BY ChatType DEF Answered, Handling
<1>2. /\ pc = "wait" /\ request[asked].at = "answered" /\ pc' = "reply"
      /\ conversation' = [conversation EXCEPT ![Chat] = Remember(Append(request[asked].sent, asked))]
      /\ UNCHANGED <<request, stored, since>>
  BY DEF Answered, Go, History0, serverVars
<1>3. /\ conversation \in [Sessions -> Seq(Requests)] /\ since \in [Sessions -> Nat]
      /\ \A s \in Sessions, q \in Requests : request[q].at = "unsent" => since[s] <= q
  BY DEF TalkInv, ConversationInv
<1>4. /\ asked \in Requests /\ request[asked].session = Chat
      /\ request[asked].sent = conversation[Chat] /\ since[Chat] <= asked
      /\ \A k \in 1 .. Len(conversation[Chat]) : conversation[Chat][k] < asked
  BY <1>2 DEF TalkInv, ConversationInv
<1> DEFINE before == conversation[Chat]
<1> DEFINE all == Append(before, asked)
<1>5. before \in Seq(Requests) BY <1>1, <1>3
<1>6. /\ Increasing(before)
      /\ \A k \in 1 .. Len(before) : request[before[k]].at = "answered" /\ request[before[k]].session = Chat
                                     /\ before[k] >= since[Chat]
  BY <1>1, ConversationTurns DEF TalkInv, TurnsTrue
<1>7. conversation' = [conversation EXCEPT ![Chat] = Last(all)] BY <1>2, <1>4 DEF Remember
<1>8. \A k \in 1 .. Len(before) : before[k] < asked BY <1>4
<1> HIDE DEF before
<1>9. /\ all \in Seq(Requests) /\ Len(all) = Len(before) + 1 /\ all[Len(before) + 1] = asked
      /\ \A k \in 1 .. Len(before) : all[k] = before[k]
  BY <1>4, <1>5, AppendProperties
<1>91. Len(before) \in Nat /\ \A k \in 1 .. Len(before) : before[k] \in Requests BY <1>5, ElementOfSeq, LenProperties
<1> HIDE DEF all
<1>10. Increasing(all)
  <2>1. \A j, k \in 1 .. Len(all) : j < k => all[j] < all[k]
    <3> SUFFICES ASSUME NEW j \in 1 .. Len(all), NEW k \in 1 .. Len(all), j < k PROVE all[j] < all[k]
      OBVIOUS
    <3>1. j \in 1 .. Len(before) BY <1>9, <1>91
    <3>2. CASE k \in 1 .. Len(before) BY <1>6, <1>9, <3>1, <3>2 DEF Increasing
    <3>3. CASE k = Len(before) + 1 BY <1>8, <1>9, <3>1, <3>3
    <3> QED BY <3>2, <3>3, <1>9, <1>91
  <2> QED BY <2>1 DEF Increasing
<1>11. \A k \in 1 .. Len(all) : request[all[k]].at = "answered" /\ request[all[k]].session = Chat
                                /\ all[k] >= since[Chat]
  <2> SUFFICES ASSUME NEW k \in 1 .. Len(all)
               PROVE  request[all[k]].at = "answered" /\ request[all[k]].session = Chat /\ all[k] >= since[Chat]
    OBVIOUS
  <2>1. CASE k \in 1 .. Len(before) BY <1>6, <1>9, <2>1
  <2>2. CASE k = Len(before) + 1
    <3>1. since[Chat] \in Nat /\ asked \in Nat BY <1>1, <1>3, <1>4 DEF Requests
    <3> QED BY <1>2, <1>4, <1>9, <2>2, <3>1
  <2> QED BY <2>1, <2>2, <1>9, <1>91
<1> DEFINE kept == Last(all)
<1>12. PICK d \in Nat : /\ kept \in Seq(Requests) /\ Len(kept) <= Kept /\ Len(kept) + d = Len(all)
                        /\ \A k \in 1 .. Len(kept) : kept[k] = all[k + d]
  BY <1>9, LastProperties
<1>13. Len(kept) \in Nat BY <1>12, LenProperties
<1>14. \A k \in 1 .. Len(kept) : k + d \in 1 .. Len(all) BY <1>12, <1>13
<1> HIDE DEF kept
<1>15. Increasing(kept)
  <2>1. \A j, k \in 1 .. Len(kept) : j < k => j + d < k + d BY <1>12
  <2> QED BY <1>10, <1>12, <1>14, <2>1 DEF Increasing
<1>16. \A k \in 1 .. Len(kept) : request[kept[k]].at = "answered" /\ request[kept[k]].session = Chat
                                 /\ kept[k] >= since[Chat]
  BY <1>11, <1>12, <1>14
<1>17. ServerMoves /\ RequestInv' BY <1>2, NothingMoves DEF TalkInv
<1>18. conversation' = [conversation EXCEPT ![Chat] = kept] BY <1>7 DEF kept
<1>19. conversation' \in [Sessions -> Seq(Requests)] /\ conversation'[Chat] = kept
  BY <1>1, <1>3, <1>12, <1>18
<1>20. ConversationInv' BY <1>2, <1>3, <1>19 DEF ConversationInv
<1>21. ASSUME NEW s \in Sessions PROVE TurnsTrue(s)'
  <2>1. CASE s = Chat
    <3>1. conversation'[s] = kept /\ request' = request /\ since' = since BY <1>2, <1>19, <2>1
    <3> QED BY <1>12, <1>15, <1>16, <2>1, <3>1 DEF TurnsTrue
  <2>2. CASE s # Chat
    <3>1. conversation'[s] = conversation[s] /\ since'[s] = since[s] BY <1>2, <1>3, <1>18, <2>2
    <3>2. TurnsTrue(s) BY ConversationTurns DEF TalkInv
    <3> QED BY <1>3, <1>17, <3>1, <3>2, TurnsStay
  <2> QED BY <2>1, <2>2
<1> QED BY <1>17, <1>20, <1>21, ConversationTurnsNext DEF TalkInv

\* The server is told to forget the session, or does not answer.
LEMMA ClearServerTalks ==
  ASSUME TalkInv, HandlingInv, ClearServer
  PROVE  TalkInv'
<1>1. /\ pc = "clear" /\ pc' = "cleared" /\ UNCHANGED <<request, batch, conversation, since>>
  BY DEF ClearServer, Clear, ClearSession, serverVars, Go, History0
<1>2. Chat \in Sessions BY <1>1, ChatType DEF Handling
<1>3. Chat' = Chat BY <1>1 DEF Chat
<1>4. stored' \in [Sessions -> Seq(Requests)]
  <2>1. stored \in [Sessions -> Seq(Requests)] BY DEF TalkInv, RequestInv
  <2>2. stored' = stored \/ stored' = [stored EXCEPT ![Chat] = <<>>]
    BY DEF ClearServer, Clear, ClearSession, serverVars
  <2>3. [stored EXCEPT ![Chat] = <<>>] \in [Sessions -> Seq(Requests)] BY <1>2, <2>1
  <2> QED BY <2>1, <2>2, <2>3
<1>5. RequestInv' BY <1>1, <1>4 DEF TalkInv, RequestInv
<1>6. ServerMoves BY <1>1 DEF ServerMoves
<1>7. ConversationInv' BY <1>1, <1>3 DEF TalkInv, ConversationInv
<1>8. conversation \in [Sessions -> Seq(Requests)] /\ \A s \in Sessions : TurnsTrue(s)
  BY ConversationTurns DEF TalkInv, ConversationInv
<1>9. \A s \in Sessions : conversation'[s] = conversation[s] /\ since'[s] = since[s] BY <1>1
<1>10. \A s \in Sessions : TurnsTrue(s)' BY <1>6, <1>8, <1>9, TurnsStay
<1> QED BY <1>5, <1>7, <1>10, ConversationTurnsNext DEF TalkInv

LEMMA TalkKept == TalkInv /\ HandlingInv /\ [Next]_vars => TalkInv'
<1> SUFFICES ASSUME TalkInv, HandlingInv, [Next]_vars PROVE TalkInv'
  OBVIOUS
<1>1. ASSUME UNCHANGED <<request, stored, conversation, since>>,
             pc' \notin {"clear", "cleared", "wait"} \/ UNCHANGED <<pc, batch, asked>>
      PROVE  TalkInv'
  BY <1>1, NothingMoves, TalkStays DEF TalkInv
<1>2. CASE ServerNext /\ UNCHANGED botVars
  <2>1. UNCHANGED <<conversation, since>> /\ UNCHANGED <<pc, batch, asked>> BY <1>2 DEF botVars
  <2> QED BY <1>2, <2>1, ServerKeeps, TalkStays DEF TalkInv
<1>3. CASE Arrive BY <1>1, <1>3 DEF Arrive, serverVars, History0
<1>4. CASE Poll BY <1>1, <1>4 DEF Poll, serverVars, History0, Go
<1>5. CASE Take
  <2>1. pc' \in {"progress", "forget", "send"} /\ UNCHANGED <<request, stored, conversation, since>>
    BY <1>5, Zenon DEF Take, serverVars, Go
  <2> QED BY <1>1, <2>1
<1>6. CASE Return BY <1>1, <1>6 DEF Return, serverVars, History0, Go
<1>7. CASE Send
  <2>1. UNCHANGED <<request, stored, conversation, since>> /\ pc' \in {"poll", "take"}
    BY <1>7 DEF Send, Finish, serverVars, Go
  <2> QED BY <1>1, <2>1
<1>8. CASE Forget BY <1>8, ForgetTalks
<1>9. CASE ClearServer BY <1>9, ClearServerTalks
<1>10. CASE Cleared BY <1>10, ClearedTalks
<1>11. CASE \E r \in Requests : AskServer(r) BY <1>11, AskTalks
<1>12. CASE ProgressFails BY <1>1, <1>12 DEF ProgressFails, serverVars, History0, Go
<1>13. CASE Answered BY <1>13, AnsweredTalks
<1>14. CASE GivesUp BY <1>1, <1>14 DEF GivesUp, serverVars, History0, Go
<1>15. CASE Reply
  <2>1. UNCHANGED <<request, stored, conversation, since>> /\ pc' \in {"poll", "take"}
    BY <1>15 DEF Reply, Finish, serverVars, Go
  <2> QED BY <1>1, <2>1
<1>16. CASE Killed BY <1>1, <1>16 DEF Killed, serverVars, History0, Go
<1>17. CASE UNCHANGED vars BY <1>1, <1>17 DEF vars, serverVars, botVars
<1> QED
  BY <1>2, <1>3, <1>4, <1>5, <1>6, <1>7, <1>8, <1>9, <1>10, <1>11, <1>12, <1>13, <1>14, <1>15, <1>16,
     <1>17, Zenon DEF Next, BotStep

\* A conversation of the bot holds answered exchanges of its chat only, in the order they were
\* asked, none twice and none from before the last /clear, and never more than the bot keeps.
THEOREM ConversationsTrue == Spec => []ConversationTrue
<1>1. Init => HandlingInv BY HandlingStarts
<1>2. HandlingInv /\ [Next]_vars => HandlingInv' BY HandlingKept
<1>3. Init => TalkInv BY TalkStarts
<1>4. TalkInv /\ HandlingInv /\ [Next]_vars => TalkInv' BY TalkKept
<1>5. TalkInv => ConversationTrue BY DEF TalkInv
<1> QED BY <1>1, <1>2, <1>3, <1>4, <1>5, PTL DEF Spec

-----------------------------------------------------------------------------
(* The settings.  What the variables hold, and the inductive invariant.      *)

Value == Values \cup {Empty}
Transaction == [key : ChatKeys, value : Value \cup {Null}, saw : [ChatKeys -> Value \cup {Missing}], cleared : BOOLEAN]
Saving == [pc : {"write", "clear", "replace"}, key : Keys, value : Value, backup : [Keys -> Value], file : 1 .. 3,
           saw : [ChatKeys -> Value \cup {Missing}], paged : SUBSET ChatKeys]

SettingsTypes ==
  /\ base \in [Keys -> Value] /\ override \in [ChatKeys -> Value \cup {Missing}] /\ environ \in [ChatKeys -> Value]
  /\ page \in [Pages -> Transaction \cup {Idle}] /\ panel \in Saving \cup {Idle}
  /\ meant \in [Keys -> Value] /\ doubt \subseteq Keys

\* The page's transactions exclude one another; one that was not overtaken has read what it replaces.
PageInv ==
  \A t \in Pages : page[t] # Idle =>
    /\ lock = t
    /\ ~page[t].cleared => page[t].saw = override

\* How far the panel has written, and what a failure would bring back.
Written == panel.pc # "write" \/ (IF Owner[panel.key] = "vessel" THEN 1 ELSE 2) < panel.file
WithBackup(k) == IF k \in ChatKeys /\ override[k] # Missing THEN override[k] ELSE panel.backup[k]

PanelInv ==
  panel # Idle =>
    /\ base = IF Written THEN [panel.backup EXCEPT ![panel.key] = panel.value] ELSE panel.backup
    /\ Written /\ panel.pc = "write" /\ panel.key \notin doubt =>
         \/ WithBackup(panel.key) = meant[panel.key]
         \/ panel.key \in ChatKeys /\ environ[panel.key] # panel.backup[panel.key] /\ panel.value # panel.backup[panel.key]
    /\ panel.pc = "replace" =>
         /\ panel.key \in ChatKeys
         /\ panel.key \notin panel.paged \cup doubt => meant[panel.key] = panel.value
         /\ \A k \in ChatKeys \ (panel.paged \cup doubt) : override[k] = panel.saw[k]

\* Every key but the one the panel is saving is in effect as it was meant.
EffectInv ==
  \A k \in Keys \ doubt : (panel = Idle \/ k # panel.key \/ ~Written) => InEffect(k) = meant[k]

SettingsInv == SettingsTypes /\ PageInv /\ PanelInv /\ EffectInv

LEMMA SavingNotIdle == \A s \in Saving : s # Idle
<1> SUFFICES ASSUME NEW s \in Saving, s = Idle PROVE FALSE OBVIOUS
<1>1. "pc" \in DOMAIN s BY DEF Saving
<1>2. DOMAIN s = {} BY DEF Idle
<1> QED BY <1>1, <1>2

LEMMA SettingsStart == SettingsInit => SettingsInv
<1> SUFFICES ASSUME SettingsInit PROVE SettingsInv OBVIOUS
<1>1. ChatKeys \subseteq Keys BY DEF ChatKeys
<1>2. /\ base \in [Keys -> Value] /\ override \in [ChatKeys -> Value \cup {Missing}]
      /\ environ = [k \in ChatKeys |-> base[k]] /\ page = [t \in Pages |-> Idle] /\ panel = Idle /\ doubt = {}
      /\ meant = [k \in Keys |-> IF k \in ChatKeys /\ override[k] # Missing THEN override[k] ELSE base[k]]
  BY DEF SettingsInit, Value
<1>3. meant \in [Keys -> Value] /\ environ \in [ChatKeys -> Value] BY <1>1, <1>2
<1>4. SettingsTypes BY <1>2, <1>3 DEF SettingsTypes
<1> QED BY <1>2, <1>4 DEF SettingsInv, PageInv, PanelInv, EffectInv, InEffect

\* What one page request does to the overrides.
LEMMA Edits ==
  ASSUME SettingsTypes, NEW saw \in [ChatKeys -> Value \cup {Missing}], NEW k \in ChatKeys, NEW v \in Value \cup {Null}
  PROVE  /\ EditedValue(saw, k, v) \in [ChatKeys -> Value \cup {Missing}]
         /\ \A x \in ChatKeys \ {k} : EditedValue(saw, k, v)[x] = saw[x]
         /\ Keeps(k, v) => EditedValue(saw, k, v) = saw
         /\ ~Keeps(k, v) => /\ Given(v) \in Value
                            /\ \/ EditedValue(saw, k, v)[k] = Given(v)
                               \/ EditedValue(saw, k, v)[k] = Missing /\ Given(v) = environ[k]
<1>1. CASE v = Null
  <2>1. EditedValue(saw, k, v) = [saw EXCEPT ![k] = Empty] /\ ~Keeps(k, v) /\ Given(v) = Empty
    BY <1>1, SettingsAssumption DEF EditedValue, Keeps, Given, Value, SettingsTypes
  <2> QED BY <2>1 DEF Value
<1>2. CASE v # Null /\ Keeps(k, v)
  <2>1. EditedValue(saw, k, v) = saw BY <1>2 DEF EditedValue
  <2> QED BY <1>2, <2>1
<1>3. CASE v # Null /\ v = environ[k] /\ ~Keeps(k, v)
  <2>1. EditedValue(saw, k, v) = [saw EXCEPT ![k] = Missing] /\ Given(v) = v BY <1>3 DEF EditedValue, Given
  <2> QED BY <1>3, <2>1
<1>4. CASE v # Null /\ v # environ[k] /\ ~Keeps(k, v)
  <2>1. EditedValue(saw, k, v) = [saw EXCEPT ![k] = v] /\ Given(v) = v BY <1>4 DEF EditedValue, Given
  <2> QED BY <1>4, <2>1
<1> QED BY <1>1, <1>2, <1>3, <1>4

LEMMA Committed ==
  ASSUME SettingsInv, NEW t \in Pages, Commit(t)
  PROVE  SettingsInv'
<1> DEFINE k == page[t].key
           v == page[t].value
           present == EditedValue(page[t].saw, k, v)
<1>0. SettingsTypes /\ PageInv /\ PanelInv /\ EffectInv BY DEF SettingsInv
<1>1. page[t] \in Transaction /\ page[t] # Idle BY <1>0 DEF SettingsTypes, Commit
<1>2. k \in ChatKeys /\ v \in Value \cup {Null} /\ page[t].saw \in [ChatKeys -> Value \cup {Missing}]
  BY <1>1 DEF Transaction
<1>3. /\ override' = present /\ lock' = Missing /\ page' = [page EXCEPT ![t] = Idle] /\ UNCHANGED <<base, environ>>
      /\ meant' = IF Keeps(k, v) THEN meant ELSE [meant EXCEPT ![k] = Given(v)]
      /\ doubt' = (IF Keeps(k, v) THEN doubt ELSE doubt \ {k})
                  \cup (IF page[t].cleared THEN {x \in ChatKeys : present[x] # override[x]} ELSE {})
                  \cup (IF present[k] = Missing /\ environ[k] # base[k] THEN {k} ELSE {})
      /\ panel' = IF panel = Idle THEN Idle ELSE [panel EXCEPT !.paged = @ \cup {k}]
  BY DEF Commit
<1>4. /\ present \in [ChatKeys -> Value \cup {Missing}] /\ \A x \in ChatKeys \ {k} : present[x] = page[t].saw[x]
      /\ Keeps(k, v) => present = page[t].saw
      /\ ~Keeps(k, v) => Given(v) \in Value /\ (present[k] = Given(v) \/ (present[k] = Missing /\ Given(v) = environ[k]))
  BY <1>0, <1>2, Edits
<1>5. \A q \in Pages : q # t => page[q] = Idle
  BY <1>0, <1>1 DEF PageInv
<1>6. ~page[t].cleared => page[t].saw = override BY <1>0, <1>1 DEF PageInv
<1> HIDE DEF present, k, v
<1>7. ChatKeys \subseteq Keys BY DEF ChatKeys
<1>8. PageInv'
  <2>1. \A q \in Pages : page'[q] = Idle BY <1>0, <1>3, <1>5 DEF SettingsTypes
  <2> QED BY <2>1 DEF PageInv
<1>9. \A x \in ChatKeys : x # k /\ x \notin doubt' => present[x] = override[x] /\ x \notin doubt
  BY <1>3, <1>4, <1>6
<1>10. \A x \in Keys \ {k} : meant'[x] = meant[x] BY <1>0, <1>2, <1>3 DEF SettingsTypes
<1>11. ~Keeps(k, v) => meant'[k] = Given(v) BY <1>0, <1>2, <1>3, <1>7 DEF SettingsTypes
<1>12. Keeps(k, v) /\ k \notin doubt' => present[k] = override[k] /\ k \notin doubt /\ meant'[k] = meant[k]
  BY <1>2, <1>3, <1>4, <1>6
<1>13. panel # Idle => panel \in Saving BY <1>0 DEF SettingsTypes
<1>14. panel' \in Saving \cup {Idle} BY <1>2, <1>3, <1>13 DEF Saving
<1>15. SettingsTypes'
  <2>1. meant' \in [Keys -> Value] BY <1>0, <1>3, <1>4 DEF SettingsTypes
  <2>2. doubt' \subseteq Keys BY <1>0, <1>2, <1>3, <1>7 DEF SettingsTypes
  <2>3. page' \in [Pages -> Transaction \cup {Idle}] BY <1>0, <1>3 DEF SettingsTypes
  <2> QED BY <1>0, <1>3, <1>4, <1>14, <2>1, <2>2, <2>3 DEF SettingsTypes
<1>16. panel # Idle =>
         /\ panel'.pc = panel.pc /\ panel'.key = panel.key /\ panel'.value = panel.value
         /\ panel'.backup = panel.backup /\ panel'.file = panel.file /\ panel'.saw = panel.saw
         /\ panel'.paged = panel.paged \cup {k}
  BY <1>3, <1>13 DEF Saving
<1>17. (panel' = Idle => panel = Idle) /\ (panel = Idle => panel' = Idle)
  <2>1. ASSUME panel # Idle PROVE panel' # Idle
    <3>1. panel' \in Saving BY <1>2, <1>3, <1>13, <2>1 DEF Saving
    <3> QED BY <3>1, SavingNotIdle
  <2> QED BY <1>3, <2>1
<1>18. panel # Idle => (Written' <=> Written) BY <1>16 DEF Written
<1>19. PanelInv'
  <2> SUFFICES ASSUME panel' # Idle
               PROVE  /\ base' = IF Written' THEN [panel'.backup EXCEPT ![panel'.key] = panel'.value] ELSE panel'.backup
                      /\ Written' /\ panel'.pc = "write" /\ panel'.key \notin doubt' =>
                           \/ WithBackup(panel.key)' = meant'[panel'.key]
                           \/ panel'.key \in ChatKeys /\ environ'[panel'.key] # panel'.backup[panel'.key]
                              /\ panel'.value # panel'.backup[panel'.key]
                      /\ panel'.pc = "replace" =>
                           /\ panel'.key \in ChatKeys
                           /\ panel'.key \notin panel'.paged \cup doubt' => meant'[panel'.key] = panel'.value
                           /\ \A x \in ChatKeys \ (panel'.paged \cup doubt') : override'[x] = panel'.saw[x]
    BY DEF PanelInv, WithBackup
  <2>1. panel # Idle BY <1>17
  <2> DEFINE key == panel.key
  <2>2. key \in Keys /\ panel.backup \in [Keys -> Value] BY <1>13, <2>1 DEF Saving
  <2>3. base' = IF Written' THEN [panel'.backup EXCEPT ![panel'.key] = panel'.value] ELSE panel'.backup
    BY <1>0, <1>3, <1>16, <1>18, <2>1 DEF PanelInv
  <2>4. ASSUME Written, panel.pc = "write", key \notin doubt'
        PROVE  WithBackup(key)' = meant'[key] \/ (key \in ChatKeys /\ environ'[key] # panel'.backup[key] /\ panel'.value # panel'.backup[key])
    <3>1. CASE key # k
      <4>1. key \notin doubt BY <1>3, <1>9, <2>4, <3>1
      <4>2. key \in ChatKeys => override'[key] = override[key] BY <1>3, <1>9, <2>4, <3>1
      <4>3. WithBackup(key)' = WithBackup(key) BY <1>16, <2>1, <4>2 DEF WithBackup
      <4> QED BY <1>0, <1>3, <1>10, <1>16, <2>1, <2>2, <2>4, <3>1, <4>1, <4>3 DEF PanelInv
    <3>2. CASE key = k /\ Keeps(k, v)
      <4>1. key \notin doubt /\ override'[key] = override[key] /\ meant'[key] = meant[key] BY <1>3, <1>12, <2>4, <3>2
      <4>2. WithBackup(key)' = WithBackup(key) BY <1>16, <2>1, <4>1 DEF WithBackup
      <4> QED BY <1>0, <1>3, <1>16, <2>1, <2>4, <4>1, <4>2 DEF PanelInv
    <3>3. CASE key = k /\ ~Keeps(k, v)
      <4>1. CASE present[k] = Missing
        <5>1. environ[k] = base[k] /\ Given(v) = environ[k] BY <1>3, <1>4, <2>4, <3>3, <4>1, SettingsAssumption DEF Value
        <5>2. WithBackup(key)' = panel.backup[key] BY <1>3, <1>16, <2>1, <3>3, <4>1 DEF WithBackup
        <5>3. base[key] = panel.value BY <1>0, <2>1, <2>2, <2>4 DEF PanelInv
        <5> QED BY <1>2, <1>3, <1>11, <1>16, <2>1, <3>3, <5>1, <5>2, <5>3
      <4>2. CASE present[k] # Missing
        <5>1. present[k] = Given(v) BY <1>4, <3>3, <4>2
        <5>2. WithBackup(key)' = present[k] BY <1>2, <1>3, <3>3, <4>2 DEF WithBackup
        <5> QED BY <1>11, <3>3, <5>1, <5>2
      <4> QED BY <4>1, <4>2
    <3> QED BY <3>1, <3>2, <3>3
  <2>5. ASSUME panel.pc = "replace"
        PROVE  /\ key \in ChatKeys
               /\ key \notin panel'.paged \cup doubt' => meant'[key] = panel.value
               /\ \A x \in ChatKeys \ (panel'.paged \cup doubt') : override'[x] = panel.saw[x]
    <3>1. key \in ChatKeys BY <1>0, <2>1, <2>5 DEF PanelInv
    <3>2. ASSUME key \notin panel'.paged \cup doubt' PROVE meant'[key] = panel.value
      <4>1. key # k /\ key \notin panel.paged BY <1>16, <2>1, <3>2
      <4>2. key \notin doubt BY <1>9, <3>1, <3>2, <4>1
      <4> QED BY <1>0, <1>10, <2>1, <2>2, <2>5, <4>1, <4>2 DEF PanelInv
    <3>3. ASSUME NEW x \in ChatKeys, x \notin panel'.paged, x \notin doubt' PROVE override'[x] = panel.saw[x]
      <4>1. x # k /\ x \notin panel.paged BY <1>16, <2>1, <3>3
      <4>2. x \notin doubt /\ override'[x] = override[x] BY <1>3, <1>9, <3>3, <4>1
      <4> QED BY <1>0, <2>1, <2>5, <3>3, <4>1, <4>2 DEF PanelInv
    <3> QED BY <3>1, <3>2, <3>3
  <2> QED BY <1>16, <1>18, <2>1, <2>3, <2>4, <2>5 DEF WithBackup
<1>20. EffectInv'
  <2> SUFFICES ASSUME NEW x \in Keys, x \notin doubt', panel' = Idle \/ x # panel'.key \/ ~Written'
               PROVE  InEffect(x)' = meant'[x]
    BY DEF EffectInv
  <2>1. panel = Idle \/ x # panel.key \/ ~Written BY <1>16, <1>17, <1>18
  <2>2. CASE x # k
    <3>1. x \notin doubt /\ (x \in ChatKeys => override'[x] = override[x]) BY <1>3, <1>9, <2>2
    <3>2. InEffect(x)' = InEffect(x) BY <1>3, <3>1 DEF InEffect
    <3> QED BY <1>0, <1>10, <2>1, <2>2, <3>1, <3>2 DEF EffectInv
  <2>3. CASE x = k /\ Keeps(k, v)
    <3>1. x \notin doubt /\ override'[x] = override[x] /\ meant'[x] = meant[x] BY <1>3, <1>12, <2>3
    <3>2. InEffect(x)' = InEffect(x) BY <1>3, <3>1 DEF InEffect
    <3> QED BY <1>0, <2>1, <3>1, <3>2 DEF EffectInv
  <2>4. CASE x = k /\ ~Keeps(k, v)
    <3>1. CASE present[k] = Missing
      <4>1. environ[k] = base[k] /\ Given(v) = environ[k] BY <1>3, <1>4, <2>4, <3>1, SettingsAssumption DEF Value
      <4> QED BY <1>3, <1>11, <2>4, <3>1, <4>1 DEF InEffect
    <3>2. CASE present[k] # Missing BY <1>2, <1>3, <1>4, <1>11, <2>4, <3>2 DEF InEffect
    <3> QED BY <3>1, <3>2
  <2> QED BY <2>2, <2>3, <2>4
<1> QED BY <1>8, <1>15, <1>19, <1>20 DEF SettingsInv

LEMMA Opened ==
  ASSUME SettingsInv, NEW t \in Pages, NEW k \in ChatKeys, NEW v \in Values \cup {Empty, Null}, Open(t, k, v)
  PROVE  SettingsInv'
<1>1. SettingsTypes /\ PageInv /\ PanelInv /\ EffectInv BY DEF SettingsInv
<1> DEFINE new == [key |-> k, value |-> v, saw |-> override, cleared |-> FALSE]
<1>2. /\ lock = Missing /\ lock' = t /\ page' = [page EXCEPT ![t] = new]
      /\ UNCHANGED <<base, override, environ, panel, meant, doubt>>
  BY DEF Open, Free
<1>3. new \in Transaction BY <1>1 DEF Transaction, Value, SettingsTypes
<1>4. \A q \in Pages : page[q] = Idle BY <1>1, <1>2, SettingsAssumption DEF PageInv
<1>5. SettingsTypes' BY <1>1, <1>2, <1>3 DEF SettingsTypes
<1>6. PageInv' BY <1>1, <1>2, <1>4 DEF PageInv, SettingsTypes
<1>7. PanelInv' BY <1>1, <1>2 DEF PanelInv, Written, WithBackup
<1>8. EffectInv' BY <1>1, <1>2 DEF EffectInv, InEffect, Written
<1> QED BY <1>5, <1>6, <1>7, <1>8 DEF SettingsInv

LEMMA PanelSaved ==
  ASSUME SettingsInv, NEW k \in Keys, NEW v \in Values \cup {Empty, Null}, Save(k, v)
  PROVE  SettingsInv'
<1>1. SettingsTypes /\ PageInv /\ PanelInv /\ EffectInv BY DEF SettingsInv
<1> DEFINE new == [pc |-> "write", key |-> k, value |-> Given(v), backup |-> base, file |-> 1, saw |-> override,
                   paged |-> {}]
<1>2. panel = Idle /\ panel' = new /\ UNCHANGED <<base, override, environ, page, lock, meant, doubt>>
  BY DEF Save
<1>3. new \in Saving BY <1>1 DEF Saving, Given, Value, SettingsTypes
<1>4. ~Written' BY <1>2 DEF Written
<1>5. SettingsTypes' BY <1>1, <1>2, <1>3 DEF SettingsTypes
<1>6. PageInv' BY <1>1, <1>2 DEF PageInv
<1>7. PanelInv' BY <1>2, <1>4 DEF PanelInv
<1>8. EffectInv' BY <1>1, <1>2 DEF EffectInv, InEffect
<1> QED BY <1>5, <1>6, <1>7, <1>8 DEF SettingsInv

LEMMA FileWritten ==
  ASSUME SettingsInv, WriteFile
  PROVE  SettingsInv'
<1>1. SettingsTypes /\ PageInv /\ PanelInv /\ EffectInv BY DEF SettingsInv
<1>2. /\ panel # Idle /\ panel.pc = "write" /\ UNCHANGED <<override, environ, page, lock, meant>>
  BY DEF WriteFile
<1>3. panel \in Saving BY <1>1, <1>2 DEF SettingsTypes
<1>4. PageInv' BY <1>1, <1>2 DEF PageInv
<1>5. panel.key \in Keys /\ panel.value \in Value /\ panel.backup \in [Keys -> Value] /\ panel.file \in 1 .. 3
  BY <1>3 DEF Saving
<1>6. base = IF Written THEN [panel.backup EXCEPT ![panel.key] = panel.value] ELSE panel.backup
  BY <1>1, <1>2 DEF PanelInv
<1> DEFINE key == panel.key
           own == IF Owner[key] = "vessel" THEN 1 ELSE 2
<1>7. Written <=> own < panel.file BY <1>2 DEF Written
<1>8. Owner[key] = "vessel" \/ Owner[key] = "chat" BY <1>5, SettingsAssumption DEF Keys
<1>9. CASE /\ base' = IF Owner[key] = Paths[panel.file] THEN [base EXCEPT ![key] = panel.value] ELSE base
           /\ panel' = IF panel.file = Len(Paths) THEN [panel EXCEPT !.pc = "clear"] ELSE [panel EXCEPT !.file = @ + 1]
           /\ doubt' = doubt
  <2>1. Len(Paths) = 3 /\ (Owner[key] = Paths[panel.file] <=> own = panel.file)
    BY <1>5, <1>8 DEF Paths
  <2>2. /\ panel'.key = key /\ panel'.value = panel.value /\ panel'.backup = panel.backup /\ panel' \in Saving
        /\ IF panel.file = 3 THEN panel'.pc = "clear" /\ panel'.file = panel.file
           ELSE panel'.pc = "write" /\ panel'.file = panel.file + 1
    <3>1. CASE panel.file = 3
      <4>1. panel' = [panel EXCEPT !.pc = "clear"] BY <1>9, <2>1, <3>1
      <4> QED BY <1>3, <3>1, <4>1 DEF Saving
    <3>2. CASE panel.file # 3
      <4>1. panel' = [panel EXCEPT !.file = @ + 1] BY <1>9, <2>1, <3>2
      <4>2. panel.file + 1 \in 1 .. 3 BY <1>5, <3>2
      <4> QED BY <1>2, <1>3, <3>2, <4>1, <4>2 DEF Saving
    <3> QED BY <3>1, <3>2
  <2>3. Written' <=> own \leq panel.file
    <3>1. Written' <=> panel'.pc # "write" \/ own < panel'.file BY <2>2 DEF Written
    <3> QED BY <1>5, <2>2, <3>1
  <2>4. base' = IF Written' THEN [panel.backup EXCEPT ![key] = panel.value] ELSE panel.backup
    <3>1. CASE own = panel.file
      <4>1. ~Written /\ Written' BY <1>5, <1>7, <2>3, <3>1
      <4> QED BY <1>6, <1>9, <2>1, <3>1, <4>1
    <3>2. CASE own # panel.file
      <4>1. Written' <=> Written BY <1>5, <1>7, <2>3, <3>2
      <4>2. base' = base BY <1>9, <2>1, <3>2
      <4> QED BY <1>6, <4>1, <4>2
    <3> QED BY <3>1, <3>2
  <2>5. \A x \in Keys : (x # key \/ ~Written') => base'[x] = base[x]
    <3>1. Written => Written' BY <1>5, <1>7, <2>3
    <3> QED BY <1>5, <1>6, <2>4, <3>1
  <2>6. SettingsTypes'
    <3>1. base' \in [Keys -> Value] BY <1>5, <2>4
    <3> QED BY <1>1, <1>2, <1>9, <2>2, <3>1 DEF SettingsTypes
  <2>7. EffectInv'
    <3>0. panel' # Idle BY <2>2, SavingNotIdle
    <3> SUFFICES ASSUME NEW x \in Keys, x \notin doubt, x # key \/ ~Written' PROVE InEffect(x)' = meant'[x]
      BY <1>9, <2>2, <3>0 DEF EffectInv
    <3>1. x # key \/ ~Written BY <1>5, <1>7, <2>3
    <3>2. InEffect(x)' = InEffect(x) BY <1>2, <2>5 DEF InEffect
    <3> QED BY <1>1, <1>2, <3>1, <3>2 DEF EffectInv
  <2>8. PanelInv'
    <3>1. ASSUME Written', panel'.pc = "write", key \notin doubt
          PROVE  WithBackup(key)' = meant[key]
                 \/ (key \in ChatKeys /\ environ[key] # panel.backup[key] /\ panel.value # panel.backup[key])
      <4>1. WithBackup(key)' = WithBackup(key) BY <1>2, <2>2 DEF WithBackup
      <4>2. CASE Written BY <1>1, <1>2, <3>1, <4>1, <4>2 DEF PanelInv
      <4>3. CASE ~Written
        <5>1. InEffect(key) = meant[key] BY <1>1, <1>5, <3>1, <4>3 DEF EffectInv
        <5>2. InEffect(key) = WithBackup(key) BY <1>6, <4>3 DEF InEffect, WithBackup
        <5> QED BY <4>1, <5>1, <5>2
      <4> QED BY <4>2, <4>3
    <3> QED BY <1>2, <1>9, <2>2, <2>4, <3>1 DEF PanelInv, WithBackup
  <2> QED BY <1>4, <2>6, <2>7, <2>8 DEF SettingsInv
<1>10. CASE base' = panel.backup /\ panel' = Idle /\ doubt' = doubt \cup {k \in ChatKeys : environ[k] # panel.backup[k]}
  <2>1. SettingsTypes' BY <1>1, <1>2, <1>5, <1>10 DEF SettingsTypes, ChatKeys
  <2>2. PanelInv' BY <1>10 DEF PanelInv
  <2>3. EffectInv'
    <3> SUFFICES ASSUME NEW x \in Keys, x \notin doubt' PROVE InEffect(x)' = meant'[x] BY DEF EffectInv
    <3>1. x \notin doubt /\ (x \in ChatKeys => environ[x] = panel.backup[x]) BY <1>10
    <3>2. InEffect(x)' = WithBackup(x) BY <1>2, <1>10 DEF InEffect, WithBackup
    <3>3. CASE x = key /\ Written BY <1>1, <1>2, <3>1, <3>2, <3>3 DEF PanelInv
    <3>4. CASE x # key \/ ~Written
      <4>1. InEffect(x) = meant[x] BY <1>1, <3>1, <3>4 DEF EffectInv
      <4>2. base[x] = panel.backup[x] BY <1>5, <1>6, <3>4
      <4>3. InEffect(x) = WithBackup(x) BY <4>2 DEF InEffect, WithBackup
      <4> QED BY <1>2, <3>2, <4>1, <4>3
    <3> QED BY <3>3, <3>4
  <2> QED BY <1>4, <2>1, <2>2, <2>3 DEF SettingsInv
<1> QED BY <1>9, <1>10 DEF WriteFile

LEMMA OverridesRead ==
  ASSUME SettingsInv, ReadOverrides
  PROVE  SettingsInv'
<1>1. SettingsTypes /\ PageInv /\ PanelInv /\ EffectInv BY DEF SettingsInv
<1> DEFINE key == panel.key
<1>2. /\ panel # Idle /\ panel.pc = "clear" /\ UNCHANGED <<base, override, environ, page, lock>>
      /\ meant' = [meant EXCEPT ![key] = panel.value] /\ doubt' = doubt \ {key}
      /\ panel' = IF Stale(key) THEN [panel EXCEPT !.pc = "replace", !.saw = override, !.paged = {}] ELSE Idle
  BY DEF ReadOverrides
<1>3. panel \in Saving BY <1>1, <1>2 DEF SettingsTypes
<1>4. key \in Keys /\ panel.value \in Value /\ panel.backup \in [Keys -> Value] BY <1>3 DEF Saving
<1>5. Written BY <1>2 DEF Written
<1>6. base = [panel.backup EXCEPT ![key] = panel.value] BY <1>1, <1>2, <1>5 DEF PanelInv
<1>7. \A x \in Keys \ {key} : x \notin doubt => InEffect(x)' = meant'[x]
  <2> SUFFICES ASSUME NEW x \in Keys \ {key}, x \notin doubt PROVE InEffect(x)' = meant'[x] OBVIOUS
  <2>1. InEffect(x)' = InEffect(x) BY <1>2 DEF InEffect
  <2> QED BY <1>1, <1>2, <1>4, <2>1 DEF EffectInv, SettingsTypes
<1>8. meant'[key] = panel.value /\ meant' \in [Keys -> Value] BY <1>1, <1>2, <1>4 DEF SettingsTypes
<1>9. PageInv' BY <1>1, <1>2 DEF PageInv
<1>10. CASE Stale(key)
  <2>1. panel' = [panel EXCEPT !.pc = "replace", !.saw = override, !.paged = {}] BY <1>2, <1>10
  <2>2. panel' \in Saving BY <1>1, <1>3, <2>1 DEF Saving, SettingsTypes
  <2>3. /\ panel'.pc = "replace" /\ panel'.key = key /\ panel'.value = panel.value /\ panel'.backup = panel.backup
        /\ panel'.saw = override /\ panel'.paged = {}
    BY <1>3, <2>1 DEF Saving
  <2>4. Written' BY <2>3 DEF Written
  <2>5. SettingsTypes' BY <1>1, <1>2, <1>8, <2>2 DEF SettingsTypes
  <2>6. PanelInv'
    <3>1. key \in ChatKeys BY <1>10 DEF Stale
    <3> QED BY <1>2, <1>6, <1>8, <2>3, <2>4, <3>1 DEF PanelInv
  <2>7. EffectInv'
    <3>1. panel' # Idle BY <2>2, SavingNotIdle
    <3> QED BY <1>2, <1>7, <2>3, <2>4, <3>1 DEF EffectInv
  <2> QED BY <1>9, <2>5, <2>6, <2>7 DEF SettingsInv
<1>11. CASE ~Stale(key)
  <2>1. panel' = Idle BY <1>2, <1>11
  <2>2. SettingsTypes' BY <1>1, <1>2, <1>8, <2>1 DEF SettingsTypes
  <2>3. PanelInv' BY <2>1 DEF PanelInv
  <2>4. ASSUME NEW x \in Keys, x = key PROVE InEffect(x)' = meant'[x]
    <3>1. base'[key] = panel.value BY <1>2, <1>4, <1>6
    <3> QED BY <1>2, <1>8, <1>11, <2>4, <3>1 DEF InEffect, Stale
  <2>5. EffectInv' BY <1>2, <1>7, <2>4 DEF EffectInv
  <2> QED BY <1>9, <2>2, <2>3, <2>5 DEF SettingsInv
<1> QED BY <1>10, <1>11

LEMMA OverridesReplaced ==
  ASSUME SettingsInv, ReplaceOverrides
  PROVE  SettingsInv'
<1>1. SettingsTypes /\ PageInv /\ PanelInv /\ EffectInv BY DEF SettingsInv
<1> DEFINE key == panel.key
<1>2. /\ panel # Idle /\ panel.pc = "replace" /\ UNCHANGED <<base, environ, lock, meant>>
      /\ override' = [panel.saw EXCEPT ![key] = Missing] /\ doubt' = doubt \cup panel.paged
      /\ page' = [t \in Pages |-> IF page[t] = Idle THEN Idle ELSE [page[t] EXCEPT !.cleared = TRUE]]
      /\ panel' = Idle
  BY DEF ReplaceOverrides
<1>3. panel \in Saving BY <1>1, <1>2 DEF SettingsTypes
<1>4. /\ key \in Keys /\ panel.backup \in [Keys -> Value] /\ panel.saw \in [ChatKeys -> Value \cup {Missing}]
      /\ panel.paged \subseteq ChatKeys
  BY <1>3 DEF Saving
<1>5. /\ key \in ChatKeys
      /\ key \notin panel.paged \cup doubt => meant[key] = panel.value
      /\ \A x \in ChatKeys \ (panel.paged \cup doubt) : override[x] = panel.saw[x]
  BY <1>1, <1>2 DEF PanelInv
<1>6. base = [panel.backup EXCEPT ![key] = panel.value] BY <1>1, <1>2 DEF PanelInv, Written
<1>7. SettingsTypes'
  <2>1. page' \in [Pages -> Transaction \cup {Idle}]
    <3> SUFFICES ASSUME NEW t \in Pages, page[t] # Idle PROVE [page[t] EXCEPT !.cleared = TRUE] \in Transaction
      BY <1>2
    <3>1. page[t] \in Transaction BY <1>1 DEF SettingsTypes
    <3> QED BY <3>1 DEF Transaction
  <2>2. override' \in [ChatKeys -> Value \cup {Missing}] BY <1>2, <1>4
  <2>3. doubt' \subseteq Keys BY <1>1, <1>2, <1>4 DEF SettingsTypes, ChatKeys
  <2> QED BY <1>1, <1>2, <2>1, <2>2, <2>3 DEF SettingsTypes
<1>8. PageInv'
  <2> SUFFICES ASSUME NEW t \in Pages, page'[t] # Idle PROVE lock' = t /\ page'[t].cleared
    BY DEF PageInv
  <2>1. page[t] # Idle BY <1>2
  <2>2. page[t] \in Transaction BY <1>1, <2>1 DEF SettingsTypes
  <2>3. page'[t] = [page[t] EXCEPT !.cleared = TRUE] BY <1>2, <2>1
  <2>4. page'[t].cleared BY <2>2, <2>3 DEF Transaction
  <2> QED BY <1>1, <1>2, <2>1, <2>4 DEF PageInv
<1>9. PanelInv' BY <1>2 DEF PanelInv
<1>10. EffectInv'
  <2> SUFFICES ASSUME NEW x \in Keys, x \notin doubt' PROVE InEffect(x)' = meant'[x] BY DEF EffectInv
  <2>1. x \notin panel.paged /\ x \notin doubt BY <1>2
  <2>2. CASE x = key
    <3>1. override'[key] = Missing BY <1>2, <1>4, <1>5
    <3>2. base'[key] = panel.value BY <1>2, <1>4, <1>6
    <3> QED BY <1>2, <1>5, <2>1, <2>2, <3>1, <3>2 DEF InEffect
  <2>3. CASE x # key
    <3>1. x \in ChatKeys => override'[x] = override[x] BY <1>2, <1>4, <1>5, <2>1, <2>3
    <3>2. InEffect(x)' = InEffect(x) BY <1>2, <3>1 DEF InEffect
    <3> QED BY <1>1, <1>2, <2>1, <2>3, <3>2 DEF EffectInv
  <2> QED BY <2>2, <2>3
<1> QED BY <1>7, <1>8, <1>9, <1>10 DEF SettingsInv

LEMMA PanelDied ==
  ASSUME SettingsInv, PanelDies
  PROVE  SettingsInv'
<1>1. SettingsTypes /\ PageInv /\ PanelInv /\ EffectInv BY DEF SettingsInv
<1>2. panel # Idle /\ panel' = Idle /\ doubt' = doubt \cup {panel.key}
      /\ UNCHANGED <<base, override, environ, page, lock, meant>>
  BY DEF PanelDies
<1>3. panel.key \in Keys BY <1>1, <1>2 DEF SettingsTypes, Saving
<1>4. SettingsTypes' BY <1>1, <1>2, <1>3 DEF SettingsTypes
<1>5. PageInv' BY <1>1, <1>2 DEF PageInv
<1>6. PanelInv' BY <1>2 DEF PanelInv
<1>7. EffectInv' BY <1>1, <1>2 DEF EffectInv, InEffect
<1> QED BY <1>4, <1>5, <1>6, <1>7 DEF SettingsInv

LEMMA Restarted ==
  ASSUME SettingsInv, Restart
  PROVE  SettingsInv'
<1>1. SettingsTypes /\ PageInv /\ PanelInv /\ EffectInv BY DEF SettingsInv
<1>2. /\ environ' = [k \in ChatKeys |-> base[k]] /\ page' = [t \in Pages |-> Idle]
      /\ UNCHANGED <<base, override, panel, meant, doubt>>
  BY DEF Restart
<1>3. SettingsTypes' BY <1>1, <1>2 DEF SettingsTypes, ChatKeys
<1>4. PageInv' BY <1>2 DEF PageInv
<1>5. EffectInv' BY <1>1, <1>2 DEF EffectInv, InEffect, Written
<1>6. PanelInv'
  <2>1. ASSUME panel # Idle, Written, panel.pc = "write", panel.key \notin doubt
        PROVE  \/ WithBackup(panel.key) = meant[panel.key]
               \/ /\ panel.key \in ChatKeys /\ environ'[panel.key] # panel.backup[panel.key]
                  /\ panel.value # panel.backup[panel.key]
    <3>1. panel.key \in Keys /\ panel.backup \in [Keys -> Value] BY <1>1, <2>1 DEF SettingsTypes, Saving
    <3>2. base[panel.key] = panel.value BY <1>1, <2>1, <3>1 DEF PanelInv
    <3>3. panel.key \in ChatKeys => environ'[panel.key] = panel.value BY <1>2, <3>2
    <3> QED BY <1>1, <2>1, <3>3 DEF PanelInv
  <2> QED BY <1>1, <1>2, <2>1 DEF PanelInv, Written, WithBackup
<1> QED BY <1>3, <1>4, <1>5, <1>6 DEF SettingsInv

LEMMA SettingsKept == SettingsInv /\ [SettingsNext]_settingsVars => SettingsInv'
<1> SUFFICES ASSUME SettingsInv, [SettingsNext]_settingsVars PROVE SettingsInv' OBVIOUS
<1>1. CASE \E t \in Pages : Commit(t) BY <1>1, Committed
<1>2. CASE \E t \in Pages, k \in ChatKeys, v \in Values \cup {Empty, Null} : Open(t, k, v) BY <1>2, Opened
<1>3. CASE \E k \in Keys, v \in Values \cup {Empty, Null} : Save(k, v) BY <1>3, PanelSaved
<1>4. CASE WriteFile BY <1>4, FileWritten
<1>5. CASE ReadOverrides BY <1>5, OverridesRead
<1>6. CASE ReplaceOverrides BY <1>6, OverridesReplaced
<1>7. CASE PanelDies BY <1>7, PanelDied
<1>8. CASE Restart BY <1>8, Restarted
<1>9. CASE UNCHANGED settingsVars
  <2>1. UNCHANGED <<base, override, environ, page, lock, panel, meant, doubt>> BY <1>9 DEF settingsVars
  <2> QED BY <2>1 DEF SettingsInv, SettingsTypes, PageInv, PanelInv, EffectInv, InEffect, Written, WithBackup
<1> QED BY <1>1, <1>2, <1>3, <1>4, <1>5, <1>6, <1>7, <1>8, <1>9 DEF SettingsNext

(* Whatever the keys, the values and the number of page requests, and        *)
(* wherever the two writers meet, a save is refused, the panel dies or Boat  *)
(* Chat restarts: once no panel save is under way, every key that no overlap *)
(* decides (doubt) is at the next start what its last finished save gave it. *)
THEOREM SettingsHold == SettingsSpec => []SettingsStand
<1>1. SettingsInv => SettingsStand BY DEF SettingsInv, EffectInv, SettingsStand
<1> QED BY <1>1, SettingsStart, SettingsKept, PTL DEF SettingsSpec

-----------------------------------------------------------------------------
(* A deployment of Boat Chat.                                                *)

\* A receipt: of some files, what they were and what the commit makes of them.
Receipt ==
  UNION {[before : [S -> Known], after : [S -> Known], units : SUBSET Units] : S \in SUBSET Names}

Deploying ==
  [pc : {"test", "compare", "write", "restart", "validate", "restore"}, sha : Commits,
   receipt : Receipt \cup {Nothing}, todo : SUBSET (Names \cup Units), units : SUBSET Units,
   then : {"", "deployed", "failed", "manual", "partial"}]

DeployTypes ==
  /\ origin \in Commits /\ checkout \in [head : Commits, dirty : BOOLEAN]
  /\ installed \in [Names -> Known]
  /\ running \in [Units -> [Names -> Known] \cup {Nothing}]
  /\ receipts \subseteq Receipt /\ edits \in Nat
  /\ helper # Nothing => helper \in Deploying

\* A receipt of the bot's file restarts the bot's unit, unless that unit is off: it stays off then.
ReceiptInv ==
  \A r \in receipts :
    /\ "chat" \in r.units /\ ("telegram" \in r.units => running["telegram"] # Nothing)
    /\ BotFile \in DOMAIN r.after /\ running["telegram"] # Nothing => "telegram" \in r.units

\* A file that the helper has dealt with is as it was meant to be, or edited since.
Holds(version, f) == installed[f] \in {version[f], Edited}
CommitHolds == \A f \in Names \ helper.todo : Content[helper.sha][f] # Absent => Holds(Content[helper.sha], f)
BackupHolds == \A f \in DOMAIN helper.receipt.after \ helper.todo : Holds(helper.receipt.before, f)

HelperInv ==
  helper # Nothing =>
    /\ helper.pc \in {"test", "compare", "write"} => helper.sha \in Signed /\ helper.then = ""
    /\ helper.pc \in {"write", "restart", "validate", "restore"} =>
         helper.receipt \in receipts /\ helper.units = helper.receipt.units
    /\ helper.pc = "write" =>
         /\ \A f \in DOMAIN helper.receipt.after : Content[helper.sha][f] # Absent
         /\ helper.todo \subseteq DOMAIN helper.receipt.after /\ CommitHolds
    /\ helper.pc \in {"validate", "restore"} => helper.then \in {"failed", "manual", "partial"}
    /\ helper.pc = "restore" => helper.todo \subseteq DOMAIN helper.receipt.after /\ BackupHolds
    /\ helper.pc = "restart" =>
         /\ helper.todo \subseteq helper.units /\ helper.then \in {"deployed", "failed", "manual"}
         /\ \A u \in helper.units \ helper.todo : edits = 0 => running[u] = installed
         /\ IF helper.then = "deployed"
            THEN \A f \in Names : Content[helper.sha][f] # Absent => Holds(Content[helper.sha], f)
            ELSE \A f \in DOMAIN helper.receipt.after : Holds(helper.receipt.before, f)

\* A unit that is owed no start runs what is installed, of the files it uses.
RunsFiles(u) == running[u] # Nothing => \A f \in Uses(u) : running[u][f] = installed[f]
OwedInv == edits = 0 => \A u \in Units \ owed : RunsFiles(u)

DeployInv == DeployTypes /\ ReceiptInv /\ HelperInv


LEMMA InstalledIsSomething == \A x \in [Names -> Known] : x # Nothing
  <1>1. DOMAIN Nothing = {} BY DEF Nothing
  <1>2. Names # {} BY DeployAssumption
  <1> QED BY <1>1, <1>2

LEMMA DeployingIsSomething == \A h \in Deploying : h # Nothing
  <1>1. DOMAIN Nothing = {} BY DEF Nothing
  <1>2. \A h \in Deploying : "pc" \in DOMAIN h BY DEF Deploying
  <1> QED BY <1>1, <1>2

LEMMA ReceiptFacts ==
  ASSUME NEW r \in Receipt
  PROVE  /\ DOMAIN r.before = DOMAIN r.after /\ DOMAIN r.after \subseteq Names /\ r.units \subseteq Units
         /\ \A f \in DOMAIN r.after : r.before[f] \in Known
  <1>1. PICK S \in SUBSET Names : r \in [before : [S -> Known], after : [S -> Known], units : SUBSET Units]
    BY DEF Receipt
  <1> QED BY <1>1

LEMMA CommitKnown == \A c \in Signed, f \in Names : Content[c][f] \in Known
  BY DEF Known

LEMMA DeployStarts == DeployInit => DeployInv
  <1> SUFFICES ASSUME DeployInit PROVE DeployInv OBVIOUS
  <1> USE DEF DeployInit
  <1>1. PICK c \in Signed : checkout = [head |-> c, dirty |-> FALSE] /\ installed = Content[c] OBVIOUS
  <1>2. c \in Commits /\ installed = [f \in Names |-> Content[c][f]] BY <1>1, DeployAssumption
  <1>3. installed \in [Names -> Known] BY <1>2, <1>1, CommitKnown
  <1>4. running \in [Units -> [Names -> Known] \cup {Nothing}] BY <1>3
  <1>5. DeployTypes BY <1>1, <1>2, <1>3, <1>4 DEF DeployTypes
  <1> QED BY <1>5 DEF DeployInv, ReceiptInv, HelperInv


-----------------------------------------------------------------------------
(* The steps of the others, and of the helper up to its receipt.             *)

LEMMA ReceiptsStay ==
  receipts' = receipts /\ (running["telegram"]' = Nothing <=> running["telegram"] = Nothing) /\ ReceiptInv => ReceiptInv'
  BY DEF ReceiptInv

\* Nothing that the invariant of the helper is about changes, but the edits.
LEMMA HelperStays == UNCHANGED <<helper, receipts, installed, running, edits>> /\ HelperInv => HelperInv'
  BY DEF HelperInv, CommitHolds, BackupHolds, Holds

LEMMA EditKeeps ==
  ASSUME DeployInv, NEW f \in Names, Edit(f)
  PROVE  DeployInv'
  <1> USE DEF Edit
  <1>1. Edited \in Known BY DEF Known
  <1>2. DeployTypes' BY <1>1 DEF DeployInv, DeployTypes
  <1>3. \A x, v : Holds(v, x) => Holds(v, x)' BY DEF DeployInv, DeployTypes, Holds
  <1>4. edits' # 0 BY DEF DeployInv, DeployTypes
  <1>5. HelperInv' BY <1>3, <1>4 DEF DeployInv, HelperInv, CommitHolds, BackupHolds
  <1> QED BY <1>2, <1>5, ReceiptsStay DEF DeployInv

LEMMA OthersKeep ==
  ASSUME DeployInv, NEW c \in Commits, NEW d \in BOOLEAN, Push(c) \/ Develop(c, d)
  PROVE  DeployInv'
  <1>1. DeployTypes' BY DEF DeployInv, DeployTypes, Push, Develop
  <1> QED BY <1>1, ReceiptsStay, HelperStays DEF DeployInv, Push, Develop

\* A run that ends leaves nothing to be said of it.
LEMMA EndKeeps ==
  ASSUME DeployInv, helper' = Nothing,
         UNCHANGED <<origin, receipts, installed, running, edits>>, checkout' \in [head : Commits, dirty : BOOLEAN]
  PROVE  DeployInv'
  BY ReceiptsStay DEF DeployInv, DeployTypes, HelperInv

LEMMA StartKeeps ==
  ASSUME DeployInv, NEW pull \in BOOLEAN, Start(pull)
  PROVE  DeployInv'
  <1> DEFINE sha == IF pull THEN origin ELSE checkout.head
  <1>1. sha \in Commits BY DEF DeployInv, DeployTypes
  <1>2. CASE checkout.dirty \/ sha \notin Signed
    BY <1>2, EndKeeps DEF DeployInv, DeployTypes, Start, End
  <1>3. CASE ~(checkout.dirty \/ sha \notin Signed)
    <2>1. helper' = [pc |-> "test", sha |-> sha, receipt |-> Nothing, todo |-> {}, units |-> {}, then |-> ""]
      BY <1>3 DEF Start
    <2>2. helper' \in Deploying BY <2>1, <1>1 DEF Deploying
    <2>3. DeployTypes' BY <2>2, <1>1, <1>3 DEF Start, DeployInv, DeployTypes
    <2>4. HelperInv' BY <2>1, <1>3 DEF HelperInv
    <2> QED BY <2>3, <2>4, ReceiptsStay DEF DeployInv, Start
  <1> QED BY <1>2, <1>3

LEMMA TestKeeps == DeployInv /\ Test => DeployInv'
  <1> SUFFICES ASSUME DeployInv, Test PROVE DeployInv' OBVIOUS
  <1>1. CASE End("refused") BY <1>1, EndKeeps DEF DeployInv, DeployTypes, Test, End
  <1>2. CASE Goto("compare")
    <2>1. helper' \in Deploying /\ helper'.pc = "compare" /\ helper'.sha = helper.sha /\ helper'.then = helper.then
      BY <1>2 DEF Test, At, Goto, DeployInv, DeployTypes, Deploying
    <2>2. DeployTypes' BY <2>1 DEF Test, DeployInv, DeployTypes
    <2>3. HelperInv' BY <2>1 DEF Test, At, DeployInv, HelperInv
    <2> QED BY <2>2, <2>3, ReceiptsStay DEF DeployInv, Test
  <1> QED BY <1>1, <1>2 DEF Test

LEMMA CompareKeeps == DeployInv /\ Compare => DeployInv'
  <1> SUFFICES ASSUME DeployInv, Compare PROVE DeployInv' OBVIOUS
  <1>1. CASE ~Unchanged \/ Changed = {} BY <1>1, EndKeeps DEF DeployInv, DeployTypes, Compare, End, world
  <1>2. CASE Unchanged /\ Changed # {}
    <2> DEFINE receipt == [before |-> [f \in Changed |-> installed[f]],
                           after |-> [f \in Changed |-> Content[Tree][f]], units |-> RestartPlan]
    <2>1. /\ receipts' = receipts \cup {receipt}
          /\ helper' = [helper EXCEPT !.pc = "write", !.receipt = receipt, !.units = RestartPlan, !.todo = Changed]
      BY <1>2 DEF Compare
    <2>2. helper \in Deploying /\ helper.sha \in Signed /\ helper.then = ""
      BY DEF Compare, At, DeployInv, DeployTypes, HelperInv
    <2>3. Changed \subseteq Names /\ RestartPlan \subseteq Units /\ "chat" \in RestartPlan
      BY DEF Changed, RestartPlan, Units
    <2>4. receipt \in Receipt
      <3>1. \A f \in Changed : installed[f] \in Known /\ Content[Tree][f] \in Known
        BY <2>2, <2>3, CommitKnown DEF DeployInv, DeployTypes, Tree
      <3>2. receipt \in [before : [Changed -> Known], after : [Changed -> Known], units : SUBSET Units] BY <3>1, <2>3
      <3> QED BY <3>2, <2>3 DEF Receipt
    <2> HIDE DEF receipt
    <2>5. helper' \in Deploying BY <2>1, <2>2, <2>3, <2>4 DEF Deploying
    <2>6. /\ helper'.pc = "write" /\ helper'.receipt = receipt /\ helper'.units = receipt.units
          /\ helper'.todo = Changed /\ helper'.sha = helper.sha /\ helper'.then = ""
      BY <2>1, <2>2 DEF Deploying, receipt
    <2>7. DeployTypes' BY <2>1, <2>4, <2>5 DEF Compare, world, DeployInv, DeployTypes
    <2>8. DOMAIN receipt.after = Changed BY DEF receipt
    <2>9. ReceiptInv'
      <3>1. "telegram" \in RestartPlan <=> BotFile \in Changed /\ running["telegram"] # Nothing BY DEF RestartPlan, Units
      <3>2. receipt.units = RestartPlan BY DEF receipt
      <3> QED BY <2>1, <2>3, <2>8, <3>1, <3>2 DEF Compare, DeployInv, ReceiptInv
    <2>10. \A f \in Names \ Changed : Content[helper.sha][f] # Absent => installed[f] = Content[helper.sha][f]
      BY DEF Changed, Tree
    <2>11. CommitHolds' BY <2>6, <2>10 DEF CommitHolds, Holds, Compare
    <2>12. HelperInv'
      <3>1. \A f \in Changed : Content[helper.sha][f] # Absent BY DEF Changed, Tree
      <3>2. helper'.receipt \in receipts'
        <4>1. receipts' = receipts \cup {receipt} BY <2>1
        <4>2. helper'.receipt = receipt BY <2>6
        <4> QED BY <4>1, <4>2
      <3> QED BY <2>2, <2>6, <2>8, <2>11, <3>1, <3>2 DEF HelperInv
    <2> QED BY <2>7, <2>9, <2>12 DEF DeployInv
  <1> QED BY <1>1, <1>2

-----------------------------------------------------------------------------
(* The steps of a deployment and of a rollback.                              *)

\* What is known of the receipt the helper works from.
LEMMA WorkedReceipt ==
  ASSUME DeployInv, helper # Nothing, helper.pc \in {"write", "restart", "validate", "restore"}
  PROVE  /\ helper \in Deploying /\ helper.receipt \in receipts /\ helper.receipt \in Receipt
         /\ helper.units = helper.receipt.units
  BY DEF DeployInv, DeployTypes, HelperInv

LEMMA InstallKeeps ==
  ASSUME DeployInv, NEW f \in Names, InstallFile(f)
  PROVE  DeployInv'
  <1>1. /\ helper \in Deploying /\ helper.pc = "write" /\ helper # Nothing /\ f \in helper.todo
        /\ helper.sha \in Signed /\ helper.then = "" /\ helper.receipt \in receipts /\ helper.units = helper.receipt.units
    BY DEF InstallFile, At, IsFirst, DeployInv, DeployTypes, HelperInv
  <1>2. CASE installed' = [installed EXCEPT ![f] = Content[Tree][f]] /\ Done(f)
    <2>1. Content[Tree][f] \in Known BY <1>1, CommitKnown DEF Tree
    <2>2. /\ helper' \in Deploying /\ helper'.pc = "write" /\ helper'.todo = helper.todo \ {f}
          /\ helper'.sha = helper.sha /\ helper'.then = "" /\ helper'.receipt = helper.receipt /\ helper'.units = helper.units
      BY <1>1, <1>2 DEF Done, Deploying
    <2>3. DeployTypes' BY <1>2, <2>1, <2>2 DEF InstallFile, world, DeployInv, DeployTypes
    <2>4. CommitHolds'
      BY <1>1, <1>2, <2>2 DEF DeployInv, DeployTypes, HelperInv, CommitHolds, Holds, Tree
    <2>5. HelperInv' BY <1>1, <2>2, <2>4 DEF DeployInv, HelperInv, InstallFile
    <2> QED BY <2>3, <2>5, ReceiptsStay DEF InstallFile, DeployInv
  <1>3. CASE helper' = [helper EXCEPT !.pc = "validate", !.then = "partial"] /\ UNCHANGED installed
    <2>1. /\ helper' \in Deploying /\ helper'.pc = "validate" /\ helper'.then = "partial"
          /\ helper'.receipt = helper.receipt /\ helper'.units = helper.units
      BY <1>1, <1>3 DEF Deploying
    <2>2. DeployTypes' BY <1>3, <2>1 DEF InstallFile, world, DeployInv, DeployTypes
    <2>3. HelperInv' BY <1>1, <2>1 DEF HelperInv, InstallFile
    <2> QED BY <2>2, <2>3, ReceiptsStay DEF InstallFile, DeployInv
  <1> QED BY <1>2, <1>3 DEF InstallFile

LEMMA AllInstalledKeeps == DeployInv /\ AllInstalled => DeployInv'
  <1> SUFFICES ASSUME DeployInv, AllInstalled PROVE DeployInv' OBVIOUS
  <1>1. /\ helper \in Deploying /\ helper.pc = "write" /\ helper # Nothing /\ helper.todo = {}
        /\ helper.receipt \in receipts /\ helper.units = helper.receipt.units /\ CommitHolds
    BY DEF AllInstalled, At, DeployInv, DeployTypes, HelperInv
  <1>2. /\ helper' \in Deploying /\ helper'.pc = "restart" /\ helper'.then = "deployed" /\ helper'.todo = helper.units
        /\ helper'.sha = helper.sha /\ helper'.receipt = helper.receipt /\ helper'.units = helper.units
    BY <1>1 DEF AllInstalled, Deploying
  <1>3. DeployTypes' BY <1>2 DEF AllInstalled, world, DeployInv, DeployTypes
  <1>4. (\A f \in Names : Content[helper.sha][f] # Absent => Holds(Content[helper.sha], f))'
    BY <1>1, <1>2 DEF CommitHolds, Holds, AllInstalled
  <1>5. helper'.receipt \in receipts' BY <1>1, <1>2 DEF AllInstalled
  <1>6. helper'.units \ helper'.todo = {} BY <1>2
  <1>7. HelperInv'
    <2>1. /\ helper'.pc = "restart" /\ helper'.receipt \in receipts' /\ helper'.units = helper'.receipt.units
          /\ helper'.todo \subseteq helper'.units /\ helper'.then = "deployed"
      BY <1>1, <1>2, <1>5
    <2>2. \A u \in helper'.units \ helper'.todo : edits' = 0 => running'[u] = installed' BY <1>6
    <2> QED BY <2>1, <2>2, <1>4 DEF HelperInv
  <1> QED BY <1>3, <1>7, ReceiptsStay DEF AllInstalled, DeployInv

\* A restart that fails: of a deployment it is rolled back, of a rollback it ends the run.
LEMMA RestartFails ==
  ASSUME DeployInv, At("restart"), UNCHANGED <<origin, checkout, installed, running, receipts, edits>>,
         IF helper.then = "deployed" THEN helper' = [helper EXCEPT !.pc = "validate", !.then = "failed"] /\ UNCHANGED outcome
         ELSE RecoveryFailed
  PROVE  DeployInv'
  <1>1. CASE helper.then # "deployed" BY <1>1, EndKeeps DEF RecoveryFailed, End, DeployInv, DeployTypes
  <1>2. CASE helper.then = "deployed"
    <2>1. /\ helper \in Deploying /\ helper # Nothing /\ helper.receipt \in receipts /\ helper.units = helper.receipt.units
      BY WorkedReceipt DEF At
    <2>2. /\ helper' \in Deploying /\ helper'.pc = "validate" /\ helper'.then = "failed"
          /\ helper'.receipt = helper.receipt /\ helper'.units = helper.units
      BY <1>2, <2>1 DEF Deploying
    <2>3. DeployTypes' BY <2>2 DEF DeployInv, DeployTypes
    <2>4. HelperInv' BY <2>1, <2>2 DEF HelperInv
    <2> QED BY <2>3, <2>4, ReceiptsStay DEF DeployInv
  <1> QED BY <1>1, <1>2

LEMMA RestartKeeps ==
  ASSUME DeployInv, NEW u \in Units, RestartUnit(u)
  PROVE  DeployInv'
  <1>1. CASE ~(running' = [running EXCEPT ![u] = installed] /\ Done(u))
    BY <1>1, RestartFails DEF RestartUnit, world
  <1>2. CASE running' = [running EXCEPT ![u] = installed] /\ Done(u)
    <2>1. /\ helper \in Deploying /\ helper # Nothing /\ helper.pc = "restart" /\ helper.receipt \in receipts
          /\ helper.units = helper.receipt.units /\ u \in helper.todo
      BY WorkedReceipt DEF RestartUnit, At, IsFirst
    <2>2. /\ helper' \in Deploying /\ helper'.pc = "restart" /\ helper'.then = helper.then /\ helper'.sha = helper.sha
          /\ helper'.todo = helper.todo \ {u} /\ helper'.receipt = helper.receipt /\ helper'.units = helper.units
      BY <1>2, <2>1 DEF Done, Deploying
    <2>3. DeployTypes' BY <1>2, <2>2 DEF RestartUnit, world, DeployInv, DeployTypes
    <2>4. running["telegram"]' = Nothing <=> running["telegram"] = Nothing
      <3>1. u = "telegram" => running["telegram"] # Nothing
        BY <2>1 DEF DeployInv, ReceiptInv, HelperInv
      <3> QED BY <1>2, <3>1, InstalledIsSomething DEF DeployInv, DeployTypes, Units
    <2>5. \A x \in helper.units \ helper'.todo : edits = 0 => running'[x] = installed
      BY <1>2, <2>1, <2>2 DEF DeployInv, DeployTypes, HelperInv, Deploying
    <2>6. UNCHANGED <<installed, edits, receipts>> BY DEF RestartUnit, world
    <2>7. HelperInv' BY <2>1, <2>2, <2>5, <2>6 DEF DeployInv, HelperInv, Holds
    <2> QED BY <2>3, <2>4, <2>6, <2>7, ReceiptsStay DEF DeployInv
  <1> QED BY <1>1, <1>2

LEMMA ReadyKeeps == DeployInv /\ Ready => DeployInv'
  <1> SUFFICES ASSUME DeployInv, Ready PROVE DeployInv' OBVIOUS
  <1>1. CASE helper' = Nothing BY <1>1, EndKeeps DEF Ready, world, DeployInv, DeployTypes
  <1>2. CASE helper' # Nothing
    BY <1>2, RestartFails DEF Ready, End, world
  <1> QED BY <1>1, <1>2

LEMMA RollbackKeeps ==
  ASSUME DeployInv, NEW receipt \in receipts, StartRollback(receipt)
  PROVE  DeployInv'
  <1>1. receipt \in Receipt BY DEF DeployInv, DeployTypes
  <1>2. /\ receipt.units \subseteq Units /\ checkout.head \in Commits BY <1>1, ReceiptFacts DEF DeployInv, DeployTypes
  <1>3. helper' = [pc |-> "validate", sha |-> checkout.head, receipt |-> receipt, todo |-> {},
                   units |-> receipt.units, then |-> "manual"]
    BY DEF StartRollback
  <1>4. helper' \in Deploying BY <1>1, <1>2, <1>3 DEF Deploying
  <1>5. DeployTypes' BY <1>4 DEF StartRollback, world, DeployInv, DeployTypes
  <1>6. HelperInv' BY <1>3 DEF HelperInv, StartRollback
  <1> QED BY <1>5, <1>6, ReceiptsStay DEF StartRollback, DeployInv

LEMMA ValidateKeeps == DeployInv /\ Validate => DeployInv'
  <1> SUFFICES ASSUME DeployInv, Validate PROVE DeployInv' OBVIOUS
  <1>1. CASE End("edits block it") BY <1>1, EndKeeps DEF Validate, End, world, DeployInv, DeployTypes
  <1>2. CASE helper' = [helper EXCEPT !.pc = "restore", !.todo = DOMAIN helper.receipt.after]
    <2>1. /\ helper \in Deploying /\ helper # Nothing /\ helper.receipt \in receipts /\ helper.receipt \in Receipt
          /\ helper.units = helper.receipt.units
      BY WorkedReceipt DEF Validate, At
    <2>2. DOMAIN helper.receipt.after \subseteq Names BY <2>1, ReceiptFacts
    <2>3. helper.then \in {"failed", "manual", "partial"} BY DEF Validate, At, DeployInv, HelperInv
    <2>4. /\ helper' \in Deploying /\ helper'.pc = "restore" /\ helper'.then = helper.then
          /\ helper'.todo = DOMAIN helper.receipt.after
          /\ helper'.receipt = helper.receipt /\ helper'.units = helper.units
      BY <1>2, <2>1, <2>2 DEF Deploying
    <2>5. DeployTypes' BY <2>4 DEF Validate, world, DeployInv, DeployTypes
    <2>6. BackupHolds' BY <2>4 DEF BackupHolds
    <2>7. helper'.receipt \in receipts' BY <2>1, <2>4 DEF Validate
    <2>8. HelperInv' BY <2>1, <2>3, <2>4, <2>6, <2>7 DEF HelperInv
    <2> QED BY <2>5, <2>8, ReceiptsStay DEF Validate, DeployInv
  <1> QED BY <1>1, <1>2 DEF Validate

LEMMA RestoreKeeps ==
  ASSUME DeployInv, NEW f \in Names, RestoreFile(f)
  PROVE  DeployInv'
  <1>1. CASE helper' = Nothing /\ UNCHANGED installed
    BY <1>1, EndKeeps DEF RestoreFile, world, DeployInv, DeployTypes
  <1>2. CASE installed' = [installed EXCEPT ![f] = helper.receipt.before[f]] /\ Done(f)
    <2>1. /\ helper \in Deploying /\ helper # Nothing /\ helper.pc = "restore" /\ helper.receipt \in receipts
          /\ helper.receipt \in Receipt /\ helper.units = helper.receipt.units /\ f \in helper.todo
      BY WorkedReceipt DEF RestoreFile, At, IsFirst
    <2>2. /\ helper.todo \subseteq DOMAIN helper.receipt.after /\ BackupHolds
          /\ helper.then \in {"failed", "manual", "partial"}
      BY <2>1 DEF DeployInv, HelperInv
    <2>3. helper.receipt.before[f] \in Known /\ DOMAIN helper.receipt.after \subseteq Names
      BY <2>1, <2>2, ReceiptFacts
    <2>4. /\ helper' \in Deploying /\ helper'.pc = "restore" /\ helper'.then = helper.then
          /\ helper'.todo = helper.todo \ {f} /\ helper'.receipt = helper.receipt /\ helper'.units = helper.units
      BY <1>2, <2>1 DEF Done, Deploying
    <2>5. DeployTypes' BY <1>2, <2>3, <2>4 DEF RestoreFile, world, DeployInv, DeployTypes
    <2>6. BackupHolds'
      BY <1>2, <2>2, <2>3, <2>4 DEF BackupHolds, Holds, DeployInv, DeployTypes
    <2>7. helper'.receipt \in receipts' BY <2>1, <2>4 DEF RestoreFile
    <2>8. HelperInv' BY <2>1, <2>2, <2>4, <2>6, <2>7 DEF HelperInv
    <2> QED BY <2>5, <2>8, ReceiptsStay DEF RestoreFile, DeployInv
  <1> QED BY <1>1, <1>2 DEF RestoreFile, RecoveryFailed, End

LEMMA RestoredKeeps == DeployInv /\ Restored => DeployInv'
  <1> SUFFICES ASSUME DeployInv, Restored PROVE DeployInv' OBVIOUS
  <1>1. CASE helper.then = "partial" BY <1>1, EndKeeps DEF Restored, End, world, DeployInv, DeployTypes
  <1>2. CASE helper.then # "partial"
    <2>1. /\ helper \in Deploying /\ helper # Nothing /\ helper.pc = "restore" /\ helper.receipt \in receipts
          /\ helper.units = helper.receipt.units /\ helper.todo = {}
      BY WorkedReceipt DEF Restored, At
    <2>2. helper.then \in {"failed", "manual"} /\ BackupHolds BY <1>2, <2>1 DEF DeployInv, HelperInv
    <2>3. /\ helper' \in Deploying /\ helper'.pc = "restart" /\ helper'.then = helper.then
          /\ helper'.todo = helper.units /\ helper'.receipt = helper.receipt /\ helper'.units = helper.units
      BY <1>2, <2>1 DEF Restored, Deploying
    <2>4. DeployTypes' BY <2>3 DEF Restored, world, DeployInv, DeployTypes
    <2>5. (\A f \in DOMAIN helper.receipt.after : Holds(helper.receipt.before, f))'
      BY <2>1, <2>2, <2>3 DEF BackupHolds, Holds, Restored
    <2>6. helper'.receipt \in receipts' BY <2>1, <2>3 DEF Restored
    <2>7. HelperInv' BY <2>1, <2>2, <2>3, <2>5, <2>6 DEF HelperInv
    <2> QED BY <2>4, <2>7, ReceiptsStay DEF Restored, DeployInv
  <1> QED BY <1>1, <1>2

LEMMA CrashKeeps == DeployInv /\ Crash => DeployInv'
  <1> SUFFICES ASSUME DeployInv, Crash PROVE DeployInv' OBVIOUS
  <1>1. running' \in [Units -> [Names -> Known] \cup {Nothing}]
    BY DEF Crash, DeployInv, DeployTypes
  <1>2. running["telegram"]' = Nothing <=> running["telegram"] = Nothing
    BY InstalledIsSomething DEF Crash, DeployInv, DeployTypes, Units
  <1>3. DeployTypes' BY <1>1 DEF Crash, End, world, DeployInv, DeployTypes
  <1>4. HelperInv' BY DEF Crash, End, HelperInv
  <1> QED BY <1>2, <1>3, <1>4, ReceiptsStay DEF Crash, DeployInv

LEMMA DeployKept == DeployInv /\ [DeployNext]_deployVars => DeployInv'
  <1> SUFFICES ASSUME DeployInv, [DeployNext]_deployVars PROVE DeployInv' OBVIOUS
  <1>1. CASE UNCHANGED deployVars
    BY <1>1, ReceiptsStay, HelperStays DEF deployVars, DeployInv, DeployTypes
  <1>2. CASE DeployNext
    <2>1. ASSUME NEW c \in Commits, NEW d \in BOOLEAN, Push(c) \/ Develop(c, d) PROVE DeployInv' BY <2>1, OthersKeep
    <2>2. ASSUME NEW f \in Names, Edit(f) \/ InstallFile(f) \/ RestoreFile(f) PROVE DeployInv'
      BY <2>2, EditKeeps, InstallKeeps, RestoreKeeps
    <2>3. ASSUME NEW pull \in BOOLEAN, Start(pull) PROVE DeployInv' BY <2>3, StartKeeps
    <2>4. ASSUME NEW u \in Units, RestartUnit(u) PROVE DeployInv' BY <2>4, RestartKeeps
    <2>5. ASSUME NEW receipt \in receipts, StartRollback(receipt) PROVE DeployInv' BY <2>5, RollbackKeeps
    <2>6. CASE Test \/ Compare \/ AllInstalled \/ Ready BY <2>6, TestKeeps, CompareKeeps, AllInstalledKeeps, ReadyKeeps
    <2>7. CASE Validate \/ Restored \/ Crash BY <2>7, ValidateKeeps, RestoredKeeps, CrashKeeps
    <2> QED BY <1>2, <2>1, <2>2, <2>3, <2>4, <2>5, <2>6, <2>7 DEF DeployNext
  <1> QED BY <1>1, <1>2

\* A step that neither writes a file nor starts a unit owes nothing new.
LEMMA OwedStays == OwedInv /\ UNCHANGED <<installed, running, edits, owed>> => OwedInv'
  BY DEF OwedInv, RunsFiles

\* A unit that does not use the file written is as it was.
LEMMA WrittenOwes ==
  ASSUME DeployInv, OwedInv, NEW f \in Names, NEW version, installed' = [installed EXCEPT ![f] = version],
         Owes(f), UNCHANGED <<running, edits>>
  PROVE  OwedInv'
  <1>1. \A u \in Units : Uses(u) \subseteq Names BY DeployAssumption DEF Uses
  <1>2. \A u \in Units \ owed' : u \notin owed /\ f \notin Uses(u) BY DEF Owes
  <1>3. \A g \in Names : g # f => installed'[g] = installed[g] BY DEF DeployInv, DeployTypes
  <1>4. ASSUME edits = 0, NEW u \in Units \ owed' PROVE RunsFiles(u)'
    <2>1. RunsFiles(u) BY <1>2, <1>4 DEF OwedInv
    <2> QED BY <1>1, <1>2, <1>3, <2>1 DEF RunsFiles
  <1> QED BY <1>4 DEF OwedInv

LEMMA StartedOwesNot ==
  ASSUME DeployInv, OwedInv, NEW u \in Units, running' = [running EXCEPT ![u] = installed], owed' = owed \ {u},
         UNCHANGED <<installed, edits>>
  PROVE  OwedInv'
  <1>1. running'[u] = installed' /\ \A v \in Units : v # u => running'[v] = running[v] BY DEF DeployInv, DeployTypes
  <1>2. ASSUME edits = 0, NEW v \in Units \ owed' PROVE RunsFiles(v)'
    <2>1. CASE v = u BY <1>1, <2>1 DEF RunsFiles
    <2>2. CASE v # u
      <3>1. RunsFiles(v) BY <1>2, <2>2 DEF OwedInv
      <3> QED BY <1>1, <2>2, <3>1 DEF RunsFiles
    <2> QED BY <2>1, <2>2
  <1> QED BY <1>2 DEF OwedInv

LEMMA OwedKept == DeployInv /\ OwedInv /\ [DeployNext]_deployVars => OwedInv'
  <1> SUFFICES ASSUME DeployInv, OwedInv, [DeployNext]_deployVars PROVE OwedInv' OBVIOUS
  <1>1. CASE UNCHANGED deployVars BY <1>1, OwedStays DEF deployVars
  <1>2. CASE DeployNext
    <2>1. ASSUME NEW c \in Commits, NEW d \in BOOLEAN, Push(c) \/ Develop(c, d) PROVE OwedInv'
      BY <2>1, OwedStays DEF Push, Develop
    <2>2. ASSUME NEW f \in Names, Edit(f) PROVE OwedInv'
      <3>1. edits' # 0 BY <2>2 DEF Edit, DeployInv, DeployTypes
      <3> QED BY <3>1 DEF OwedInv
    <2>3. ASSUME NEW f \in Names, InstallFile(f) PROVE OwedInv'
      <3>1. CASE installed' = [installed EXCEPT ![f] = Content[Tree][f]] /\ Owes(f)
        BY <2>3, <3>1, WrittenOwes DEF InstallFile, world
      <3>2. CASE UNCHANGED <<installed, owed>> BY <2>3, <3>2, OwedStays DEF InstallFile, world
      <3> QED BY <2>3, <3>1, <3>2 DEF InstallFile
    <2>4. ASSUME NEW f \in Names, RestoreFile(f) PROVE OwedInv'
      <3>1. CASE installed' = [installed EXCEPT ![f] = helper.receipt.before[f]] /\ Owes(f)
        BY <2>4, <3>1, WrittenOwes DEF RestoreFile, world
      <3>2. CASE UNCHANGED <<installed, owed>> BY <2>4, <3>2, OwedStays DEF RestoreFile, world
      <3> QED BY <2>4, <3>1, <3>2 DEF RestoreFile
    <2>5. ASSUME NEW u \in Units, RestartUnit(u) PROVE OwedInv'
      <3>1. CASE running' = [running EXCEPT ![u] = installed] /\ owed' = owed \ {u}
        BY <2>5, <3>1, StartedOwesNot DEF RestartUnit, world
      <3>2. CASE UNCHANGED <<running, owed>> BY <2>5, <3>2, OwedStays DEF RestartUnit, world
      <3> QED BY <2>5, <3>1, <3>2 DEF RestartUnit
    <2>6. CASE Crash
      <3>1. CASE UNCHANGED <<running, owed>> BY <2>6, <3>1, OwedStays DEF Crash, world
      <3>2. CASE running' = [u \in Units |-> IF running[u] = Nothing THEN Nothing ELSE installed]
        <4>1. \A u \in Units : running'[u] # Nothing => running'[u] = installed' BY <2>6, <3>2 DEF Crash
        <4> QED BY <4>1 DEF OwedInv, RunsFiles
      <3> QED BY <2>6, <3>1, <3>2 DEF Crash
    <2>7. ASSUME NEW pull \in BOOLEAN, Start(pull) PROVE OwedInv' BY <2>7, OwedStays DEF Start
    <2>8. ASSUME NEW receipt \in receipts, StartRollback(receipt) PROVE OwedInv'
      BY <2>8, OwedStays DEF StartRollback, world
    <2>9. CASE Test \/ Compare \/ AllInstalled \/ Ready \/ Validate \/ Restored
      BY <2>9, OwedStays DEF Test, Compare, AllInstalled, Ready, Validate, Restored, world
    <2> QED BY <1>2, <2>1, <2>2, <2>3, <2>4, <2>5, <2>6, <2>7, <2>8, <2>9 DEF DeployNext
  <1> QED BY <1>1, <1>2

-----------------------------------------------------------------------------
(* What the invariant is for.                                                *)

LEMMA InvVerified == DeployInv' => VerifiedOnly'
  BY DEF DeployInv, DeployTypes, VerifiedOnly

\* When everything of a receipt is restarted and nobody edits, a unit that is on and not left behind
\* runs the files it uses: the run started it, or no run owes it a start.
LEMMA AllStarted ==
  ASSUME DeployInv, OwedInv, Ready, edits = 0, NEW u \in Units, running[u] # Nothing, ~LeftBehind(u), NEW f \in Uses(u)
  PROVE  running[u][f] = installed[f]
  <1>1. /\ helper # Nothing /\ helper.pc = "restart" /\ helper.todo = {} /\ helper.receipt \in receipts
        /\ helper.units = helper.receipt.units
    BY WorkedReceipt DEF Ready, At
  <1>2. \A v \in helper.units : running[v] = installed BY <1>1 DEF DeployInv, HelperInv
  <1>3. CASE u = "chat" BY <1>1, <1>2, <1>3 DEF DeployInv, ReceiptInv
  <1>4. CASE u = "telegram" /\ BotFile \in DOMAIN helper.receipt.after
    BY <1>1, <1>2, <1>4 DEF DeployInv, ReceiptInv
  <1>5. CASE u \notin owed BY <1>5 DEF OwedInv, RunsFiles
  <1> QED BY <1>3, <1>4, <1>5 DEF LeftBehind, Units

LEMMA ReportKept == DeployInv /\ OwedInv /\ [DeployNext]_deployVars => [ReportHonest]_deployVars
  <1> SUFFICES ASSUME DeployInv, OwedInv, DeployNext, helper # Nothing, helper' = Nothing PROVE ReportHonest
    BY DEF ReportHonest, deployVars
  <1>1. helper \in Deploying BY DEF DeployInv, DeployTypes
  <1>2. CASE Ready
    <2>1. /\ helper.pc = "restart" /\ helper.todo = {} BY <1>2 DEF Ready, At
    <2>2. UNCHANGED <<installed, running>> BY <1>2 DEF Ready, world
    <2>3. \A u \in Units : edits = 0 /\ running[u] # Nothing /\ ~LeftBehind(u) =>
            \A f \in Uses(u) : running'[u][f] = installed'[f]
      BY <1>2, <2>2, AllStarted
    <2>4. CASE helper.then = "deployed"
      <3>1. \A f \in Names : Content[helper.sha][f] # Absent => installed'[f] \in {Content[helper.sha][f], Edited}
        BY <2>1, <2>2, <2>4 DEF DeployInv, HelperInv, Holds
      <3>2. [helper EXCEPT !.pc = "validate", !.then = "failed"] # Nothing
        BY <1>1, DeployingIsSomething DEF Deploying
      <3>3. outcome' = "ready" BY <1>2, <2>4, <3>2 DEF Ready, End
      <3> QED BY <2>3, <3>1, <3>3 DEF ReportHonest
    <2>5. CASE helper.then # "deployed"
      <3>1. \A f \in DOMAIN helper.receipt.after : installed'[f] \in {helper.receipt.before[f], Edited}
        BY <2>1, <2>2, <2>5 DEF DeployInv, HelperInv, Holds
      <3>2. outcome' \in {"restored", "rolled back", "rollback failed", "recovery failed"}
        BY <1>2, <2>5 DEF Ready, RecoveryFailed, End
      <3> QED BY <2>3, <3>1, <3>2 DEF ReportHonest
    <2> QED BY <2>4, <2>5
  <1>3. CASE Restored
    <2>1. helper.pc = "restore" /\ helper.todo = {} /\ outcome' = "not written" /\ UNCHANGED installed
      BY <1>1, <1>3, DeployingIsSomething DEF Restored, At, End, Deploying
    <2>2. \A f \in DOMAIN helper.receipt.after : installed'[f] \in {helper.receipt.before[f], Edited}
      BY <2>1 DEF DeployInv, HelperInv, BackupHolds, Holds
    <2> QED BY <2>1, <2>2 DEF ReportHonest
  <1>4. CASE outcome' \in {"refused", "nothing", "edits block it", "rollback failed", "recovery failed", "crashed"}
    BY <1>4 DEF ReportHonest
  <1>5. CASE \E c \in Commits : Push(c) \/ \E d \in BOOLEAN : Develop(c, d) BY <1>5 DEF Push, Develop
  <1>6. CASE \E f \in Names : Edit(f) \/ InstallFile(f) \/ RestoreFile(f)
    <2>1. PICK f \in Names : Edit(f) \/ InstallFile(f) \/ RestoreFile(f) BY <1>6
    <2>2. CASE Edit(f) BY <2>2 DEF Edit
    <2>3. CASE InstallFile(f)
      BY <1>1, <2>3, DeployingIsSomething DEF InstallFile, Done, Deploying
    <2>4. CASE RestoreFile(f)
      BY <1>1, <1>4, <2>4, DeployingIsSomething DEF RestoreFile, RecoveryFailed, End, Done, Deploying
    <2> QED BY <2>1, <2>2, <2>3, <2>4
  <1>7. CASE \E pull \in BOOLEAN : Start(pull) BY <1>7 DEF Start
  <1>8. DOMAIN helper' # DOMAIN helper
    <2>1. DOMAIN Nothing = {} BY DEF Nothing
    <2>2. "pc" \in DOMAIN helper BY <1>1 DEF Deploying
    <2> QED BY <2>1, <2>2
  <1>9. CASE Test \/ Compare \/ Validate \/ Crash
    <2>1. CASE Test BY <1>1, <1>4, <2>1, DeployingIsSomething DEF Test, Goto, End, Deploying
    <2>2. CASE Compare
      <3>1. CASE ~Unchanged BY <1>4, <2>2, <3>1 DEF Compare, End
      <3>2. CASE Changed = {} BY <1>4, <2>2, <3>2 DEF Compare, End
      <3>3. CASE Unchanged /\ Changed # {} BY <1>8, <2>2, <3>3 DEF Compare
      <3> QED BY <3>1, <3>2, <3>3
    <2>3. CASE Validate BY <1>4, <1>8, <2>3 DEF Validate, End
    <2>4. CASE Crash BY <1>4, <2>4 DEF Crash, End
    <2> QED BY <1>9, <2>1, <2>2, <2>3, <2>4
  <1>10. CASE AllInstalled BY <1>1, <1>10, DeployingIsSomething DEF AllInstalled, Deploying
  <1>11. CASE \E u \in Units : RestartUnit(u)
    BY <1>1, <1>4, <1>11, DeployingIsSomething DEF RestartUnit, RecoveryFailed, End, Done, Deploying
  <1>12. CASE \E receipt \in receipts : StartRollback(receipt) BY <1>12 DEF StartRollback
  <1> QED BY <1>2, <1>3, <1>5, <1>6, <1>7, <1>9, <1>10, <1>11, <1>12 DEF DeployNext

\* For any files, commits, pushes, edits, failures and kills: nothing is installed or run that was not
\* there before, edited by others or in a signed commit; and when a deployment or a rollback says it
\* is ready or restored, the files are installed and every unit runs those it uses, but for files
\* edited meanwhile and a bot left behind by an earlier run that wrote its file and did not start it.
THEOREM Deployed == DeploySpec => DeployTrue
  <1>1. DeployInit => DeployInv BY DeployStarts
  <1>2. DeployInit => OwedInv
    <2>1. ASSUME DeployInit, NEW u \in Units PROVE running[u] = Nothing \/ running[u] = installed
      BY <2>1 DEF DeployInit, Units
    <2> QED BY <2>1 DEF OwedInv, RunsFiles
  <1>3. DeployInv /\ [DeployNext]_deployVars => DeployInv' BY DeployKept
  <1>4. DeployInv /\ OwedInv /\ [DeployNext]_deployVars => [VerifiedOnly' /\ ReportHonest]_deployVars
    BY <1>3, InvVerified, ReportKept
  <1> QED BY <1>1, <1>2, <1>3, <1>4, OwedKept, PTL DEF DeploySpec, DeployTrue

-----------------------------------------------------------------------------
(* Cached summaries of the history.                                          *)

\* The windows but the weekends, written out.
LEMMA WindowIs ==
  ASSUME NEW kind, NEW t
  PROVE  /\ kind = "today" => Window(kind, t) = [start |-> Midnight(t), stop |-> t, key |-> <<"today", Midnight(t), 0>>]
         /\ kind = "yesterday" => Window(kind, t) = [start |-> Midnight(t) - Day, stop |-> Midnight(t), key |-> <<"yesterday", Midnight(t) - Day, 0>>]
         /\ kind = "this week" => Window(kind, t) = [start |-> ThisWeek(t), stop |-> t, key |-> <<"this_week", ThisWeek(t), 0>>]
         /\ kind = "this month" => Window(kind, t) = [start |-> ThisMonth(t), stop |-> t, key |-> <<"this_month", ThisMonth(t), 0>>]
         /\ kind = "last month" => Window(kind, t) = [start |-> ThisMonth(t) - Month * Day, stop |-> ThisMonth(t), key |-> <<"last_month", ThisMonth(t) - Month * Day, 0>>]
         /\ kind = "last day" => Window(kind, t) = [start |-> t - Day, stop |-> t, key |-> <<"rolling", Day, 0>>]
         /\ kind = "first run" => Window(kind, t) = [start |-> t - Month * Day, stop |-> t, key |-> <<"first", Month * Day, 0>>]
         /\ kind = "battery" => Window(kind, t) = [start |-> t - 2 * Day, stop |-> t, key |-> <<"battery", 2 * Day, 0>>]
  <1>1. kind = "today" => Window(kind, t) = [start |-> Midnight(t), stop |-> t, key |-> <<"today", Midnight(t), 0>>]
    BY DEF Window, Today, Rolling, Span
  <1>2. kind = "yesterday" => Window(kind, t) = [start |-> Midnight(t) - Day, stop |-> Midnight(t), key |-> <<"yesterday", Midnight(t) - Day, 0>>]
    BY DEF Window, Today, Rolling, Span
  <1>3. kind = "this week" => Window(kind, t) = [start |-> ThisWeek(t), stop |-> t, key |-> <<"this_week", ThisWeek(t), 0>>]
    BY DEF Window, Today, Rolling, Span
  <1>4. kind = "this month" => Window(kind, t) = [start |-> ThisMonth(t), stop |-> t, key |-> <<"this_month", ThisMonth(t), 0>>]
    BY DEF Window, Today, Rolling, Span
  <1>5. kind = "last month" => Window(kind, t) = [start |-> ThisMonth(t) - Month * Day, stop |-> ThisMonth(t), key |-> <<"last_month", ThisMonth(t) - Month * Day, 0>>]
    BY DEF Window, Today, Rolling, Span
  <1>6. kind = "last day" => Window(kind, t) = [start |-> t - Day, stop |-> t, key |-> <<"rolling", Day, 0>>]
    BY DEF Window, Today, Rolling, Span
  <1>7. kind = "first run" => Window(kind, t) = [start |-> t - Month * Day, stop |-> t, key |-> <<"first", Month * Day, 0>>]
    BY DEF Window, Today, Rolling, Span
  <1>8. kind = "battery" => Window(kind, t) = [start |-> t - 2 * Day, stop |-> t, key |-> <<"battery", 2 * Day, 0>>]
    BY DEF Window, Today, Rolling, Span
  <1> QED BY <1>1, <1>2, <1>3, <1>4, <1>5, <1>6, <1>7, <1>8

\* Weekends are whole days, but for one that is not over.
LEMMA WholeDays ==
  ASSUME NEW t \in Nat, NEW n \in Int
  PROVE  (Midnight(t) - n * Day) % Day = 0
  <1>1. Day \in Nat /\ Day > 0 BY CacheAssumption
  <1>2. t = Day * (t \div Day) + (t % Day) BY <1>1
  <1>3. Midnight(t) - n * Day = Day * ((t \div Day) - n) BY <1>1, <1>2 DEF Midnight
  <1>4. (Day * ((t \div Day) - n)) % Day = 0 BY <1>1
  <1> QED BY <1>3, <1>4

LEMMA DaysOfWeek == \A t \in Nat : Weekday(t) \in 0 .. 6 /\ Midnight(t) \in Int /\ ThisWeek(t) \in Int
  <1> SUFFICES ASSUME NEW t \in Nat PROVE Weekday(t) \in 0 .. 6 /\ Midnight(t) \in Int /\ ThisWeek(t) \in Int OBVIOUS
  <1>1. t \div Day \in Nat /\ t % Day \in Nat BY CacheAssumption
  <1>2. Weekday(t) \in 0 .. 6 BY <1>1, CacheAssumption DEF Weekday
  <1> QED BY <1>1, <1>2, CacheAssumption DEF Midnight, ThisWeek

LEMMA ThisMonthType == \A t \in Nat : ThisMonth(t) \in Int /\ Month * Day \in Nat
  <1> SUFFICES ASSUME NEW t \in Nat PROVE ThisMonth(t) \in Int /\ Month * Day \in Nat OBVIOUS
  <1>1. Month * Day \in Nat /\ Month * Day > 0 BY CacheAssumption
  <1>2. t % (Month * Day) \in Nat BY <1>1
  <1> QED BY <1>1, <1>2 DEF ThisMonth

\* A weekend that is over is named by its end as well, one that is not over ends now.
LEMMA WeekendIs ==
  ASSUME NEW t \in Nat, NEW last \in BOOLEAN
  PROVE  /\ Saturday(t, last) \in Int /\ WeekendStop(t, last) \in Int
         /\ Weekend(t, last) = [start |-> Saturday(t, last), stop |-> WeekendStop(t, last),
                                key |-> <<"weekend", Saturday(t, last), StopKey(WeekendStop(t, last))>>]
         /\ \/ WeekendStop(t, last) = Saturday(t, last) + 2 * Day /\ WeekendStop(t, last) % Day = 0
            \/ WeekendStop(t, last) = t
  <1> DEFINE d == ((Weekday(t) + 2) % 7) + IF last /\ Weekday(t) >= 5 THEN 7 ELSE 0
  <1>1. d \in Int BY DaysOfWeek
  <1>2. Saturday(t, last) = Midnight(t) - d * Day BY DEF Saturday
  <1> HIDE DEF d
  <1>3. Saturday(t, last) \in Int BY <1>1, <1>2, DaysOfWeek, CacheAssumption
  <1>4. Saturday(t, last) + 2 * Day = Midnight(t) - (d - 2) * Day BY <1>1, <1>2, DaysOfWeek, CacheAssumption
  <1>5. (Saturday(t, last) + 2 * Day) % Day = 0 BY <1>1, <1>4, WholeDays
  <1> QED BY <1>3, <1>5, CacheAssumption DEF WeekendStop, Weekend, Span

LEMMA StopNamed ==
  ASSUME NEW x \in Int, NEW y \in Int, x % Day = 0, StopKey(x) = StopKey(y)
  PROVE  x = y
  <1>1. (-1) % Day # 0
    <2>1. -1 = Day * (-1) + (Day - 1) /\ Day - 1 \in 0 .. Day - 1 BY CacheAssumption
    <2>2. (Day * (-1) + (Day - 1)) % Day = Day - 1 BY CacheAssumption
    <2> QED BY <2>1, <2>2, CacheAssumption
  <1> QED BY <1>1 DEF StopKey, SoFar

KeyNames ==
  {"today", "yesterday", "this_week", "this_month", "last_month", "weekend", "rolling", "first", "battery"}
CacheWindows == [start : Int, stop : Int, key : KeyNames \X Int \X Int]
WeekendKinds == {"weekend", "last weekend"}

LEMMA WeekendWindow ==
  ASSUME NEW kind \in WeekendKinds, NEW t \in Nat
  PROVE  \E last \in BOOLEAN : Window(kind, t) = Weekend(t, last)
  <1>1. CASE kind = "weekend"
    <2>1. Window(kind, t) = Weekend(t, FALSE) BY <1>1 DEF Window
    <2> QED BY <2>1
  <1>2. CASE kind = "last weekend"
    <2>1. Window(kind, t) = Weekend(t, TRUE) BY <1>2 DEF Window
    <2> QED BY <2>1
  <1> QED BY <1>1, <1>2 DEF WeekendKinds

LEMMA WindowType ==
  ASSUME NEW kind \in Kinds, NEW t \in Nat
  PROVE  Window(kind, t) \in CacheWindows
  <1>1. CASE kind \in WeekendKinds
    <2>1. PICK last \in BOOLEAN : Window(kind, t) = Weekend(t, last) BY <1>1, WeekendWindow
    <2>2. /\ Saturday(t, last) \in Int /\ WeekendStop(t, last) \in Int
          /\ Weekend(t, last) = [start |-> Saturday(t, last), stop |-> WeekendStop(t, last),
                                 key |-> <<"weekend", Saturday(t, last), StopKey(WeekendStop(t, last))>>]
      BY WeekendIs
    <2>3. StopKey(WeekendStop(t, last)) \in Int BY <2>2 DEF StopKey, SoFar
    <2> QED BY <2>1, <2>2, <2>3 DEF CacheWindows, KeyNames
  <1>2. CASE kind \notin WeekendKinds
    <2>1. /\ Day \in Int /\ 2 * Day \in Int /\ Month * Day \in Int /\ Midnight(t) \in Int /\ ThisWeek(t) \in Int
          /\ ThisMonth(t) \in Int
      BY CacheAssumption, DaysOfWeek, ThisMonthType
    <2>2. CASE kind = "today"
      <3>1. Window(kind, t) = [start |-> Midnight(t), stop |-> t, key |-> <<"today", Midnight(t), 0>>]
        BY <2>2, Zenon, WindowIs
      <3> QED BY <2>1, <3>1 DEF CacheWindows, KeyNames
    <2>3. CASE kind = "yesterday"
      <3>1. Window(kind, t) = [start |-> Midnight(t) - Day, stop |-> Midnight(t), key |-> <<"yesterday", Midnight(t) - Day, 0>>]
        BY <2>3, Zenon, WindowIs
      <3> QED BY <2>1, <3>1 DEF CacheWindows, KeyNames
    <2>4. CASE kind = "this week"
      <3>1. Window(kind, t) = [start |-> ThisWeek(t), stop |-> t, key |-> <<"this_week", ThisWeek(t), 0>>]
        BY <2>4, Zenon, WindowIs
      <3> QED BY <2>1, <3>1 DEF CacheWindows, KeyNames
    <2>5. CASE kind = "this month"
      <3>1. Window(kind, t) = [start |-> ThisMonth(t), stop |-> t, key |-> <<"this_month", ThisMonth(t), 0>>]
        BY <2>5, Zenon, WindowIs
      <3> QED BY <2>1, <3>1 DEF CacheWindows, KeyNames
    <2>6. CASE kind = "last month"
      <3>1. Window(kind, t) = [start |-> ThisMonth(t) - Month * Day, stop |-> ThisMonth(t), key |-> <<"last_month", ThisMonth(t) - Month * Day, 0>>]
        BY <2>6, Zenon, WindowIs
      <3> QED BY <2>1, <3>1 DEF CacheWindows, KeyNames
    <2>7. CASE kind = "last day"
      <3>1. Window(kind, t) = [start |-> t - Day, stop |-> t, key |-> <<"rolling", Day, 0>>]
        BY <2>7, Zenon, WindowIs
      <3> QED BY <2>1, <3>1 DEF CacheWindows, KeyNames
    <2>8. CASE kind = "first run"
      <3>1. Window(kind, t) = [start |-> t - Month * Day, stop |-> t, key |-> <<"first", Month * Day, 0>>]
        BY <2>8, Zenon, WindowIs
      <3> QED BY <2>1, <3>1 DEF CacheWindows, KeyNames
    <2>9. CASE kind = "battery"
      <3>1. Window(kind, t) = [start |-> t - 2 * Day, stop |-> t, key |-> <<"battery", 2 * Day, 0>>]
        BY <2>9, Zenon, WindowIs
      <3> QED BY <2>1, <3>1 DEF CacheWindows, KeyNames
    <2> QED BY <1>2, <2>2, <2>3, <2>4, <2>5, <2>6, <2>7, <2>8, <2>9 DEF Kinds, WeekendKinds
  <1> QED BY <1>1, <1>2

\* Keys begin with the kind of the window, but both names of a weekend make one kind.
NamedBy(kind, name) ==
  /\ kind \in WeekendKinds => name = "weekend"
  /\ kind = "today" => name = "today"
  /\ kind = "yesterday" => name = "yesterday"
  /\ kind = "this week" => name = "this_week"
  /\ kind = "this month" => name = "this_month"
  /\ kind = "last month" => name = "last_month"
  /\ kind = "last day" => name = "rolling"
  /\ kind = "first run" => name = "first"
  /\ kind = "battery" => name = "battery"

LEMMA NamesDiffer ==
  ASSUME NEW one \in Kinds, NEW two \in Kinds, NEW name, NamedBy(one, name), NamedBy(two, name)
  PROVE  one = two \/ (one \in WeekendKinds /\ two \in WeekendKinds)
  BY DEF NamedBy, Kinds, WeekendKinds

LEMMA KeyBegins ==
  ASSUME NEW kind \in Kinds, NEW t \in Nat
  PROVE  NamedBy(kind, Window(kind, t).key[1])
  <1>1. CASE kind \in WeekendKinds
    <2>1. PICK last \in BOOLEAN : Window(kind, t) = Weekend(t, last) BY <1>1, WeekendWindow
    <2>2. Weekend(t, last).key = <<"weekend", Saturday(t, last), StopKey(WeekendStop(t, last))>> BY WeekendIs
    <2>3. Window(kind, t).key[1] = "weekend" BY <2>1, <2>2
    <2> QED BY <1>1, <2>3 DEF NamedBy, WeekendKinds
  <1>2. CASE kind \notin WeekendKinds
    <2>1. ASSUME kind = "today" PROVE Window(kind, t).key[1] = "today"
      <3>1. Window(kind, t) = [start |-> Midnight(t), stop |-> t, key |-> <<"today", Midnight(t), 0>>]
        BY <2>1, Zenon, WindowIs
      <3> QED BY <3>1
    <2>2. ASSUME kind = "yesterday" PROVE Window(kind, t).key[1] = "yesterday"
      <3>1. Window(kind, t) = [start |-> Midnight(t) - Day, stop |-> Midnight(t), key |-> <<"yesterday", Midnight(t) - Day, 0>>]
        BY <2>2, Zenon, WindowIs
      <3> QED BY <3>1
    <2>3. ASSUME kind = "this week" PROVE Window(kind, t).key[1] = "this_week"
      <3>1. Window(kind, t) = [start |-> ThisWeek(t), stop |-> t, key |-> <<"this_week", ThisWeek(t), 0>>]
        BY <2>3, Zenon, WindowIs
      <3> QED BY <3>1
    <2>4. ASSUME kind = "this month" PROVE Window(kind, t).key[1] = "this_month"
      <3>1. Window(kind, t) = [start |-> ThisMonth(t), stop |-> t, key |-> <<"this_month", ThisMonth(t), 0>>]
        BY <2>4, Zenon, WindowIs
      <3> QED BY <3>1
    <2>5. ASSUME kind = "last month" PROVE Window(kind, t).key[1] = "last_month"
      <3>1. Window(kind, t) = [start |-> ThisMonth(t) - Month * Day, stop |-> ThisMonth(t), key |-> <<"last_month", ThisMonth(t) - Month * Day, 0>>]
        BY <2>5, Zenon, WindowIs
      <3> QED BY <3>1
    <2>6. ASSUME kind = "last day" PROVE Window(kind, t).key[1] = "rolling"
      <3>1. Window(kind, t) = [start |-> t - Day, stop |-> t, key |-> <<"rolling", Day, 0>>]
        BY <2>6, Zenon, WindowIs
      <3> QED BY <3>1
    <2>7. ASSUME kind = "first run" PROVE Window(kind, t).key[1] = "first"
      <3>1. Window(kind, t) = [start |-> t - Month * Day, stop |-> t, key |-> <<"first", Month * Day, 0>>]
        BY <2>7, Zenon, WindowIs
      <3> QED BY <3>1
    <2>8. ASSUME kind = "battery" PROVE Window(kind, t).key[1] = "battery"
      <3>1. Window(kind, t) = [start |-> t - 2 * Day, stop |-> t, key |-> <<"battery", 2 * Day, 0>>]
        BY <2>8, Zenon, WindowIs
      <3> QED BY <3>1
    <2> QED BY <1>2, <2>1, <2>2, <2>3, <2>4, <2>5, <2>6, <2>7, <2>8 DEF NamedBy
  <1> QED BY <1>1, <1>2

\* Two windows of one key: rolling ones end when they were asked for and are equally long; others
\* begin together, and end together or when they were asked for.
LEMMA SameWindow ==
  ASSUME NEW one \in Kinds, NEW two \in Kinds, NEW t \in Nat, NEW u \in Nat,
         Window(one, t).key = Window(two, u).key
  PROVE  /\ IsRolling(two) => /\ Window(one, t).stop = t /\ Window(two, u).stop = u
                              /\ Window(two, u).start - Window(one, t).start = u - t
         /\ ~IsRolling(two) => /\ Window(one, t).start = Window(two, u).start
                               /\ \/ Window(one, t).stop = Window(two, u).stop
                                  \/ Window(one, t).stop = t /\ Window(two, u).stop = u
  <1>1. one = two \/ (one \in WeekendKinds /\ two \in WeekendKinds)
    <2>1. Window(one, t).key[1] = Window(two, u).key[1] OBVIOUS
    <2>2. NamedBy(one, Window(one, t).key[1]) /\ NamedBy(two, Window(two, u).key[1]) BY KeyBegins
    <2> QED BY <2>1, <2>2, NamesDiffer
  <1>2. CASE one \in WeekendKinds /\ two \in WeekendKinds
    <2>1. PICK p \in BOOLEAN : Window(one, t) = Weekend(t, p) BY <1>2, WeekendWindow
    <2>2. PICK q \in BOOLEAN : Window(two, u) = Weekend(u, q) BY <1>2, WeekendWindow
    <2>3. /\ Saturday(t, p) = Saturday(u, q)
          /\ StopKey(WeekendStop(t, p)) = StopKey(WeekendStop(u, q))
      BY <2>1, <2>2, WeekendIs
    <2>4. WeekendStop(t, p) = WeekendStop(u, q) \/ (WeekendStop(t, p) = t /\ WeekendStop(u, q) = u)
      <3>1. WeekendStop(t, p) % Day = 0 \/ WeekendStop(t, p) = t BY WeekendIs
      <3>2. WeekendStop(u, q) % Day = 0 \/ WeekendStop(u, q) = u BY WeekendIs
      <3>3. WeekendStop(t, p) \in Int /\ WeekendStop(u, q) \in Int BY WeekendIs
      <3> QED BY <2>3, <3>1, <3>2, <3>3, StopNamed
    <2>5. Window(one, t).start = Saturday(t, p) /\ Window(one, t).stop = WeekendStop(t, p) BY <2>1, WeekendIs
    <2>6. Window(two, u).start = Saturday(u, q) /\ Window(two, u).stop = WeekendStop(u, q) BY <2>2, WeekendIs
    <2>7. ~IsRolling(two) BY <1>2 DEF IsRolling, WeekendKinds
    <2> QED BY <2>3, <2>4, <2>5, <2>6, <2>7
  <1>3. CASE one = two /\ one \notin WeekendKinds
    <2>1. /\ Day \in Int /\ Month * Day \in Int /\ Midnight(t) \in Int /\ Midnight(u) \in Int
          /\ ThisMonth(t) \in Int /\ ThisMonth(u) \in Int /\ ThisWeek(t) \in Int /\ ThisWeek(u) \in Int
      BY CacheAssumption, DaysOfWeek, ThisMonthType
    <2>2. CASE one = "today"
      <3>1. Window(one, t) = [start |-> Midnight(t), stop |-> t, key |-> <<"today", Midnight(t), 0>>]
        BY <2>2, Zenon, WindowIs
      <3>2. Window(two, u) = [start |-> Midnight(u), stop |-> u, key |-> <<"today", Midnight(u), 0>>]
        <4>1. two = one BY <1>3
        <4> QED BY <4>1, <2>2, Zenon, WindowIs
      <3>3. Window(one, t).key[2] = Window(two, u).key[2] OBVIOUS
      <3>4. ~IsRolling(two) BY <1>3, <2>2 DEF IsRolling
      <3>5. Midnight(t) = Midnight(u) BY <2>1, <3>1, <3>2, <3>3
      <3> QED BY <3>1, <3>2, <3>4, <3>5
    <2>3. CASE one = "yesterday"
      <3>1. Window(one, t) = [start |-> Midnight(t) - Day, stop |-> Midnight(t), key |-> <<"yesterday", Midnight(t) - Day, 0>>]
        BY <2>3, Zenon, WindowIs
      <3>2. Window(two, u) = [start |-> Midnight(u) - Day, stop |-> Midnight(u), key |-> <<"yesterday", Midnight(u) - Day, 0>>]
        <4>1. two = one BY <1>3
        <4> QED BY <4>1, <2>3, Zenon, WindowIs
      <3>3. Window(one, t).key[2] = Window(two, u).key[2] OBVIOUS
      <3>4. ~IsRolling(two) BY <1>3, <2>3 DEF IsRolling
      <3>5. Midnight(t) = Midnight(u) BY <2>1, <3>1, <3>2, <3>3
      <3> QED BY <3>1, <3>2, <3>4, <3>5
    <2>4. CASE one = "this week"
      <3>1. Window(one, t) = [start |-> ThisWeek(t), stop |-> t, key |-> <<"this_week", ThisWeek(t), 0>>]
        BY <2>4, Zenon, WindowIs
      <3>2. Window(two, u) = [start |-> ThisWeek(u), stop |-> u, key |-> <<"this_week", ThisWeek(u), 0>>]
        <4>1. two = one BY <1>3
        <4> QED BY <4>1, <2>4, Zenon, WindowIs
      <3>3. Window(one, t).key[2] = Window(two, u).key[2] OBVIOUS
      <3>4. ~IsRolling(two) BY <1>3, <2>4 DEF IsRolling
      <3>5. ThisWeek(t) = ThisWeek(u) BY <2>1, <3>1, <3>2, <3>3
      <3> QED BY <3>1, <3>2, <3>4, <3>5
    <2>5. CASE one = "this month"
      <3>1. Window(one, t) = [start |-> ThisMonth(t), stop |-> t, key |-> <<"this_month", ThisMonth(t), 0>>]
        BY <2>5, Zenon, WindowIs
      <3>2. Window(two, u) = [start |-> ThisMonth(u), stop |-> u, key |-> <<"this_month", ThisMonth(u), 0>>]
        <4>1. two = one BY <1>3
        <4> QED BY <4>1, <2>5, Zenon, WindowIs
      <3>3. Window(one, t).key[2] = Window(two, u).key[2] OBVIOUS
      <3>4. ~IsRolling(two) BY <1>3, <2>5 DEF IsRolling
      <3>5. ThisMonth(t) = ThisMonth(u) BY <2>1, <3>1, <3>2, <3>3
      <3> QED BY <3>1, <3>2, <3>4, <3>5
    <2>6. CASE one = "last month"
      <3>1. Window(one, t) = [start |-> ThisMonth(t) - Month * Day, stop |-> ThisMonth(t), key |-> <<"last_month", ThisMonth(t) - Month * Day, 0>>]
        BY <2>6, Zenon, WindowIs
      <3>2. Window(two, u) = [start |-> ThisMonth(u) - Month * Day, stop |-> ThisMonth(u), key |-> <<"last_month", ThisMonth(u) - Month * Day, 0>>]
        <4>1. two = one BY <1>3
        <4> QED BY <4>1, <2>6, Zenon, WindowIs
      <3>3. Window(one, t).key[2] = Window(two, u).key[2] OBVIOUS
      <3>4. ~IsRolling(two) BY <1>3, <2>6 DEF IsRolling
      <3>5. ThisMonth(t) = ThisMonth(u) BY <2>1, <3>1, <3>2, <3>3
      <3> QED BY <3>1, <3>2, <3>4, <3>5
    <2>7. CASE one = "last day"
      <3>1. Window(one, t) = [start |-> t - Day, stop |-> t, key |-> <<"rolling", Day, 0>>]
        BY <2>7, Zenon, WindowIs
      <3>2. Window(two, u) = [start |-> u - Day, stop |-> u, key |-> <<"rolling", Day, 0>>]
        <4>1. two = one BY <1>3
        <4> QED BY <4>1, <2>7, Zenon, WindowIs
      <3>4. IsRolling(two) BY <1>3, <2>7 DEF IsRolling
      <3> QED BY <2>1, <3>1, <3>2, <3>4
    <2>8. CASE one = "first run"
      <3>1. Window(one, t) = [start |-> t - Month * Day, stop |-> t, key |-> <<"first", Month * Day, 0>>]
        BY <2>8, Zenon, WindowIs
      <3>2. Window(two, u) = [start |-> u - Month * Day, stop |-> u, key |-> <<"first", Month * Day, 0>>]
        <4>1. two = one BY <1>3
        <4> QED BY <4>1, <2>8, Zenon, WindowIs
      <3>4. IsRolling(two) BY <1>3, <2>8 DEF IsRolling
      <3> QED BY <2>1, <3>1, <3>2, <3>4
    <2>9. CASE one = "battery"
      <3>1. Window(one, t) = [start |-> t - 2 * Day, stop |-> t, key |-> <<"battery", 2 * Day, 0>>]
        BY <2>9, Zenon, WindowIs
      <3>2. Window(two, u) = [start |-> u - 2 * Day, stop |-> u, key |-> <<"battery", 2 * Day, 0>>]
        <4>1. two = one BY <1>3
        <4> QED BY <4>1, <2>9, Zenon, WindowIs
      <3>4. IsRolling(two) BY <1>3, <2>9 DEF IsRolling
      <3> QED BY <2>1, <3>1, <3>2, <3>4
    <2> QED BY <1>3, <2>2, <2>3, <2>4, <2>5, <2>6, <2>7, <2>8, <2>9 DEF Kinds, WeekendKinds
  <1> QED BY <1>1, <1>2, <1>3
\* A window somebody has asked for and waits to have summarized.
Pending(window, from) ==
  /\ from \in Nat /\ from <= now /\ now - from <= MaxWork
  /\ \E kind \in Kinds : window = Window(kind, from)

\* A summary that was kept: of a window as it was no longer than MaxWork before.
IsKept(e) ==
  /\ e.updated \in Nat /\ e.updated <= now
  /\ \E kind \in Kinds, t \in Nat :
       /\ t <= e.updated /\ e.updated - t <= MaxWork
       /\ e.key = Window(kind, t).key /\ e.start = Window(kind, t).start /\ e.stop = Window(kind, t).stop

Runs ==
  [todo : SUBSET DOMAIN Indexed, keys : SUBSET (KeyNames \X Int \X Int), window : CacheWindows \cup {NoWork}, since : Nat]

JobInv ==
  job # NoWork =>
    /\ job \in Runs /\ job.since <= now /\ now - job.since <= MaxWork
    /\ job.window # NoWork => Pending(job.window, job.since)

CacheInv ==
  /\ topics \in Asked /\ now \in Nat
  /\ \A e \in cache : IsKept(e)
  /\ question # NoWork => Pending(question.window, question.since)
  /\ JobInv

LEMMA TopicsAreKinds == \A T \in Asked : T \subseteq Kinds
  BY CacheAssumption

\* What is pending can be kept.
LEMMA PutKeeps ==
  ASSUME CacheInv, NEW window, NEW from, Pending(window, from)
  PROVE  \A e \in Put(window) : IsKept(e)
  <1> SUFFICES ASSUME NEW e \in Put(window) PROVE IsKept(e) OBVIOUS
  <1>1. CASE e \in cache BY <1>1 DEF CacheInv
  <1>2. CASE e = [key |-> window.key, start |-> window.start, stop |-> window.stop, updated |-> now]
    <2>1. PICK kind \in Kinds : window = Window(kind, from) BY DEF Pending
    <2>2. e.updated = now /\ e.key = window.key /\ e.start = window.start /\ e.stop = window.stop BY <1>2
    <2>3. now \in Nat BY DEF CacheInv
    <2>4. from \in Nat /\ from <= now /\ now - from <= MaxWork BY DEF Pending
    <2> QED BY <2>1, <2>2, <2>3, <2>4 DEF IsKept
  <1> QED BY <1>1, <1>2 DEF Put

LEMMA CacheStarts == CacheInit => CacheInv
  BY DEF CacheInit, CacheInv, JobInv

LEMMA QuestionKeeps ==
  CacheInv /\ ((\E kind \in topics : Ask(kind)) \/ Summarized \/ NotSummarized) => CacheInv'
  <1>1. ASSUME CacheInv, NEW kind \in topics, Ask(kind) PROVE CacheInv'
    <2>1. kind \in Kinds BY <1>1, TopicsAreKinds DEF CacheInv
    <2>2. question' = [window |-> Window(kind, now), since |-> now] /\ UNCHANGED <<topics, now, cache, job>>
      BY <1>1 DEF Ask
    <2>3. question'.window = Window(kind, now) /\ question'.since = now BY <2>2
    <2>4. now \in Nat BY <1>1 DEF CacheInv
    <2>5. Pending(question.window, question.since)' BY <2>1, <2>2, <2>3, <2>4, CacheAssumption DEF Pending
    <2> QED BY <1>1, <2>2, <2>5 DEF CacheInv, JobInv, IsKept, Pending
  <1>2. ASSUME CacheInv, Summarized PROVE CacheInv'
    <2>1. \A e \in cache' : IsKept(e) BY <1>2, PutKeeps DEF Summarized, CacheInv
    <2> QED BY <1>2, <2>1 DEF CacheInv, JobInv, IsKept, Pending, Summarized
  <1>3. ASSUME CacheInv, NotSummarized PROVE CacheInv'
    BY <1>3 DEF CacheInv, JobInv, IsKept, Pending, NotSummarized
  <1> QED BY <1>1, <1>2, <1>3

LEMMA RunKeeps == CacheInv /\ (IndexerStarts \/ Prune \/ IndexerKilled) => CacheInv'
  <1>1. ASSUME CacheInv, IndexerStarts PROVE CacheInv'
    <2>1. now \in Nat BY <1>1 DEF CacheInv
    <2>2. job' \in Runs /\ job'.since = now /\ job'.window = NoWork BY <1>1, <2>1 DEF IndexerStarts, Runs
    <2>3. JobInv' BY <1>1, <2>1, <2>2, CacheAssumption DEF JobInv, IndexerStarts
    <2> QED BY <1>1, <2>3 DEF CacheInv, IsKept, Pending, IndexerStarts
  <1>2. ASSUME CacheInv, Prune \/ IndexerKilled PROVE CacheInv'
    BY <1>2 DEF CacheInv, JobInv, IsKept, Pending, Prune, IndexerKilled
  <1> QED BY <1>1, <1>2

LEMMA ResolveKeeps ==
  ASSUME CacheInv, NEW n \in DOMAIN Indexed, Resolve(n)
  PROVE  CacheInv'
  <1> DEFINE window == Window(Indexed[n], now)
  <1>1. Indexed[n] \in Kinds /\ now \in Nat BY CacheAssumption DEF CacheInv
  <1>2. window \in CacheWindows BY <1>1, WindowType
  <1>3. window.key \in KeyNames \X Int \X Int BY <1>2 DEF CacheWindows
  <1>4. job \in Runs /\ UNCHANGED <<topics, now, cache, question>> BY DEF Resolve, CacheInv, JobInv
  <1>5. job' = [job EXCEPT !.keys = @ \cup {window.key}, !.since = now,
                           !.window = IF window.key \in job.keys THEN NoWork ELSE window,
                           !.todo = IF window.key \in job.keys THEN @ \ {n} ELSE @]
    BY DEF Resolve
  <1> HIDE DEF window
  <1>6. /\ job'.since = now /\ job'.window \in {NoWork, window}
        /\ job'.keys = job.keys \cup {window.key} /\ job'.todo \subseteq job.todo
    BY <1>4, <1>5 DEF Runs
  <1>7. job' \in Runs
    <2>1. job' \in [todo : SUBSET DOMAIN Indexed, keys : SUBSET (KeyNames \X Int \X Int),
                    window : CacheWindows \cup {NoWork}, since : Nat]
      BY <1>1, <1>2, <1>3, <1>4, <1>5 DEF Runs
    <2> QED BY <2>1 DEF Runs
  <1>8. job'.window # NoWork => Pending(job.window, job.since)'
    BY <1>1, <1>4, <1>6, CacheAssumption DEF Pending, window
  <1>9. JobInv' BY <1>1, <1>4, <1>6, <1>7, <1>8, CacheAssumption DEF JobInv
  <1> QED BY <1>4, <1>9 DEF CacheInv, IsKept, Pending

LEMMA RefreshKeeps ==
  ASSUME CacheInv, NEW n \in DOMAIN Indexed, RefreshItem(n)
  PROVE  CacheInv'
  <1>1. job \in Runs /\ job.since <= now /\ now - job.since <= MaxWork /\ Pending(job.window, job.since)
    BY DEF RefreshItem, CacheInv, JobInv
  <1>2. \A e \in cache' : IsKept(e) BY <1>1, PutKeeps DEF RefreshItem, CacheInv
  <1>3. job' \in Runs /\ job'.window = NoWork /\ job'.since = job.since BY <1>1 DEF RefreshItem, Runs
  <1>4. JobInv' BY <1>1, <1>3 DEF JobInv, RefreshItem
  <1> QED BY <1>2, <1>4 DEF CacheInv, IsKept, Pending, RefreshItem

LEMMA TickKeeps == CacheInv /\ Tick => CacheInv'
  <1> SUFFICES ASSUME CacheInv, Tick PROVE CacheInv' OBVIOUS
  <1>1. /\ now \in Nat /\ now' = now + 1 /\ cache' \subseteq cache /\ UNCHANGED <<topics, question, job>>
    BY DEF Tick, CacheInv
  <1>2. \A e \in cache' : IsKept(e)'
    <2>1. ASSUME NEW e \in cache' PROVE IsKept(e)'
      <3>1. IsKept(e) BY <1>1 DEF CacheInv
      <3> QED BY <1>1, <3>1 DEF IsKept
    <2> QED BY <2>1
  <1>3. ASSUME question # NoWork PROVE Pending(question.window, question.since)'
    BY <1>1, <1>3, CacheAssumption DEF Tick, Pending, CacheInv
  <1>4. ASSUME job # NoWork PROVE /\ job \in Runs /\ job.since <= now + 1 /\ now + 1 - job.since <= MaxWork
    BY <1>1, <1>4, CacheAssumption DEF Tick, CacheInv, JobInv, Runs
  <1>5. JobInv'
    <2>1. ASSUME job # NoWork, job.window # NoWork PROVE Pending(job.window, job.since)'
      BY <1>1, <1>4, <2>1, CacheAssumption DEF CacheInv, JobInv, Pending
    <2> SUFFICES ASSUME job' # NoWork
                 PROVE  /\ job' \in Runs /\ job'.since <= now' /\ now' - job'.since <= MaxWork
                        /\ job'.window # NoWork => Pending(job.window, job.since)'
      BY DEF JobInv
    <2>2. job' = job /\ now' = now + 1 BY <1>1
    <2>3. job # NoWork BY <2>2
    <2>4. job \in Runs /\ job.since <= now + 1 /\ now + 1 - job.since <= MaxWork BY <1>4, <2>3
    <2>5. job' \in Runs /\ job'.since <= now' /\ now' - job'.since <= MaxWork BY <1>1, <2>2, <2>4 DEF Runs
    <2> QED BY <2>1, <2>2, <2>3, <2>5
  <1> QED BY <1>1, <1>2, <1>3, <1>5 DEF CacheInv

LEMMA CacheKept == CacheInv /\ [CacheNext]_cacheVars => CacheInv'
  <1>1. CacheInv /\ UNCHANGED cacheVars => CacheInv'
    BY DEF CacheInv, JobInv, IsKept, Pending, cacheVars
  <1>2. CacheInv /\ (\E n \in DOMAIN Indexed : Resolve(n) \/ RefreshItem(n)) => CacheInv'
    BY ResolveKeeps, RefreshKeeps
  <1> QED BY <1>1, <1>2, QuestionKeeps, RunKeeps, TickKeeps DEF CacheNext

LEMMA InvAnswers == CacheInv => AnswerTrue
  <1> SUFFICES ASSUME CacheInv, NEW kind \in topics, NEW served \in Hits(kind, Window(kind, now))
               PROVE  LET wanted == Window(kind, now) IN
                      /\ served.start <= wanted.start /\ served.stop <= wanted.stop
                      /\ wanted.start - served.start <= IF IsRolling(kind) THEN Drift(kind) ELSE 0
                      /\ wanted.stop - served.stop <= IF wanted.stop < now - Drift(kind) THEN 0 ELSE Drift(kind)
    BY DEF AnswerTrue
  <1> DEFINE wanted == Window(kind, now)
  <1>1. kind \in Kinds /\ now \in Nat BY TopicsAreKinds DEF CacheInv
  <1>2. IsKept(served) /\ served.key = wanted.key /\ now - served.updated <= MaxAge(kind, wanted)
    BY DEF Hits, CacheInv
  <1>3. PICK one \in Kinds, t \in Nat :
          /\ t <= served.updated /\ served.updated - t <= MaxWork
          /\ served.key = Window(one, t).key /\ served.start = Window(one, t).start /\ served.stop = Window(one, t).stop
    BY <1>2 DEF IsKept
  <1>4. served.updated \in Nat /\ served.updated <= now BY <1>2 DEF IsKept
  <1>5. wanted \in CacheWindows /\ Window(one, t) \in CacheWindows BY <1>1, WindowType
  <1>6. wanted.start \in Int /\ wanted.stop \in Int /\ served.start \in Int /\ served.stop \in Int
    BY <1>3, <1>5 DEF CacheWindows
  <1>7. /\ IsRolling(kind) => /\ served.stop = t /\ wanted.stop = now /\ wanted.start - served.start = now - t
        /\ ~IsRolling(kind) => /\ served.start = wanted.start
                               /\ served.stop = wanted.stop \/ (served.stop = t /\ wanted.stop = now)
    <2>1. Window(one, t).key = Window(kind, now).key BY <1>2, <1>3
    <2>2. /\ IsRolling(kind) => /\ Window(one, t).stop = t /\ Window(kind, now).stop = now
                                /\ Window(kind, now).start - Window(one, t).start = now - t
          /\ ~IsRolling(kind) => /\ Window(one, t).start = Window(kind, now).start
                                 /\ \/ Window(one, t).stop = Window(kind, now).stop
                                    \/ Window(one, t).stop = t /\ Window(kind, now).stop = now
      BY <1>1, <2>1, SameWindow
    <2> QED BY <1>3, <2>2
  <1> HIDE DEF wanted
  \* The age that is allowed never exceeds the drift when the window ends now.
  <1>8. wanted.stop = now => MaxAge(kind, wanted) + MaxWork <= Drift(kind)
    <2>1. CASE kind = "first run"
      <3>1. MaxAge(kind, wanted) = Static /\ Drift(kind) = MaxWork + Static BY <2>1 DEF MaxAge, Drift
      <3> QED BY <3>1, CacheAssumption
    <2>2. CASE kind # "first run" /\ wanted.stop = now
      <3>1. ~(wanted.stop < now - Margin)
        <4>1. ~(now < now - Margin) BY <1>1, CacheAssumption
        <4> QED BY <2>2, <4>1
      <3>2. MaxAge(kind, wanted) = Fresh /\ Drift(kind) = MaxWork + Fresh BY <2>2, <3>1 DEF MaxAge, Closed, Drift
      <3> QED BY <3>2, CacheAssumption
    <2> QED BY <2>1, <2>2
  <1>9. Drift(kind) \in Nat /\ MaxAge(kind, wanted) \in Nat
    <2>1. MaxAge(kind, wanted) \in {Static, Fresh} BY DEF MaxAge
    <2>2. Drift(kind) \in {MaxWork + Static, MaxWork + Fresh} BY DEF Drift
    <2> QED BY <2>1, <2>2, CacheAssumption
  <1>10. wanted.stop = now => now - t <= Drift(kind) /\ t <= now
    BY <1>1, <1>2, <1>3, <1>4, <1>8, <1>9, CacheAssumption
  <1>11. CASE IsRolling(kind) BY <1>1, <1>6, <1>7, <1>9, <1>10, <1>11 DEF wanted
  <1>12. CASE ~IsRolling(kind) BY <1>1, <1>6, <1>7, <1>9, <1>10, <1>12 DEF wanted
  <1> QED BY <1>11, <1>12

\* For any calendar of days and months, any freshness, and any pace of Influx up to its time out: a
\* cached summary that is served is of the window that was asked for, and no staler than it may be.
THEOREM AnswersTrue == CacheSpec => []AnswerTrue
  <1>1. CacheInit => CacheInv BY CacheStarts
  <1>2. CacheInv /\ [CacheNext]_cacheVars => CacheInv' BY CacheKept
  <1>3. CacheInv => AnswerTrue BY InvAnswers
  <1> QED BY <1>1, <1>2, <1>3, PTL DEF CacheSpec
===============================================================================
