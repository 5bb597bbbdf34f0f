------------------------------ MODULE ChatServer ------------------------------
(***************************************************************************)
(* Boat Chat's questions and its sessions: BoatChatHandler.do_POST of      *)
(* boat-chat/app.py over boat-chat/session_store.py.  One thread serves a  *)
(* request; it holds one of the places of CHAT_SEMAPHORE from its          *)
(* acceptance to its end, and it goes on when its client stops waiting.    *)
(*                                                                         *)
(* A request is known by its number, and so is the exchange (question and  *)
(* answer) it adds to its session.  How an answer is made is left out: it  *)
(* may take any time or fail.  So may every step that opens the database.  *)
(* Access codes and the rate limit are reasons to refuse.                  *)
(***************************************************************************)
EXTENDS Integers, Sequences, FiniteSets

CONSTANTS
  Sessions,     \* session ids
  Places,       \* CHAT_SEMAPHORE
  Kept,         \* exchanges kept of a conversation: turns[-8:] is four
  MaxRequests   \* bound: requests are numbered 1..MaxRequests

\* There is a chat, and a conversation keeps something of it.
ASSUME ServerAssumption == Sessions # {} /\ Places \in Nat /\ Kept \in Nat \ {0} /\ MaxRequests \in Nat

VARIABLES
  request,      \* request[r]
  stored        \* chat_sessions: the exchanges of a session; the query plan is the last one's

serverVars == <<request, stored>>

Requests == 1 .. MaxRequests
Unsent == [at |-> "unsent", session |-> CHOOSE s \in Sessions : TRUE, sent |-> <<>>,
           context |-> {}, read |-> <<>>]

Active == {r \in Requests : request[r].at \notin {"unsent", "answered", "failed"}}
Last(turns) == SubSeq(turns, IF Len(turns) > Kept THEN Len(turns) - Kept + 1 ELSE 1, Len(turns))
Elements(turns) == {turns[k] : k \in 1 .. Len(turns)}

ServerInit ==
  /\ request = [r \in Requests |-> Unsent]
  /\ stored = [s \in Sessions |-> <<>>]

\* A client posts request r: 401, 429, or a place is taken.
Post(r, s, history) ==
  /\ request[r].at = "unsent" /\ \A q \in 1 .. r - 1 : request[q].at # "unsent"
  /\ \E accepted \in BOOLEAN :
       /\ accepted => Cardinality(Active) < Places
       /\ request' = [request EXCEPT ![r] = [Unsent EXCEPT
                        !.at = IF accepted THEN "accepted" ELSE "failed",
                        !.session = s, !.sent = history]]

Step(r, from, to) == request[r].at = from /\ request' = [request EXCEPT ![r] = to]

\* get_session: the client's history comes first, the stored turns stand in for none;
\* the query plan is that of the stored session's last exchange.
History(r) == IF request[r].sent # <<>> THEN request[r].sent ELSE stored[request[r].session]
Plan(r) == LET turns == stored[request[r].session] IN IF turns = <<>> THEN {} ELSE {turns[Len(turns)]}

ReadSession(r) ==
  /\ Step(r, "accepted", [request[r] EXCEPT !.at = "answering", !.context = Elements(Last(History(r))) \cup Plan(r)])
  /\ UNCHANGED stored

\* The answer is there; append_exchange reads the turns on one connection ...
ReadTurns(r) ==
  /\ Step(r, "answering", [request[r] EXCEPT !.at = "read", !.read = stored[request[r].session]])
  /\ UNCHANGED stored

\* ... and writes them, with this exchange, on another.  Then record_request and send_json, which
\* may fail; the place is given back.
Longer(r) == Last(Append(request[r].read, r))

WriteTurns(r) ==
  /\ \E end \in {"answered", "failed"} : Step(r, "read", [request[r] EXCEPT !.at = end, !.read = <<>>, !.context = {}])
  /\ stored' = [stored EXCEPT ![request[r].session] = Longer(r)]

\* An exception in any of these steps: 400 or 500.
Raise(r) ==
  /\ r \in Active
  /\ request' = [request EXCEPT ![r] = [@ EXCEPT !.at = "failed", !.read = <<>>, !.context = {}]]
  /\ UNCHANGED stored

\* The service stops or is restarted with requests under way.
ServerRestarts ==
  /\ Active # {}
  /\ request' = [r \in Requests |-> IF r \in Active THEN [request[r] EXCEPT !.at = "failed", !.read = <<>>, !.context = {}]
                                                    ELSE request[r]]
  /\ UNCHANGED stored

\* /api/session/clear
ClearSession(s) == stored' = [stored EXCEPT ![s] = <<>>] /\ UNCHANGED request

Work(r) == ReadSession(r) \/ ReadTurns(r) \/ WriteTurns(r) \/ Raise(r)
ServerNext == ServerRestarts \/ \E r \in Requests : Work(r)

\* A thread goes on until its request ends: every call it makes has a timeout.
ServerFairness == \A r \in Requests : WF_serverVars(Work(r))
=============================================================================
