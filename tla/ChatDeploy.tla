------------------------------ MODULE ChatDeploy ------------------------------
(***************************************************************************)
(* scripts/deploy-chat.py: one commit of a checkout put into the           *)
(* installation Boat Chat runs from, or a receipt rolled back.  The helper *)
(* holds the installation's lock; the checkout belongs to a developer and  *)
(* the installation's files may be edited by others while it works.        *)
(*                                                                         *)
(* A file's content is a version.  Signatures, the mirror's fetch and the  *)
(* export of a tree are what they decide; the tests are a choice.  A       *)
(* file's digest and its replacement are one step.                         *)
(***************************************************************************)
EXTENDS Integers, Sequences

CONSTANTS
  Files,     \* the allowlisted files of every commit, in the order deployed: app.py is last
  BotFile,   \* telegram_bot.py
  Content,   \* [Commits -> [Files -> version]], Absent where a commit has no such file
  Signed,    \* commits with a valid signature
  Bad,       \* versions with which the service never becomes ready
  Absent, Edited,
  MaxMoves, MaxEdits, MaxFailures, MaxRuns   \* bounds

Commits == DOMAIN Content
Names == {Files[k] : k \in DOMAIN Files}

ASSUME DeployAssumption ==
  /\ BotFile \in Names
  /\ Signed \subseteq Commits /\ \A c \in Commits : Content[c] = [f \in Names |-> Content[c][f]]

VARIABLES
  origin, checkout,  \* the pinned remote's head; the checkout: [head, dirty]
  installed,         \* file -> version
  running,           \* unit -> the versions it was started with; Nothing for a unit that is off
  receipts,          \* receipt.json files: [before, after, units]
  helper,            \* the helper, or Nothing
  outcome,           \* what the last run said
  owed,              \* history: units not started since the helper wrote a file they use
  moves, edits, failures, runs

deployVars == <<origin, checkout, installed, running, receipts, helper, outcome, owed, moves, edits, failures, runs>>
world == <<origin, checkout, moves, edits>>

Nothing == <<>>
Units == {"chat", "telegram"}
Uses(unit) == IF unit = "chat" THEN Names ELSE {BotFile}
Owes(f) == owed' = owed \cup {u \in Units : f \in Uses(u)}

\* What is first of a set of files or units: the files are in order, and the chat comes before the bot.
Order == Files \o <<"chat", "telegram">>
Earlier(x, y) == \E m, n \in DOMAIN Order : m < n /\ Order[m] = x /\ Order[n] = y
IsFirst(x, S) == x \in S /\ \A y \in S : ~Earlier(y, x)

-----------------------------------------------------------------------------
(* Everyone else                                                             *)

Push(c) == /\ moves < MaxMoves /\ origin' = c /\ moves' = moves + 1
           /\ UNCHANGED <<checkout, installed, running, receipts, helper, outcome, edits, failures, runs, owed>>

Develop(c, d) == /\ moves < MaxMoves /\ checkout' = [head |-> c, dirty |-> d] /\ moves' = moves + 1
                 /\ UNCHANGED <<origin, installed, running, receipts, helper, outcome, edits, failures, runs, owed>>

Edit(f) == /\ edits < MaxEdits /\ installed' = [installed EXCEPT ![f] = Edited] /\ edits' = edits + 1
           /\ UNCHANGED <<origin, checkout, running, receipts, helper, outcome, moves, failures, runs, owed>>

-----------------------------------------------------------------------------
(* main                                                                      *)

End(said) == helper' = Nothing /\ outcome' = said
Goto(place) == helper' = [helper EXCEPT !.pc = place] /\ UNCHANGED outcome
At(place) == helper # Nothing /\ helper.pc = place

\* pull_verified fast-forwards the checkout to the remote's verified head; verify_checkout_head takes
\* the checkout's.  Either is refused unsigned, and a dirty checkout first of all.
Start(pull) ==
  LET sha == IF pull THEN origin ELSE checkout.head IN
  /\ helper = Nothing /\ runs < MaxRuns /\ runs' = runs + 1
  /\ IF checkout.dirty \/ sha \notin Signed THEN End("refused") /\ UNCHANGED checkout
     ELSE /\ checkout' = [checkout EXCEPT !.head = sha]
          /\ helper' = [pc |-> "test", sha |-> sha, receipt |-> Nothing, todo |-> {}, units |-> {}, then |-> ""]
          /\ UNCHANGED outcome
  /\ UNCHANGED <<origin, installed, running, receipts, moves, edits, failures, owed>>

\* The source's checker and tests run on the exported tree and may take minutes.
Test ==
  /\ At("test") /\ (Goto("compare") \/ End("refused"))
  /\ UNCHANGED <<origin, checkout, installed, running, receipts, moves, edits, failures, runs, owed>>

\* The tree the files are read from: the verified commit's, exported, not the checkout.
TreeMutant == checkout.head
Tree == helper.sha
Unchanged == checkout = [head |-> helper.sha, dirty |-> FALSE]
Changed == {f \in Names : Content[Tree][f] # Absent /\ Content[Tree][f] # installed[f]}
RestartPlan == IF BotFile \in Changed /\ running["telegram"] # Nothing THEN Units ELSE {"chat"}

\* assert_unchanged, deploy_files, update_units, and apply's backup and receipt
Compare ==
  /\ At("compare")
  /\ IF ~Unchanged THEN End("refused") /\ UNCHANGED receipts
     ELSE IF Changed = {} THEN End("nothing") /\ UNCHANGED receipts
     ELSE LET receipt == [before |-> [f \in Changed |-> installed[f]],
                          after |-> [f \in Changed |-> Content[Tree][f]], units |-> RestartPlan] IN
          /\ receipts' = receipts \cup {receipt}
          /\ helper' = [helper EXCEPT !.pc = "write", !.receipt = receipt, !.units = RestartPlan,
                                !.todo = Changed]
          /\ UNCHANGED outcome
  /\ UNCHANGED <<world, installed, running, failures, runs, owed>>

RecoveryFailed == End(IF helper.then = "manual" THEN "rollback failed" ELSE "recovery failed")
Fails == failures < MaxFailures /\ failures' = failures + 1
Done(x) == helper' = [helper EXCEPT !.todo = @ \ {x}]

\* apply: a file that is not as it was backed up, or cannot be written, rolls back what was done.
InstallFile(f) ==
  /\ At("write") /\ IsFirst(f, helper.todo)
  /\ \/ /\ installed[f] = helper.receipt.before[f] /\ installed' = [installed EXCEPT ![f] = Content[Tree][f]]
        /\ Done(f) /\ Owes(f) /\ UNCHANGED <<outcome, failures>>
     \/ /\ (installed[f] # helper.receipt.before[f] /\ UNCHANGED failures) \/ Fails
        /\ helper' = [helper EXCEPT !.pc = "validate", !.then = "partial"] /\ UNCHANGED <<installed, outcome, owed>>
  /\ UNCHANGED <<world, running, receipts, runs>>

AllInstalled ==
  /\ At("write") /\ helper.todo = {} /\ helper' = [helper EXCEPT !.pc = "restart", !.then = "deployed", !.todo = helper.units]
  /\ UNCHANGED <<world, installed, running, receipts, outcome, failures, runs, owed>>

\* restart_units; the first unit that does not restart is an exception.
RestartUnit(u) ==
  /\ At("restart") /\ IsFirst(u, helper.todo)
  /\ \/ running' = [running EXCEPT ![u] = installed] /\ owed' = owed \ {u} /\ Done(u) /\ UNCHANGED <<outcome, failures>>
     \/ /\ Fails /\ UNCHANGED <<running, owed>>
        /\ IF helper.then = "deployed" THEN helper' = [helper EXCEPT !.pc = "validate", !.then = "failed"] /\ UNCHANGED outcome
           ELSE RecoveryFailed
  /\ UNCHANGED <<world, installed, receipts, runs>>

Usable == \A f \in Names : running["chat"][f] \notin Bad

\* ready polls the health URL for ten seconds.
Ready ==
  /\ At("restart") /\ helper.todo = {}
  /\ \/ Usable /\ End(CASE helper.then = "deployed" -> "ready"
                        [] helper.then = "failed"   -> "restored"
                        [] OTHER                 -> "rolled back") /\ UNCHANGED failures
     \/ /\ (~Usable /\ UNCHANGED failures) \/ Fails
        /\ IF helper.then = "deployed" THEN helper' = [helper EXCEPT !.pc = "validate", !.then = "failed"] /\ UNCHANGED outcome
           ELSE RecoveryFailed
  /\ UNCHANGED <<world, installed, running, receipts, runs, owed>>

-----------------------------------------------------------------------------
(* rollback: the whole receipt is checked before anything is restored.       *)

MayRestore(receipt, partial) ==
  \A f \in DOMAIN receipt.after :
    installed[f] = receipt.after[f] \/ (partial /\ installed[f] = receipt.before[f])

StartRollback(receipt) ==
  /\ helper = Nothing /\ runs < MaxRuns /\ runs' = runs + 1
  /\ helper' = [pc |-> "validate", sha |-> checkout.head, receipt |-> receipt, todo |-> {}, units |-> receipt.units,
             then |-> "manual"]
  /\ UNCHANGED <<world, installed, running, receipts, outcome, failures, owed>>

Validate ==
  /\ At("validate")
  /\ IF MayRestore(helper.receipt, helper.then = "partial")
     THEN /\ helper' = [helper EXCEPT !.pc = "restore", !.todo = DOMAIN helper.receipt.after]
          /\ UNCHANGED outcome
     ELSE End("edits block it")
  /\ UNCHANGED <<world, installed, running, receipts, failures, runs, owed>>

RestoreFile(f) ==
  /\ At("restore") /\ IsFirst(f, helper.todo)
  /\ \/ /\ installed' = [installed EXCEPT ![f] = helper.receipt.before[f]]
        /\ Done(f) /\ Owes(f) /\ UNCHANGED <<outcome, failures>>
     \/ Fails /\ RecoveryFailed /\ UNCHANGED <<installed, owed>>
  /\ UNCHANGED <<world, running, receipts, runs>>

\* A deployment that could not be written restarts nothing: the running code is what was restored.
Restored ==
  /\ At("restore") /\ helper.todo = {}
  /\ IF helper.then = "partial" THEN End("not written")
     ELSE helper' = [helper EXCEPT !.pc = "restart", !.todo = helper.units] /\ UNCHANGED outcome
  /\ UNCHANGED <<world, installed, running, receipts, failures, runs, owed>>

\* The helper is killed, or the host loses power and starts everything again.
Crash ==
  /\ helper # Nothing /\ Fails /\ End("crashed")
  /\ \/ UNCHANGED <<running, owed>>
     \/ running' = [u \in Units |-> IF running[u] = Nothing THEN Nothing ELSE installed] /\ owed' = {}
  /\ UNCHANGED <<world, installed, receipts, runs>>

-----------------------------------------------------------------------------
DeployInit ==
  /\ origin \in Commits /\ \E c \in Signed : checkout = [head |-> c, dirty |-> FALSE] /\ installed = Content[c]
  /\ running \in {[u \in Units |-> installed], [u \in Units |-> IF u = "chat" THEN installed ELSE Nothing]}
  /\ receipts = {} /\ helper = Nothing /\ outcome = "" /\ owed = {} /\ moves = 0 /\ edits = 0 /\ failures = 0 /\ runs = 0

DeployNext ==
  \/ \E c \in Commits : Push(c) \/ \E d \in BOOLEAN : Develop(c, d)
  \/ \E f \in Names : Edit(f) \/ InstallFile(f) \/ RestoreFile(f)
  \/ \E pull \in BOOLEAN : Start(pull)
  \/ Test \/ Compare \/ AllInstalled \/ Ready
  \/ \E u \in Units : RestartUnit(u)
  \/ \E receipt \in receipts : StartRollback(receipt)
  \/ Validate \/ Restored \/ Crash

DeploySpec == DeployInit /\ [][DeployNext]_deployVars

-----------------------------------------------------------------------------
(* Nothing is installed, or run, that was not there before, edited by others *)
(* or in a signed commit: not what the checkout became during the tests.     *)
Known == {Edited, Absent} \cup {Content[c][f] : c \in Signed, f \in Names}
VerifiedOnly ==
  /\ \A f \in Names : installed[f] \in Known
  /\ \A u \in Units : running[u] # Nothing => \A f \in Names : running[u][f] \in Known

(* What a run reports is so when it ends.  Ready: every file of the commit   *)
(* is installed.  Restored or rolled back: every file of the receipt is as   *)
(* it was before.  Either way each unit that is on was started with the      *)
(* files it uses as they are installed, whichever run wrote them.  Not       *)
(* written: nothing of the commit is left.                                   *)
(* The exceptions: files edited meanwhile are the editor's; and when an      *)
(* earlier run wrote the bot's file and ended before it started the bot (it  *)
(* was killed, failed to recover, or took back what it wrote), a run that    *)
(* has no need to write that file leaves the bot as it runs, and is ready.   *)
LeftBehind(u) == u = "telegram" /\ u \in owed /\ BotFile \notin DOMAIN helper.receipt.after
ReportHonest ==
  helper # Nothing /\ helper' = Nothing =>
    LET as(version, f) == installed'[f] \in {version[f], Edited}
        started == \A u \in Units : edits = 0 /\ running[u] # Nothing /\ ~LeftBehind(u) =>
                     \A f \in Uses(u) : running'[u][f] = installed'[f]
    IN /\ outcome' = "ready" =>
            started /\ \A f \in Names : Content[helper.sha][f] # Absent => as(Content[helper.sha], f)
       /\ outcome' \in {"restored", "rolled back"} =>
            started /\ \A f \in DOMAIN helper.receipt.after : as(helper.receipt.before, f)
       /\ outcome' = "not written" => \A f \in DOMAIN helper.receipt.after : as(helper.receipt.before, f)

\* Both: no step brings in what is not verified, and what a deployment reports is so.
DeployTrue == [][VerifiedOnly' /\ ReportHonest]_deployVars
===============================================================================
