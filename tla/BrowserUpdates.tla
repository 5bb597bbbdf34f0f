---------------------------- MODULE BrowserUpdates ----------------------------
(***************************************************************************)
(* The control panel's lifecycle slot and the detached browser update      *)
(* (control-panel/app.py and browser_updates.py).                          *)
(*                                                                         *)
(* Request threads of the panel save settings, run a command (OperationStore) *)
(* or launch a worker in the systemd unit vesselstack-browser-update, and  *)
(* the browser polls.  LIFECYCLE_LOCK (gate) excludes the threads of one   *)
(* panel, flock on browser-update.lock (flock) excludes panel and worker,  *)
(* and the durable record says what ran last.  Only who holds the flock    *)
(* writes the record, by an atomic replace.                                *)
(*                                                                         *)
(* Abstractions.  An operation id is a counter.  Downloads, preflight,     *)
(* mount and backup are the phase "preparing".  A crashed panel is up      *)
(* again at once (Restart=on-failure).  systemd, the commands run and the  *)
(* browser are external.                                                   *)
(***************************************************************************)
EXTENDS Naturals, FiniteSets

CONSTANTS
  Threads,       \* request threads of the panel
  MaxOps,        \* bound: detached operations recorded
  MaxVersion,    \* bound: the newest release there is
  MaxCrashes,    \* bound: panel crashes, worker crashes and power cuts
  MaxTimeouts    \* bound: systemd-run calls that take more than 15 s

ASSUME PanelAssumption ==
  /\ MaxOps \in Nat /\ MaxVersion \in Nat
  /\ MaxCrashes \in Nat /\ MaxTimeouts \in Nat

None   == "none"
Worker == "worker"

ASSUME HoldersDiffer == None \notin Threads /\ Worker \notin Threads

Launches == {"restart-panel", "update-release"}
Tasks    == Launches \cup {"poll", "config", "command"}

VARIABLES
  pc,         \* where thread t is in its request
  task,       \* what the request of t is, None when it is idle
  gate,       \* holder of LIFECYCLE_LOCK
  flock,      \* holder of the flock on browser-update.lock
  record,     \* browser-update.json: id and state
  command,    \* state of OperationStore.current
  unit,       \* the systemd unit: where its worker is, its request, the record it works on
  panel,      \* PROCESS_BOOT_ID and version of the running panel
  installed,  \* version in installer/VERSION
  crashes, timeouts   \* budgets spent

panelVars == <<pc, task, gate, command>>
vars == <<panelVars, flock, record, unit, panel, installed, crashes, timeouts>>

Done == {"succeeded", "failed"}
NoRequest == [id |-> 0, action |-> None, old |-> 0, target |-> 0]
NoUnit == [at |-> "absent", req |-> NoRequest, op |-> [id |-> 0, state |-> "idle"]]

\* The worker does something to the system, or reports that it did.
Acting == {"preparing", "installing", "restarting", "verifying", "finishing"}

Init ==
  /\ pc = [t \in Threads |-> "idle"]
  /\ task = [t \in Threads |-> None]
  /\ gate = None /\ flock = None
  /\ record = [id |-> 0, state |-> "idle"]
  /\ command = "idle"
  /\ unit = NoUnit
  /\ panel = [boot |-> 1, version |-> 0]
  /\ installed = 0
  /\ crashes = 0 /\ timeouts = 0

Go(t, where) == pc' = [pc EXCEPT ![t] = where]
Answer(t)    == Go(t, "idle") /\ task' = [task EXCEPT ![t] = None]

-----------------------------------------------------------------------------
(* Admission of a request: take_lifecycle_slot, acquire_slot, and           *)
(* public_operation for a poll, which takes the flock but not the gate.     *)

\* public_operation: a record that says "running" is looked at again under the flock.
PollReads(t) ==
  /\ pc[t] = "idle" /\ record.state = "running"
  /\ Go(t, "wanting") /\ task' = [task EXCEPT ![t] = "poll"]
  /\ UNCHANGED <<gate, command, flock, record, unit, panel, installed, crashes, timeouts>>

\* A request that finds the gate taken is refused at once.  A release update is refused first
\* while OperationStore runs a command.
Request(t, k) ==
  /\ pc[t] = "idle" /\ gate = None
  /\ k = "update-release" => command # "running" /\ installed < MaxVersion
  /\ k \in Launches => record.id < MaxOps
  /\ gate' = t
  /\ Go(t, "wanting") /\ task' = [task EXCEPT ![t] = k]
  /\ UNCHANGED <<command, flock, record, unit, panel, installed, crashes, timeouts>>

\* Where a request goes when it gives the flock up: a poll answers, the others leave the gate.
Leave(t) ==
  /\ flock' = IF flock = t THEN None ELSE flock
  /\ IF task[t] = "poll" THEN Answer(t) ELSE Go(t, "leaving") /\ task' = task

\* Mutant. acquire_slot raises and take_lifecycle_slot keeps the gate.

\* acquire_slot: BlockingIOError.
FlockBusy(t) ==
  /\ pc[t] = "wanting" /\ flock # None
  /\ Leave(t)
  /\ UNCHANGED <<gate, command, record, unit, panel, installed, crashes, timeouts>>

\* Mutant. The poll marks what it read before it had the flock.
TakeFlockMutant(t) ==
  /\ pc[t] = "wanting" /\ flock = None
  /\ flock' = t
  /\ Go(t, IF record.state = "running" \/ task[t] = "poll" THEN "probing" ELSE "admitted")
  /\ UNCHANGED <<task, gate, command, record, unit, panel, installed, crashes, timeouts>>

\* acquire_slot: the record is read under the flock.
TakeFlock(t) ==
  /\ pc[t] = "wanting" /\ flock = None
  /\ flock' = t
  /\ Go(t, IF record.state = "running" THEN "probing" ELSE "admitted")
  /\ UNCHANGED <<task, gate, command, record, unit, panel, installed, crashes, timeouts>>

\* Mutant. A unit that is "activating" is taken for one that is gone.
UnitGoneMutant == unit.at \in {"absent", "starting"}

\* systemctl is-active: "inactive" or "failed" only of a unit that is not there; a unit that is
\* starting is "activating".
UnitGone == unit.at = "absent"

\* Mutant. An interrupted operation is refused, never marked.
ProbeGoneMutant(t) ==
  /\ pc[t] = "probing" /\ unit.at = "exiting"
  /\ Go(t, "marking")
  /\ UNCHANGED <<task, gate, command, flock, record, unit, panel, installed, crashes, timeouts>>

ProbeGone(t) ==
  /\ pc[t] = "probing" /\ UnitGone
  /\ Go(t, "marking")
  /\ UNCHANGED <<task, gate, command, flock, record, unit, panel, installed, crashes, timeouts>>

\* The unit is there, or systemctl could not tell in 3 s.
ProbeRefuses(t) ==
  /\ pc[t] = "probing"
  /\ Leave(t)
  /\ UNCHANGED <<gate, command, record, unit, panel, installed, crashes, timeouts>>

MarkInterrupted(t) ==
  /\ pc[t] = "marking"
  /\ record' = [record EXCEPT !.state = "failed"]
  /\ Go(t, "admitted")
  /\ UNCHANGED <<task, gate, command, flock, unit, panel, installed, crashes, timeouts>>

\* public_operation releases the slot and answers with the record.
PollAnswers(t) ==
  /\ pc[t] = "admitted" /\ task[t] = "poll"
  /\ Leave(t)
  /\ UNCHANGED <<gate, command, record, unit, panel, installed, crashes, timeouts>>

\* release_lifecycle_slot, and the except branch of take_lifecycle_slot: the gate goes last.
LeaveGate(t) ==
  /\ pc[t] \in {"leaving", "ending"}
  /\ gate' = None
  /\ IF pc[t] = "ending" THEN Go(t, "closing") /\ task' = task ELSE Answer(t)
  /\ UNCHANGED <<command, flock, record, unit, panel, installed, crashes, timeouts>>

\* Anything that raises between admission and the first effect: a bad setting, a release that
\* changed, a command that is not allowed.
GiveUp(t) ==
  /\ pc[t] = "admitted" /\ task[t] # "poll"
  /\ Leave(t)
  /\ UNCHANGED <<gate, command, record, unit, panel, installed, crashes, timeouts>>

-----------------------------------------------------------------------------
(* What an admitted request does.                                           *)

\* update_configuration: the files are written under the slot.
WriteConfig(t) ==
  /\ pc[t] = "admitted" /\ task[t] = "config"
  /\ Go(t, "writing")
  /\ UNCHANGED <<task, gate, command, flock, record, unit, panel, installed, crashes, timeouts>>

\* Written, or put back from the backup.
ConfigEnds(t) ==
  /\ pc[t] = "writing"
  /\ Leave(t)
  /\ UNCHANGED <<gate, command, record, unit, panel, installed, crashes, timeouts>>

\* OperationStore.start: refused while the last operation is not marked finished yet.
StartCommand(t) ==
  /\ pc[t] = "admitted" /\ task[t] = "command" /\ command # "running"
  /\ command' = "running"
  /\ Go(t, "running")
  /\ UNCHANGED <<task, gate, flock, record, unit, panel, installed, crashes, timeouts>>

\* OperationStore._run: the command has ended (an update from a folder may have installed another
\* version) and the slot is released before the operation is marked finished.
CommandEnds(t) ==
  /\ pc[t] = "running"
  /\ installed' \in installed .. MaxVersion
  /\ flock' = None
  /\ Go(t, "ending")
  /\ UNCHANGED <<task, gate, command, record, unit, panel, crashes, timeouts>>

MarkFinished(t) ==
  /\ pc[t] = "closing"
  /\ command' = "finished"
  /\ Answer(t)
  /\ UNCHANGED <<gate, flock, record, unit, panel, installed, crashes, timeouts>>

\* start_detached: the record says "running" before systemd is asked.
RecordRunning(t) ==
  /\ pc[t] = "admitted" /\ task[t] \in Launches /\ record.state # "running"
  /\ record' = [id |-> record.id + 1, state |-> "running"]
  /\ Go(t, "recorded")
  /\ UNCHANGED <<task, gate, command, flock, unit, panel, installed, crashes, timeouts>>

\* The request of the job: the installed version for a restart, a newer release for an update.
Target(k, v) == IF k = "restart-panel" THEN v = installed ELSE v \in installed + 1 .. MaxVersion

\* systemd-run: the unit name is free and the start job is queued.
AskSystemd(t) ==
  /\ pc[t] = "recorded" /\ unit.at = "absent"
  /\ \E v \in 0 .. MaxVersion :
       /\ Target(task[t], v)
       /\ unit' = [NoUnit EXCEPT !.at = "starting",
                     !.req = [id |-> record.id, action |-> task[t], old |-> panel.boot, target |-> v]]
  /\ Go(t, "launching")
  /\ UNCHANGED <<task, gate, command, flock, record, panel, installed, crashes, timeouts>>

\* systemd-run returns once the worker is executed (Type=exec).
LaunchReturns(t) ==
  /\ pc[t] = "launching" /\ unit.at # "starting"
  /\ Leave(t)
  /\ UNCHANGED <<gate, command, record, unit, panel, installed, crashes, timeouts>>

\* start_detached's except branch.
RecordFailed(t) ==
  /\ record' = [record EXCEPT !.state = "failed"]
  /\ Go(t, "failing")

\* systemd refuses (the name may still be loaded) or the start job failed.
LaunchFails(t) ==
  /\ \/ pc[t] = "recorded"
     \/ pc[t] = "launching" /\ unit.at = "absent"
  /\ RecordFailed(t)
  /\ UNCHANGED <<task, gate, command, flock, unit, panel, installed, crashes, timeouts>>

\* The 15 s of subprocess.run are over: systemd-run is killed, the start job is not.
LaunchTimesOut(t) ==
  /\ pc[t] = "launching" /\ unit.at = "starting" /\ timeouts < MaxTimeouts
  /\ timeouts' = timeouts + 1
  /\ RecordFailed(t)
  /\ UNCHANGED <<task, gate, command, flock, unit, panel, installed, crashes>>

LaunchRaises(t) ==
  /\ pc[t] = "failing"
  /\ Leave(t)
  /\ UNCHANGED <<gate, command, record, unit, panel, installed, crashes, timeouts>>

-----------------------------------------------------------------------------
(* The detached worker: run_worker and run_update.                          *)

\* systemd: the worker is executed and waits for the lock, or cannot be started.
WorkerStarts ==
  /\ unit.at = "starting"
  /\ unit' \in {[unit EXCEPT !.at = "waiting"], NoUnit}
  /\ UNCHANGED <<panelVars, flock, record, panel, installed, crashes, timeouts>>

\* Mutant. The worker does not wait for the flock.
TakeRunnerLockMutant ==
  /\ unit.at = "waiting"
  /\ flock' = Worker
  /\ unit' = [unit EXCEPT !.op = record,
                !.at = IF record.id # unit.req.id THEN "finishing"
                       ELSE IF unit.req.action = "update-release" THEN "preparing"
                       ELSE "restarting"]
  /\ UNCHANGED <<panelVars, record, panel, installed, crashes, timeouts>>

\* acquire_runner_lock waits for the flock; a record of another operation ends the worker.
TakeRunnerLock ==
  /\ unit.at = "waiting" /\ flock = None
  /\ flock' = Worker
  /\ unit' = [unit EXCEPT !.op = record,
                !.at = IF record.id # unit.req.id THEN "finishing"
                       ELSE IF unit.req.action = "update-release" THEN "preparing"
                       ELSE "restarting"]
  /\ UNCHANGED <<panelVars, record, panel, installed, crashes, timeouts>>

\* operation.update(phase=...); write_operation.
Phase(where) ==
  /\ unit' = [unit EXCEPT !.at = where]
  /\ record' = unit.op

\* operation.update(state=...): in the worker's copy, written when it finishes.
EndsAs(state) == [unit EXCEPT !.at = "finishing", !.op = [id |-> unit.op.id, state |-> state]]

\* Mutant. A result that read_operation does not know.

\* run_worker's except branch: written when the worker finishes.
Fails == unit' = EndsAs("failed") /\ record' = record

\* run_update up to install.sh; the release must still be newer than what is installed.
Prepare ==
  /\ unit.at = "preparing"
  /\ \/ Phase("installing") /\ unit.req.target > installed
     \/ Fails
  /\ UNCHANGED <<panelVars, flock, panel, installed, crashes, timeouts>>

\* install.sh --start; one that fails may have replaced the version or not.
Install ==
  /\ unit.at = "installing"
  /\ \/ Phase("restarting") /\ installed' = unit.req.target
     \/ Fails /\ installed' \in {installed, unit.req.target}
  /\ UNCHANGED <<panelVars, flock, panel, crashes, timeouts>>

\* The panel process is replaced: its threads, its locks and OperationStore are gone.
NewPanel ==
  /\ pc' = [t \in Threads |-> "idle"]
  /\ task' = [t \in Threads |-> None]
  /\ gate' = None
  /\ command' = "idle"
  /\ panel' = [boot |-> panel.boot + 1, version |-> installed']

\* systemctl restart vesselstack-control-panel.service; one that fails or takes 60 s may have
\* replaced the panel.
RestartPanel ==
  /\ unit.at = "restarting"
  /\ UNCHANGED <<flock, installed, crashes, timeouts>>
  /\ \/ NewPanel /\ (Phase("verifying") \/ Fails)
     \/ UNCHANGED <<panelVars, panel>> /\ Fails

\* verify_restart: another process answers and runs the target version.
Verified == panel.boot # unit.req.old /\ panel.version = unit.req.target

VerifyRestart ==
  /\ unit.at = "verifying"
  /\ \/ /\ Verified
        /\ unit' = EndsAs("succeeded")
        /\ record' = record
     \/ Fails    \* 60 s without the answer
  /\ UNCHANGED <<panelVars, flock, panel, installed, crashes, timeouts>>

\* run_worker's finally: the record is written and the flock released.
FinishWorker ==
  /\ unit.at = "finishing"
  /\ record' = unit.op
  /\ flock' = None
  /\ unit' = [unit EXCEPT !.at = "exiting"]
  /\ UNCHANGED <<panelVars, panel, installed, crashes, timeouts>>

\* --collect: the unit is unloaded with its process.
WorkerExits ==
  /\ unit.at = "exiting"
  /\ unit' = NoUnit
  /\ UNCHANGED <<panelVars, flock, record, panel, installed, crashes, timeouts>>

-----------------------------------------------------------------------------
(* Failures.                                                                *)

\* What was being installed may be in place.
CommandTorn == IF \E t \in Threads : pc[t] = "running" THEN installed .. MaxVersion ELSE {installed}
WorkerTorn  == IF unit.at = "installing" THEN {installed, unit.req.target} ELSE {installed}

CrashPanel ==
  /\ crashes < MaxCrashes /\ crashes' = crashes + 1
  /\ installed' \in CommandTorn
  /\ NewPanel
  /\ flock' = IF flock \in Threads THEN None ELSE flock
  /\ UNCHANGED <<record, unit, timeouts>>

CrashWorker ==
  /\ crashes < MaxCrashes /\ crashes' = crashes + 1
  /\ unit.at \notin {"absent", "starting"}
  /\ installed' \in WorkerTorn
  /\ unit' = NoUnit
  /\ flock' = IF flock = Worker THEN None ELSE flock
  /\ UNCHANGED <<panelVars, record, panel, timeouts>>

PowerCut ==
  /\ crashes < MaxCrashes /\ crashes' = crashes + 1
  /\ installed' \in CommandTorn \cup WorkerTorn
  /\ NewPanel
  /\ unit' = NoUnit
  /\ flock' = None
  /\ UNCHANGED <<record, timeouts>>

-----------------------------------------------------------------------------
ThreadStep(t) ==
  \/ FlockBusy(t) \/ TakeFlock(t) \/ ProbeGone(t) \/ ProbeRefuses(t) \/ MarkInterrupted(t)
  \/ PollAnswers(t) \/ LeaveGate(t) \/ GiveUp(t)
  \/ WriteConfig(t) \/ ConfigEnds(t)
  \/ StartCommand(t) \/ CommandEnds(t) \/ MarkFinished(t)
  \/ RecordRunning(t) \/ AskSystemd(t) \/ LaunchReturns(t)
  \/ LaunchFails(t) \/ LaunchTimesOut(t) \/ LaunchRaises(t)

WorkerStep ==
  \/ WorkerStarts \/ TakeRunnerLock \/ Prepare \/ Install \/ RestartPanel \/ VerifyRestart
  \/ FinishWorker \/ WorkerExits

Next ==
  \/ \E t \in Threads : PollReads(t) \/ ThreadStep(t) \/ \E k \in Tasks \ {"poll"} : Request(t, k)
  \/ WorkerStep
  \/ CrashPanel \/ CrashWorker \/ PowerCut

Spec == Init /\ [][Next]_vars

\* Every step of a request and of the worker is taken in the end: the commands of the worker have
\* timeouts and those of the panel are assumed to end; the browser polls while it shows an
\* operation; systemctl is-active does not time out for ever; the flock wakes a blocked worker in
\* the end, whatever polls take it for an instant.
Fairness ==
  /\ \A t \in Threads : /\ WF_vars(ThreadStep(t))
                       /\ WF_vars(PollReads(t))
                       /\ SF_vars(ProbeGone(t))
  /\ WF_vars(WorkerStep) /\ SF_vars(TakeRunnerLock)

FairSpec == Spec /\ Fairness

-----------------------------------------------------------------------------
(* Properties.                                                              *)

Places     == {"idle", "wanting", "probing", "marking", "admitted", "writing", "running", "ending",
               "closing", "recorded", "launching", "failing", "leaving"}
UnitPlaces == Acting \cup {"absent", "starting", "waiting", "exiting"}
States     == Done \cup {"idle", "running"}
Requests   == [id : Nat, action : Tasks \cup {None}, old : Nat, target : Nat]
Records    == [id : Nat, state : States]

\* The types of the panel, the record and the unit.
TypeOK ==
  /\ pc \in [Threads -> Places]
  /\ task \in [Threads -> Tasks \cup {None}]
  /\ gate \in Threads \cup {None}
  /\ flock \in Threads \cup {None, Worker}
  /\ record \in Records
  /\ command \in {"idle", "running", "finished"}
  /\ unit \in [at : UnitPlaces, req : Requests, op : Records]
  /\ panel \in [boot : Nat, version : Nat]
  /\ installed \in Nat
  /\ crashes \in 0 .. MaxCrashes /\ timeouts \in 0 .. MaxTimeouts

\* The steps in which a request changes the system.
Busy == {"writing", "running"}

\* docs/CONTROL_PANEL.md: lifecycle changes cannot overlap.  Of the panel's commands, its writes of
\* the settings and the detached worker, one acts at a time, through crashes of either side.
OneAtATime ==
  /\ \A s, t \in Threads : pc[s] \in Busy /\ pc[t] \in Busy => s = t
  /\ unit.at \in Acting => \A t \in Threads : pc[t] \notin Busy

\* acquire_slot: between the launch of a worker and the time it has the lock, and until its result
\* is written, no request is admitted nor is the worker taken for interrupted.
ClaimRespected ==
  unit.at \notin {"absent", "exiting"} /\ record = [id |-> unit.req.id, state |-> "running"] =>
    \A t \in Threads : pc[t] \notin Busy \cup {"marking", "admitted", "recorded"}

SuccessKept ==
  /\ record'.state = "succeeded" /\ record.state # "succeeded" =>
       record'.id = unit.req.id /\ panel.boot > unit.req.old /\ panel.version = unit.req.target
  /\ record.state = "succeeded" => record'.state = "succeeded" \/ record'.id # record.id

\* run_worker, public_operation: a result that says "succeeded" is true when it is written (the
\* panel is another process and runs the version asked for), and is not taken back.
SuccessStands == [][SuccessKept]_vars

\* Whatever crashes, an operation that says "running" gets a result: the worker's, or that it was
\* interrupted.
OperationEnds == record.state = "running" ~> record.state # "running"

\* No path through take_lifecycle_slot or its callers keeps the gate.
GateReturns == \A t \in Threads : gate = t ~> gate # t

\* docs/CONTROL_PANEL.md: while an operation runs, the panel shows that it does (and disables the
\* other buttons).  The durable record is what it shows of a worker.
WorkerShown == unit.at \in Acting \ {"finishing"} /\ unit.op.id = unit.req.id => record.state = "running"

=============================================================================
