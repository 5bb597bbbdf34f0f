------------------------- MODULE BrowserUpdatesProofs -------------------------
(***************************************************************************)
(* Proofs about the lifecycle slot, for any number of request threads,     *)
(* operations, crashes and timeouts.                                       *)
(***************************************************************************)
EXTENDS BrowserUpdates, TLAPS

\* Where a request holds the flock.
Held == {"probing", "marking", "admitted", "writing", "running", "recorded", "launching", "failing"}

\* The flock is where the program counters say.
FlockHeld ==
  /\ \A t \in Threads : pc[t] \in Held => flock = t
  /\ unit.at \in Acting => flock = Worker

\* The worker's request is not of the future, and its copy of the record is of the record's operation.
RecordKnown ==
  /\ unit.at # "absent" => unit.req.id <= record.id
  /\ unit.at \in Acting => unit.op.id = record.id

SlotInv == TypeOK /\ FlockHeld /\ RecordKnown /\ ClaimRespected

USE DEF Held, Acting, Done, Places, UnitPlaces, States, Requests, Records, Launches, Tasks

LEMMA SlotInit == Init => SlotInv
<1> SUFFICES ASSUME Init PROVE SlotInv
  OBVIOUS
<1>1. TypeOK
  BY PanelAssumption DEF Init, TypeOK, NoUnit, NoRequest
<1>2. FlockHeld
  BY DEF Init, FlockHeld, NoUnit
<1>3. RecordKnown /\ ClaimRespected
  BY DEF Init, RecordKnown, ClaimRespected, NoUnit
<1> QED
  BY <1>1, <1>2, <1>3 DEF SlotInv

\* What the worker's steps do to the unit, field by field.
LEMMA PhaseShape ==
  ASSUME TypeOK, NEW where \in UnitPlaces, Phase(where)
  PROVE  /\ unit' \in [at : UnitPlaces, req : Requests, op : Records]
         /\ unit'.at = where /\ unit'.req = unit.req /\ unit'.op = unit.op
         /\ record' = unit.op /\ record' \in Records
<1> USE DEF TypeOK
<1> QED
  BY DEF Phase

LEMMA EndShape ==
  ASSUME TypeOK, NEW state \in Done, unit' = EndsAs(state)
  PROVE  /\ unit' \in [at : UnitPlaces, req : Requests, op : Records]
         /\ unit'.at = "finishing" /\ unit'.req = unit.req
         /\ unit'.op.id = unit.op.id /\ unit'.op.state = state
<1> USE DEF TypeOK
<1> QED
  BY DEF EndsAs

LEMMA WorkerShape ==
  ASSUME TypeOK, Prepare \/ Install \/ RestartPanel \/ VerifyRestart
  PROVE  /\ unit' \in [at : UnitPlaces, req : Requests, op : Records]
         /\ unit.at \in Acting /\ unit'.at \in Acting
         /\ unit'.req = unit.req /\ unit'.op.id = unit.op.id
         /\ record' \in Records /\ record' \in {record, unit.op}
         /\ flock' = flock /\ pc' \in [Threads -> Places]
         /\ \A t \in Threads : pc'[t] \in {pc[t], "idle"}
<1>1. record \in Records /\ pc \in [Threads -> Places]
  BY DEF TypeOK
<1>2. CASE Prepare
  BY <1>1, <1>2, PhaseShape, EndShape DEF Prepare, Fails, panelVars
<1>3. CASE Install
  BY <1>1, <1>3, PhaseShape, EndShape DEF Install, Fails, panelVars
<1>4. CASE RestartPanel
  BY <1>1, <1>4, PhaseShape, EndShape DEF RestartPanel, Fails, NewPanel, panelVars
<1>5. CASE VerifyRestart
  BY <1>1, <1>5, EndShape DEF VerifyRestart, Fails, panelVars
<1> QED
  BY <1>2, <1>3, <1>4, <1>5

\* Every step keeps the types.
LEMMA TypeStep == TypeOK /\ [Next]_vars => TypeOK'
<1> SUFFICES ASSUME TypeOK, [Next]_vars PROVE TypeOK'
  OBVIOUS
<1> USE PanelAssumption DEF TypeOK
<1>1. ASSUME NEW t \in Threads, PollReads(t) PROVE TypeOK'
  BY <1>1 DEF PollReads, Go, panelVars
<1>2. ASSUME NEW t \in Threads, NEW k \in Tasks \ {"poll"}, Request(t, k) PROVE TypeOK'
  BY <1>2 DEF Request, Go, panelVars
<1>3. ASSUME NEW t \in Threads, ThreadStep(t) PROVE TypeOK'
  <2>1. CASE FlockBusy(t)
    BY <2>1 DEF FlockBusy, Leave, Answer, Go, panelVars
  <2>2. CASE TakeFlock(t)
    BY <2>2 DEF TakeFlock, Go, panelVars
  <2>3. CASE ProbeGone(t)
    BY <2>3 DEF ProbeGone, Go, UnitGone, panelVars
  <2>4. CASE ProbeRefuses(t)
    BY <2>4 DEF ProbeRefuses, Leave, Answer, Go, panelVars
  <2>5. CASE MarkInterrupted(t)
    BY <2>5 DEF MarkInterrupted, Go, panelVars
  <2>6. CASE PollAnswers(t)
    BY <2>6 DEF PollAnswers, Leave, Answer, Go, panelVars
  <2>7. CASE LeaveGate(t)
    BY <2>7 DEF LeaveGate, Answer, Go, panelVars
  <2>8. CASE GiveUp(t)
    BY <2>8 DEF GiveUp, Leave, Answer, Go, panelVars
  <2>9. CASE WriteConfig(t)
    BY <2>9 DEF WriteConfig, Go, panelVars
  <2>10. CASE ConfigEnds(t)
    BY <2>10 DEF ConfigEnds, Leave, Answer, Go, panelVars
  <2>11. CASE StartCommand(t)
    BY <2>11 DEF StartCommand, Go, panelVars
  <2>12. CASE CommandEnds(t)
    BY <2>12 DEF CommandEnds, Go, panelVars
  <2>13. CASE MarkFinished(t)
    BY <2>13 DEF MarkFinished, Answer, Go, panelVars
  <2>14. CASE RecordRunning(t)
    BY <2>14 DEF RecordRunning, Go, panelVars
  <2>15. CASE AskSystemd(t)
    <3>1. PICK v \in 0 .. MaxVersion : unit' = [at |-> "starting",
            req |-> [id |-> record.id, action |-> task[t], old |-> panel.boot, target |-> v],
            op |-> [id |-> 0, state |-> "idle"]]
      BY <2>15 DEF AskSystemd, NoUnit
    <3>2. task[t] \in Tasks \cup {None}
      BY <2>15 DEF AskSystemd, TypeOK
    <3>3. unit' \in [at : UnitPlaces, req : Requests, op : Records]
      BY <3>1, <3>2
    <3> QED
      BY <2>15, <3>3 DEF AskSystemd, Go, panelVars
  <2>16. CASE LaunchReturns(t)
    BY <2>16 DEF LaunchReturns, Leave, Answer, Go, panelVars
  <2>17. CASE LaunchFails(t)
    BY <2>17 DEF LaunchFails, RecordFailed, Go, panelVars
  <2>18. CASE LaunchTimesOut(t)
    BY <2>18 DEF LaunchTimesOut, RecordFailed, Go, panelVars
  <2>19. CASE LaunchRaises(t)
    BY <2>19 DEF LaunchRaises, Leave, Answer, Go, panelVars
  <2> QED
    BY <1>3, <2>1, <2>2, <2>3, <2>4, <2>5, <2>6, <2>7, <2>8, <2>9, <2>10, <2>11, <2>12, <2>13, <2>14, <2>15, <2>16, <2>17, <2>18, <2>19 DEF ThreadStep
<1>4. CASE WorkerStarts
  BY <1>4 DEF WorkerStarts, panelVars, NoUnit, NoRequest
<1>5. CASE TakeRunnerLock
  BY <1>5 DEF TakeRunnerLock, panelVars
<1>6. CASE Prepare
  BY <1>6, WorkerShape DEF Prepare, panelVars, NewPanel
<1>7. CASE Install
  BY <1>7, WorkerShape DEF Install, panelVars, NewPanel
<1>8. CASE RestartPanel
  BY <1>8, WorkerShape DEF RestartPanel, panelVars, NewPanel
<1>9. CASE VerifyRestart
  BY <1>9, WorkerShape DEF VerifyRestart, panelVars, NewPanel
<1>10. CASE FinishWorker
  BY <1>10 DEF FinishWorker, panelVars
<1>11. CASE WorkerExits
  BY <1>11 DEF WorkerExits, panelVars, NoUnit, NoRequest
<1>12. CASE CrashPanel
  BY <1>12 DEF CrashPanel, panelVars, NewPanel, CommandTorn
<1>13. CASE CrashWorker
  BY <1>13 DEF CrashWorker, panelVars, NoUnit, NoRequest, WorkerTorn
<1>14. CASE PowerCut
  BY <1>14 DEF PowerCut, panelVars, NewPanel, NoUnit, NoRequest, CommandTorn, WorkerTorn
<1>15. CASE UNCHANGED vars
  BY <1>15 DEF vars, panelVars
<1> QED
  BY <1>1, <1>2, <1>3, <1>4, <1>5, <1>6, <1>7, <1>8, <1>9, <1>10, <1>11, <1>12, <1>13, <1>14, <1>15 DEF Next, WorkerStep

\* The flock goes with the program counters, through every release and crash.
LEMMA FlockStep == SlotInv /\ [Next]_vars => FlockHeld'
<1> SUFFICES ASSUME SlotInv, [Next]_vars PROVE FlockHeld'
  OBVIOUS
<1> USE HoldersDiffer DEF SlotInv, FlockHeld, TypeOK, None, Worker
<1>1. ASSUME NEW t \in Threads, PollReads(t) PROVE FlockHeld'
  BY <1>1 DEF PollReads, Go, panelVars
<1>2. ASSUME NEW t \in Threads, NEW k \in Tasks \ {"poll"}, Request(t, k) PROVE FlockHeld'
  BY <1>2 DEF Request, Go, panelVars
<1>3. ASSUME NEW t \in Threads, ThreadStep(t) PROVE FlockHeld'
  <2>1. CASE FlockBusy(t)
    BY <2>1 DEF FlockBusy, Leave, Answer, Go, panelVars
  <2>2. CASE TakeFlock(t)
    BY <2>2 DEF TakeFlock, Go, panelVars
  <2>3. CASE ProbeGone(t)
    BY <2>3 DEF ProbeGone, Go, UnitGone, panelVars
  <2>4. CASE ProbeRefuses(t)
    BY <2>4 DEF ProbeRefuses, Leave, Answer, Go, panelVars
  <2>5. CASE MarkInterrupted(t)
    BY <2>5 DEF MarkInterrupted, Go, panelVars
  <2>6. CASE PollAnswers(t)
    BY <2>6 DEF PollAnswers, Leave, Answer, Go, panelVars
  <2>7. CASE LeaveGate(t)
    BY <2>7 DEF LeaveGate, Answer, Go, panelVars
  <2>8. CASE GiveUp(t)
    BY <2>8 DEF GiveUp, Leave, Answer, Go, panelVars
  <2>9. CASE WriteConfig(t)
    BY <2>9 DEF WriteConfig, Go, panelVars
  <2>10. CASE ConfigEnds(t)
    BY <2>10 DEF ConfigEnds, Leave, Answer, Go, panelVars
  <2>11. CASE StartCommand(t)
    BY <2>11 DEF StartCommand, Go, panelVars
  <2>12. CASE CommandEnds(t)
    BY <2>12 DEF CommandEnds, Go, panelVars
  <2>13. CASE MarkFinished(t)
    BY <2>13 DEF MarkFinished, Answer, Go, panelVars
  <2>14. CASE RecordRunning(t)
    BY <2>14 DEF RecordRunning, Go, panelVars
  <2>15. CASE AskSystemd(t)
    BY <2>15 DEF AskSystemd, Go, NoUnit, NoRequest, panelVars
  <2>16. CASE LaunchReturns(t)
    BY <2>16 DEF LaunchReturns, Leave, Answer, Go, panelVars
  <2>17. CASE LaunchFails(t)
    BY <2>17 DEF LaunchFails, RecordFailed, Go, panelVars
  <2>18. CASE LaunchTimesOut(t)
    BY <2>18 DEF LaunchTimesOut, RecordFailed, Go, panelVars
  <2>19. CASE LaunchRaises(t)
    BY <2>19 DEF LaunchRaises, Leave, Answer, Go, panelVars
  <2> QED
    BY <1>3, <2>1, <2>2, <2>3, <2>4, <2>5, <2>6, <2>7, <2>8, <2>9, <2>10, <2>11, <2>12, <2>13, <2>14, <2>15, <2>16, <2>17, <2>18, <2>19 DEF ThreadStep
<1>4. CASE WorkerStarts
  BY <1>4 DEF WorkerStarts, panelVars, NoUnit, NoRequest
<1>5. CASE TakeRunnerLock
  BY <1>5 DEF TakeRunnerLock, panelVars
<1>6. CASE Prepare
  BY <1>6, WorkerShape
<1>7. CASE Install
  BY <1>7, WorkerShape
<1>8. CASE RestartPanel
  BY <1>8, WorkerShape
<1>9. CASE VerifyRestart
  BY <1>9, WorkerShape
<1>10. CASE FinishWorker
  BY <1>10 DEF FinishWorker, panelVars
<1>11. CASE WorkerExits
  BY <1>11 DEF WorkerExits, panelVars, NoUnit, NoRequest
<1>12. CASE CrashPanel
  BY <1>12 DEF CrashPanel, panelVars, NewPanel, CommandTorn
<1>13. CASE CrashWorker
  BY <1>13 DEF CrashWorker, panelVars, NoUnit, NoRequest, WorkerTorn
<1>14. CASE PowerCut
  BY <1>14 DEF PowerCut, panelVars, NewPanel, NoUnit, NoRequest, CommandTorn, WorkerTorn
<1>15. CASE UNCHANGED vars
  BY <1>15 DEF vars, panelVars
<1> QED
  BY <1>1, <1>2, <1>3, <1>4, <1>5, <1>6, <1>7, <1>8, <1>9, <1>10, <1>11, <1>12, <1>13, <1>14, <1>15 DEF Next, WorkerStep

\* The worker's request and its copy stay those of the record.
LEMMA RecordStep == SlotInv /\ [Next]_vars => RecordKnown'
<1> SUFFICES ASSUME SlotInv, [Next]_vars PROVE RecordKnown'
  OBVIOUS
<1> USE HoldersDiffer DEF SlotInv, RecordKnown, FlockHeld, TypeOK
<1>1. ASSUME NEW t \in Threads, PollReads(t) PROVE RecordKnown'
  BY <1>1 DEF PollReads, Go, panelVars
<1>2. ASSUME NEW t \in Threads, NEW k \in Tasks \ {"poll"}, Request(t, k) PROVE RecordKnown'
  BY <1>2 DEF Request, Go, panelVars
<1>3. ASSUME NEW t \in Threads, ThreadStep(t) PROVE RecordKnown'
  <2>1. CASE FlockBusy(t)
    BY <2>1 DEF FlockBusy, Leave, Answer, Go, panelVars
  <2>2. CASE TakeFlock(t)
    BY <2>2 DEF TakeFlock, Go, panelVars
  <2>3. CASE ProbeGone(t)
    BY <2>3 DEF ProbeGone, Go, UnitGone, panelVars
  <2>4. CASE ProbeRefuses(t)
    BY <2>4 DEF ProbeRefuses, Leave, Answer, Go, panelVars
  <2>5. CASE MarkInterrupted(t)
    BY <2>5 DEF MarkInterrupted, Go, panelVars
  <2>6. CASE PollAnswers(t)
    BY <2>6 DEF PollAnswers, Leave, Answer, Go, panelVars
  <2>7. CASE LeaveGate(t)
    BY <2>7 DEF LeaveGate, Answer, Go, panelVars
  <2>8. CASE GiveUp(t)
    BY <2>8 DEF GiveUp, Leave, Answer, Go, panelVars
  <2>9. CASE WriteConfig(t)
    BY <2>9 DEF WriteConfig, Go, panelVars
  <2>10. CASE ConfigEnds(t)
    BY <2>10 DEF ConfigEnds, Leave, Answer, Go, panelVars
  <2>11. CASE StartCommand(t)
    BY <2>11 DEF StartCommand, Go, panelVars
  <2>12. CASE CommandEnds(t)
    BY <2>12 DEF CommandEnds, Go, panelVars
  <2>13. CASE MarkFinished(t)
    BY <2>13 DEF MarkFinished, Answer, Go, panelVars
  <2>14. CASE RecordRunning(t)
    BY <2>14 DEF RecordRunning, Go, panelVars
  <2>15. CASE AskSystemd(t)
    BY <2>15 DEF AskSystemd, Go, NoUnit, NoRequest, panelVars
  <2>16. CASE LaunchReturns(t)
    BY <2>16 DEF LaunchReturns, Leave, Answer, Go, panelVars
  <2>17. CASE LaunchFails(t)
    BY <2>17 DEF LaunchFails, RecordFailed, Go, panelVars
  <2>18. CASE LaunchTimesOut(t)
    BY <2>18 DEF LaunchTimesOut, RecordFailed, Go, panelVars
  <2>19. CASE LaunchRaises(t)
    BY <2>19 DEF LaunchRaises, Leave, Answer, Go, panelVars
  <2> QED
    BY <1>3, <2>1, <2>2, <2>3, <2>4, <2>5, <2>6, <2>7, <2>8, <2>9, <2>10, <2>11, <2>12, <2>13, <2>14, <2>15, <2>16, <2>17, <2>18, <2>19 DEF ThreadStep
<1>4. CASE WorkerStarts
  BY <1>4 DEF WorkerStarts, panelVars, NoUnit, NoRequest
<1>5. CASE TakeRunnerLock
  BY <1>5 DEF TakeRunnerLock, panelVars
<1>6. CASE Prepare
  BY <1>6, WorkerShape
<1>7. CASE Install
  BY <1>7, WorkerShape
<1>8. CASE RestartPanel
  BY <1>8, WorkerShape
<1>9. CASE VerifyRestart
  BY <1>9, WorkerShape
<1>10. CASE FinishWorker
  BY <1>10 DEF FinishWorker, panelVars
<1>11. CASE WorkerExits
  BY <1>11 DEF WorkerExits, panelVars, NoUnit, NoRequest
<1>12. CASE CrashPanel
  BY <1>12 DEF CrashPanel, panelVars, NewPanel, CommandTorn
<1>13. CASE CrashWorker
  BY <1>13 DEF CrashWorker, panelVars, NoUnit, NoRequest, WorkerTorn
<1>14. CASE PowerCut
  BY <1>14 DEF PowerCut, panelVars, NewPanel, NoUnit, NoRequest, CommandTorn, WorkerTorn
<1>15. CASE UNCHANGED vars
  BY <1>15 DEF vars, panelVars
<1> QED
  BY <1>1, <1>2, <1>3, <1>4, <1>5, <1>6, <1>7, <1>8, <1>9, <1>10, <1>11, <1>12, <1>13, <1>14, <1>15 DEF Next, WorkerStep

\* No request gets past a launched worker.
LEMMA ClaimStep == SlotInv /\ [Next]_vars => ClaimRespected'
<1> SUFFICES ASSUME SlotInv, [Next]_vars PROVE ClaimRespected'
  OBVIOUS
<1> USE HoldersDiffer DEF SlotInv, ClaimRespected, RecordKnown, FlockHeld, TypeOK, Busy
<1>1. ASSUME NEW t \in Threads, PollReads(t) PROVE ClaimRespected'
  BY <1>1 DEF PollReads, Go, panelVars
<1>2. ASSUME NEW t \in Threads, NEW k \in Tasks \ {"poll"}, Request(t, k) PROVE ClaimRespected'
  BY <1>2 DEF Request, Go, panelVars
<1>3. ASSUME NEW t \in Threads, ThreadStep(t) PROVE ClaimRespected'
  <2>1. CASE FlockBusy(t)
    BY <2>1 DEF FlockBusy, Leave, Answer, Go, panelVars
  <2>2. CASE TakeFlock(t)
    BY <2>2 DEF TakeFlock, Go, panelVars
  <2>3. CASE ProbeGone(t)
    BY <2>3 DEF ProbeGone, Go, UnitGone, panelVars
  <2>4. CASE ProbeRefuses(t)
    BY <2>4 DEF ProbeRefuses, Leave, Answer, Go, panelVars
  <2>5. CASE MarkInterrupted(t)
    BY <2>5 DEF MarkInterrupted, Go, panelVars
  <2>6. CASE PollAnswers(t)
    BY <2>6 DEF PollAnswers, Leave, Answer, Go, panelVars
  <2>7. CASE LeaveGate(t)
    BY <2>7 DEF LeaveGate, Answer, Go, panelVars
  <2>8. CASE GiveUp(t)
    BY <2>8 DEF GiveUp, Leave, Answer, Go, panelVars
  <2>9. CASE WriteConfig(t)
    BY <2>9 DEF WriteConfig, Go, panelVars
  <2>10. CASE ConfigEnds(t)
    BY <2>10 DEF ConfigEnds, Leave, Answer, Go, panelVars
  <2>11. CASE StartCommand(t)
    BY <2>11 DEF StartCommand, Go, panelVars
  <2>12. CASE CommandEnds(t)
    BY <2>12 DEF CommandEnds, Go, panelVars
  <2>13. CASE MarkFinished(t)
    BY <2>13 DEF MarkFinished, Answer, Go, panelVars
  <2>14. CASE RecordRunning(t)
    BY <2>14 DEF RecordRunning, Go, panelVars
  <2>15. CASE AskSystemd(t)
    BY <2>15 DEF AskSystemd, Go, NoUnit, NoRequest, panelVars
  <2>16. CASE LaunchReturns(t)
    BY <2>16 DEF LaunchReturns, Leave, Answer, Go, panelVars
  <2>17. CASE LaunchFails(t)
    BY <2>17 DEF LaunchFails, RecordFailed, Go, panelVars
  <2>18. CASE LaunchTimesOut(t)
    BY <2>18 DEF LaunchTimesOut, RecordFailed, Go, panelVars
  <2>19. CASE LaunchRaises(t)
    BY <2>19 DEF LaunchRaises, Leave, Answer, Go, panelVars
  <2> QED
    BY <1>3, <2>1, <2>2, <2>3, <2>4, <2>5, <2>6, <2>7, <2>8, <2>9, <2>10, <2>11, <2>12, <2>13, <2>14, <2>15, <2>16, <2>17, <2>18, <2>19 DEF ThreadStep
<1>4. CASE WorkerStarts
  BY <1>4 DEF WorkerStarts, panelVars, NoUnit, NoRequest
<1>5. CASE TakeRunnerLock
  BY <1>5 DEF TakeRunnerLock, panelVars
<1>6. CASE Prepare
  BY <1>6, WorkerShape
<1>7. CASE Install
  BY <1>7, WorkerShape
<1>8. CASE RestartPanel
  BY <1>8, WorkerShape
<1>9. CASE VerifyRestart
  BY <1>9, WorkerShape
<1>10. CASE FinishWorker
  BY <1>10 DEF FinishWorker, panelVars
<1>11. CASE WorkerExits
  BY <1>11 DEF WorkerExits, panelVars, NoUnit, NoRequest
<1>12. CASE CrashPanel
  BY <1>12 DEF CrashPanel, panelVars, NewPanel, CommandTorn
<1>13. CASE CrashWorker
  BY <1>13 DEF CrashWorker, panelVars, NoUnit, NoRequest, WorkerTorn
<1>14. CASE PowerCut
  BY <1>14 DEF PowerCut, panelVars, NewPanel, NoUnit, NoRequest, CommandTorn, WorkerTorn
<1>15. CASE UNCHANGED vars
  BY <1>15 DEF vars, panelVars
<1> QED
  BY <1>1, <1>2, <1>3, <1>4, <1>5, <1>6, <1>7, <1>8, <1>9, <1>10, <1>11, <1>12, <1>13, <1>14, <1>15 DEF Next, WorkerStep

\* The invariant behind them: the settings, a command and a detached worker never change the system at
\* the same time, for any number of browsers and any crashes (OneAtATime), and no request gets past
\* a launched worker or takes it for interrupted (ClaimRespected).
LEMMA SlotInvariant == Spec => []SlotInv
<1>1. SlotInv /\ [Next]_vars => SlotInv'
  BY TypeStep, FlockStep, RecordStep, ClaimStep DEF SlotInv
<1> QED
  BY <1>1, SlotInit, PTL DEF Spec

\* The panel, the record and the unit keep their types (TypeOK).
THEOREM Typing == Spec => []TypeOK
<1>1. SlotInv => TypeOK
  BY DEF SlotInv
<1> QED
  BY <1>1, SlotInvariant, PTL

\* docs/CONTROL_PANEL.md, lifecycle changes cannot overlap: the panel's commands, its writes of the
\* settings and the worker exclude one another.
THEOREM NoOverlap == Spec => []OneAtATime
<1>1. SlotInv => OneAtATime
  BY HoldersDiffer DEF SlotInv, FlockHeld, OneAtATime, Busy
<1> QED
  BY <1>1, SlotInvariant, PTL

\* acquire_slot: nothing is admitted from the launch of a worker to its result.
THEOREM ClaimIsRespected == Spec => []ClaimRespected
<1>1. SlotInv => ClaimRespected
  BY DEF SlotInv
<1> QED
  BY <1>1, SlotInvariant, PTL

\* What the record says while the flock is held: a launch and a mark find it "running", the worker
\* works on a copy of it, and no worker works on a success of its own.
RecordFlow ==
  /\ \A t \in Threads : pc[t] \in {"probing", "marking", "recorded", "launching"} => record.state = "running"
  /\ unit.at \in Acting \ {"finishing"} => unit.op = record /\ unit.op.id = unit.req.id
  /\ unit.at = "finishing" => unit.op = record \/ unit.op.id = unit.req.id
  /\ unit.at \in Acting \cup {"starting", "waiting"} /\ record.id = unit.req.id =>
       record.state # "succeeded"

\* What the worker knows of the panel it restarted.
RestartTrue ==
  /\ unit.at # "absent" => unit.req.old <= panel.boot
  /\ unit.at = "verifying" => panel.version = installed
  /\ unit.at = "finishing" /\ unit.op.state = "succeeded" /\ unit.op.id = unit.req.id =>
       panel.boot > unit.req.old /\ panel.version = unit.req.target /\ installed = panel.version

LEMMA WorkerFlow ==
  ASSUME SlotInv, RecordFlow, RestartTrue, Prepare \/ Install \/ RestartPanel \/ VerifyRestart
  PROVE  RecordFlow' /\ RestartTrue'
<1> USE DEF SlotInv
<1>1. /\ unit.at \in Acting \ {"finishing"} /\ unit'.at \in Acting /\ unit'.req = unit.req
      /\ record' = record /\ unit.op = record /\ unit.op.id = unit.req.id
      /\ unit'.op.id = unit.op.id
  BY WorkerShape DEF RecordFlow, Prepare, Install, RestartPanel, VerifyRestart
<1>2. \A t \in Threads : pc'[t] \notin Held
  BY <1>1, WorkerShape, HoldersDiffer DEF FlockHeld
<1>3. ASSUME NEW where \in {"installing", "restarting", "verifying"}, Phase(where)
      PROVE  unit'.at = where /\ unit'.op = record'
  BY <1>1, <1>3, PhaseShape
<1>4. ASSUME Fails PROVE unit'.at = "finishing" /\ unit'.op.state = "failed"
  BY <1>4, EndShape DEF Fails
<1>5. unit'.at = "finishing" \/ unit'.op = record'
  BY <1>3, <1>4, EndShape DEF Prepare, Install, RestartPanel, VerifyRestart
<1>6. RecordFlow'
  BY <1>1, <1>2, <1>5 DEF RecordFlow
<1>7. panel \in [boot : Nat, version : Nat] /\ unit.req.old \in Nat /\ unit.req.target \in Nat
      /\ panel.boot \in Nat /\ unit.req.old <= panel.boot
  BY <1>1 DEF TypeOK, RestartTrue
<1>8. CASE Prepare
  BY <1>1, <1>3, <1>4, <1>6, <1>7, <1>8 DEF Prepare, RestartTrue
<1>9. CASE Install
  BY <1>1, <1>3, <1>4, <1>6, <1>7, <1>9 DEF Install, RestartTrue
<1>10. CASE RestartPanel
  BY <1>1, <1>3, <1>4, <1>6, <1>7, <1>10 DEF RestartPanel, NewPanel, RestartTrue
<1>11. CASE VerifyRestart /\ Fails
  BY <1>1, <1>4, <1>6, <1>7, <1>11 DEF VerifyRestart, RestartTrue
<1>12. CASE VerifyRestart /\ Verified /\ unit' = EndsAs("succeeded")
  BY <1>1, <1>6, <1>7, <1>12, EndShape DEF VerifyRestart, Verified, RestartTrue
<1> QED
  BY <1>6, <1>8, <1>9, <1>10, <1>11, <1>12 DEF VerifyRestart

\* The record changes only as RecordFlow says.
LEMMA FlowStep == SlotInv /\ RecordFlow /\ RestartTrue /\ [Next]_vars => RecordFlow'
<1> SUFFICES ASSUME SlotInv, RecordFlow, RestartTrue, [Next]_vars PROVE RecordFlow'
  OBVIOUS
<1> USE HoldersDiffer DEF SlotInv, RecordFlow, RecordKnown, FlockHeld, TypeOK
<1>1. ASSUME NEW t \in Threads, PollReads(t) PROVE RecordFlow'
  BY <1>1 DEF PollReads, Go, panelVars
<1>2. ASSUME NEW t \in Threads, NEW k \in Tasks \ {"poll"}, Request(t, k) PROVE RecordFlow'
  BY <1>2 DEF Request, Go, panelVars
<1>3. ASSUME NEW t \in Threads, ThreadStep(t) PROVE RecordFlow'
  <2>1. CASE FlockBusy(t)
    BY <2>1 DEF FlockBusy, Leave, Answer, Go, panelVars
  <2>2. CASE TakeFlock(t)
    BY <2>2 DEF TakeFlock, Go, panelVars
  <2>3. CASE ProbeGone(t)
    BY <2>3 DEF ProbeGone, Go, UnitGone, panelVars
  <2>4. CASE ProbeRefuses(t)
    BY <2>4 DEF ProbeRefuses, Leave, Answer, Go, panelVars
  <2>5. CASE MarkInterrupted(t)
    BY <2>5 DEF MarkInterrupted, Go, panelVars
  <2>6. CASE PollAnswers(t)
    BY <2>6 DEF PollAnswers, Leave, Answer, Go, panelVars
  <2>7. CASE LeaveGate(t)
    BY <2>7 DEF LeaveGate, Answer, Go, panelVars
  <2>8. CASE GiveUp(t)
    BY <2>8 DEF GiveUp, Leave, Answer, Go, panelVars
  <2>9. CASE WriteConfig(t)
    BY <2>9 DEF WriteConfig, Go, panelVars
  <2>10. CASE ConfigEnds(t)
    BY <2>10 DEF ConfigEnds, Leave, Answer, Go, panelVars
  <2>11. CASE StartCommand(t)
    BY <2>11 DEF StartCommand, Go, panelVars
  <2>12. CASE CommandEnds(t)
    BY <2>12 DEF CommandEnds, Go, panelVars
  <2>13. CASE MarkFinished(t)
    BY <2>13 DEF MarkFinished, Answer, Go, panelVars
  <2>14. CASE RecordRunning(t)
    BY <2>14 DEF RecordRunning, Go, panelVars
  <2>15. CASE AskSystemd(t)
    BY <2>15 DEF AskSystemd, Go, NoUnit, NoRequest, panelVars
  <2>16. CASE LaunchReturns(t)
    BY <2>16 DEF LaunchReturns, Leave, Answer, Go, panelVars
  <2>17. CASE LaunchFails(t)
    BY <2>17 DEF LaunchFails, RecordFailed, Go, panelVars
  <2>18. CASE LaunchTimesOut(t)
    BY <2>18 DEF LaunchTimesOut, RecordFailed, Go, panelVars
  <2>19. CASE LaunchRaises(t)
    BY <2>19 DEF LaunchRaises, Leave, Answer, Go, panelVars
  <2> QED
    BY <1>3, <2>1, <2>2, <2>3, <2>4, <2>5, <2>6, <2>7, <2>8, <2>9, <2>10, <2>11, <2>12, <2>13, <2>14, <2>15, <2>16, <2>17, <2>18, <2>19 DEF ThreadStep
<1>4. CASE WorkerStarts
  BY <1>4 DEF WorkerStarts, panelVars, NoUnit, NoRequest
<1>5. CASE TakeRunnerLock
  BY <1>5 DEF TakeRunnerLock, panelVars
<1>6. CASE Prepare
  BY <1>6, WorkerFlow
<1>7. CASE Install
  BY <1>7, WorkerFlow
<1>8. CASE RestartPanel
  BY <1>8, WorkerFlow
<1>9. CASE VerifyRestart
  BY <1>9, WorkerFlow
<1>10. CASE FinishWorker
  BY <1>10 DEF FinishWorker, panelVars
<1>11. CASE WorkerExits
  BY <1>11 DEF WorkerExits, panelVars, NoUnit, NoRequest
<1>12. CASE CrashPanel
  BY <1>12 DEF CrashPanel, panelVars, NewPanel, CommandTorn
<1>13. CASE CrashWorker
  BY <1>13 DEF CrashWorker, panelVars, NoUnit, NoRequest, WorkerTorn
<1>14. CASE PowerCut
  BY <1>14 DEF PowerCut, panelVars, NewPanel, NoUnit, NoRequest, CommandTorn, WorkerTorn
<1>15. CASE UNCHANGED vars
  BY <1>15 DEF vars, panelVars
<1> QED
  BY <1>1, <1>2, <1>3, <1>4, <1>5, <1>6, <1>7, <1>8, <1>9, <1>10, <1>11, <1>12, <1>13, <1>14, <1>15 DEF Next, WorkerStep

\* A verified restart stays true until it is written.
LEMMA RestartStep == SlotInv /\ RestartTrue /\ RecordFlow /\ [Next]_vars => RestartTrue'
<1> SUFFICES ASSUME SlotInv, RestartTrue, RecordFlow, [Next]_vars PROVE RestartTrue'
  OBVIOUS
<1> USE HoldersDiffer DEF SlotInv, RestartTrue, RecordFlow, RecordKnown, FlockHeld, TypeOK
<1>1. ASSUME NEW t \in Threads, PollReads(t) PROVE RestartTrue'
  BY <1>1 DEF PollReads, Go, panelVars
<1>2. ASSUME NEW t \in Threads, NEW k \in Tasks \ {"poll"}, Request(t, k) PROVE RestartTrue'
  BY <1>2 DEF Request, Go, panelVars
<1>3. ASSUME NEW t \in Threads, ThreadStep(t) PROVE RestartTrue'
  <2>1. CASE FlockBusy(t)
    BY <2>1 DEF FlockBusy, Leave, Answer, Go, panelVars
  <2>2. CASE TakeFlock(t)
    BY <2>2 DEF TakeFlock, Go, panelVars
  <2>3. CASE ProbeGone(t)
    BY <2>3 DEF ProbeGone, Go, UnitGone, panelVars
  <2>4. CASE ProbeRefuses(t)
    BY <2>4 DEF ProbeRefuses, Leave, Answer, Go, panelVars
  <2>5. CASE MarkInterrupted(t)
    BY <2>5 DEF MarkInterrupted, Go, panelVars
  <2>6. CASE PollAnswers(t)
    BY <2>6 DEF PollAnswers, Leave, Answer, Go, panelVars
  <2>7. CASE LeaveGate(t)
    BY <2>7 DEF LeaveGate, Answer, Go, panelVars
  <2>8. CASE GiveUp(t)
    BY <2>8 DEF GiveUp, Leave, Answer, Go, panelVars
  <2>9. CASE WriteConfig(t)
    BY <2>9 DEF WriteConfig, Go, panelVars
  <2>10. CASE ConfigEnds(t)
    BY <2>10 DEF ConfigEnds, Leave, Answer, Go, panelVars
  <2>11. CASE StartCommand(t)
    BY <2>11 DEF StartCommand, Go, panelVars
  <2>12. CASE CommandEnds(t)
    BY <2>12 DEF CommandEnds, Go, panelVars
  <2>13. CASE MarkFinished(t)
    BY <2>13 DEF MarkFinished, Answer, Go, panelVars
  <2>14. CASE RecordRunning(t)
    BY <2>14 DEF RecordRunning, Go, panelVars
  <2>15. CASE AskSystemd(t)
    BY <2>15 DEF AskSystemd, Go, NoUnit, NoRequest, panelVars
  <2>16. CASE LaunchReturns(t)
    BY <2>16 DEF LaunchReturns, Leave, Answer, Go, panelVars
  <2>17. CASE LaunchFails(t)
    BY <2>17 DEF LaunchFails, RecordFailed, Go, panelVars
  <2>18. CASE LaunchTimesOut(t)
    BY <2>18 DEF LaunchTimesOut, RecordFailed, Go, panelVars
  <2>19. CASE LaunchRaises(t)
    BY <2>19 DEF LaunchRaises, Leave, Answer, Go, panelVars
  <2> QED
    BY <1>3, <2>1, <2>2, <2>3, <2>4, <2>5, <2>6, <2>7, <2>8, <2>9, <2>10, <2>11, <2>12, <2>13, <2>14, <2>15, <2>16, <2>17, <2>18, <2>19 DEF ThreadStep
<1>4. CASE WorkerStarts
  BY <1>4 DEF WorkerStarts, panelVars, NoUnit, NoRequest
<1>5. CASE TakeRunnerLock
  BY <1>5 DEF TakeRunnerLock, panelVars
<1>6. CASE Prepare
  BY <1>6, WorkerFlow
<1>7. CASE Install
  BY <1>7, WorkerFlow
<1>8. CASE RestartPanel
  BY <1>8, WorkerFlow
<1>9. CASE VerifyRestart
  BY <1>9, WorkerFlow
<1>10. CASE FinishWorker
  BY <1>10 DEF FinishWorker, panelVars
<1>11. CASE WorkerExits
  BY <1>11 DEF WorkerExits, panelVars, NoUnit, NoRequest
<1>12. CASE CrashPanel
  BY <1>12 DEF CrashPanel, panelVars, NewPanel, CommandTorn
<1>13. CASE CrashWorker
  BY <1>13 DEF CrashWorker, panelVars, NoUnit, NoRequest, WorkerTorn
<1>14. CASE PowerCut
  BY <1>14 DEF PowerCut, panelVars, NewPanel, NoUnit, NoRequest, CommandTorn, WorkerTorn
<1>15. CASE UNCHANGED vars
  BY <1>15 DEF vars, panelVars
<1> QED
  BY <1>1, <1>2, <1>3, <1>4, <1>5, <1>6, <1>7, <1>8, <1>9, <1>10, <1>11, <1>12, <1>13, <1>14, <1>15 DEF Next, WorkerStep

SuccessInv == SlotInv /\ RecordFlow /\ RestartTrue

LEMMA SuccessInvariant == Spec => []SuccessInv
<1>1. Init => RecordFlow /\ RestartTrue
  BY DEF Init, RecordFlow, RestartTrue, NoUnit
<1>2. SuccessInv /\ [Next]_vars => RecordFlow' /\ RestartTrue'
  BY FlowStep, RestartStep DEF SuccessInv
<1>3. SlotInv /\ [Next]_vars => SlotInv'
  BY TypeStep, FlockStep, RecordStep, ClaimStep DEF SlotInv
<1> QED
  BY <1>1, <1>2, <1>3, SlotInit, PTL DEF Spec, SuccessInv

LEMMA WorkerCopies ==
  ASSUME SuccessInv, Prepare \/ Install \/ RestartPanel \/ VerifyRestart
  PROVE  record' = record
<1> USE DEF SuccessInv, SlotInv
<1> QED
  BY WorkerShape DEF RecordFlow, Prepare, Install, RestartPanel, VerifyRestart

\* Who writes the record writes a true success and takes none back.
LEMMA SuccessStep == SuccessInv /\ [Next]_vars => SuccessKept
<1> SUFFICES ASSUME SuccessInv, [Next]_vars PROVE SuccessKept
  OBVIOUS
<1> USE HoldersDiffer DEF SuccessInv, SuccessKept, SlotInv, RestartTrue, RecordFlow, RecordKnown, FlockHeld, TypeOK
<1>1. ASSUME NEW t \in Threads, PollReads(t) PROVE SuccessKept
  BY <1>1 DEF PollReads, Go, panelVars
<1>2. ASSUME NEW t \in Threads, NEW k \in Tasks \ {"poll"}, Request(t, k) PROVE SuccessKept
  BY <1>2 DEF Request, Go, panelVars
<1>3. ASSUME NEW t \in Threads, ThreadStep(t) PROVE SuccessKept
  <2>1. CASE FlockBusy(t)
    BY <2>1 DEF FlockBusy, Leave, Answer, Go, panelVars
  <2>2. CASE TakeFlock(t)
    BY <2>2 DEF TakeFlock, Go, panelVars
  <2>3. CASE ProbeGone(t)
    BY <2>3 DEF ProbeGone, Go, UnitGone, panelVars
  <2>4. CASE ProbeRefuses(t)
    BY <2>4 DEF ProbeRefuses, Leave, Answer, Go, panelVars
  <2>5. CASE MarkInterrupted(t)
    BY <2>5 DEF MarkInterrupted, Go, panelVars
  <2>6. CASE PollAnswers(t)
    BY <2>6 DEF PollAnswers, Leave, Answer, Go, panelVars
  <2>7. CASE LeaveGate(t)
    BY <2>7 DEF LeaveGate, Answer, Go, panelVars
  <2>8. CASE GiveUp(t)
    BY <2>8 DEF GiveUp, Leave, Answer, Go, panelVars
  <2>9. CASE WriteConfig(t)
    BY <2>9 DEF WriteConfig, Go, panelVars
  <2>10. CASE ConfigEnds(t)
    BY <2>10 DEF ConfigEnds, Leave, Answer, Go, panelVars
  <2>11. CASE StartCommand(t)
    BY <2>11 DEF StartCommand, Go, panelVars
  <2>12. CASE CommandEnds(t)
    BY <2>12 DEF CommandEnds, Go, panelVars
  <2>13. CASE MarkFinished(t)
    BY <2>13 DEF MarkFinished, Answer, Go, panelVars
  <2>14. CASE RecordRunning(t)
    BY <2>14 DEF RecordRunning, Go, panelVars
  <2>15. CASE AskSystemd(t)
    BY <2>15 DEF AskSystemd, Go, NoUnit, NoRequest, panelVars
  <2>16. CASE LaunchReturns(t)
    BY <2>16 DEF LaunchReturns, Leave, Answer, Go, panelVars
  <2>17. CASE LaunchFails(t)
    BY <2>17 DEF LaunchFails, RecordFailed, Go, panelVars
  <2>18. CASE LaunchTimesOut(t)
    BY <2>18 DEF LaunchTimesOut, RecordFailed, Go, panelVars
  <2>19. CASE LaunchRaises(t)
    BY <2>19 DEF LaunchRaises, Leave, Answer, Go, panelVars
  <2> QED
    BY <1>3, <2>1, <2>2, <2>3, <2>4, <2>5, <2>6, <2>7, <2>8, <2>9, <2>10, <2>11, <2>12, <2>13, <2>14, <2>15, <2>16, <2>17, <2>18, <2>19 DEF ThreadStep
<1>4. CASE WorkerStarts
  BY <1>4 DEF WorkerStarts, panelVars, NoUnit, NoRequest
<1>5. CASE TakeRunnerLock
  BY <1>5 DEF TakeRunnerLock, panelVars
<1>6. CASE Prepare
  BY <1>6, WorkerCopies
<1>7. CASE Install
  BY <1>7, WorkerCopies
<1>8. CASE RestartPanel
  BY <1>8, WorkerCopies
<1>9. CASE VerifyRestart
  BY <1>9, WorkerCopies
<1>10. CASE FinishWorker
  BY <1>10 DEF FinishWorker, panelVars
<1>11. CASE WorkerExits
  BY <1>11 DEF WorkerExits, panelVars, NoUnit, NoRequest
<1>12. CASE CrashPanel
  BY <1>12 DEF CrashPanel, panelVars, NewPanel, CommandTorn
<1>13. CASE CrashWorker
  BY <1>13 DEF CrashWorker, panelVars, NoUnit, NoRequest, WorkerTorn
<1>14. CASE PowerCut
  BY <1>14 DEF PowerCut, panelVars, NewPanel, NoUnit, NoRequest, CommandTorn, WorkerTorn
<1>15. CASE UNCHANGED vars
  BY <1>15 DEF vars, panelVars
<1> QED
  BY <1>1, <1>2, <1>3, <1>4, <1>5, <1>6, <1>7, <1>8, <1>9, <1>10, <1>11, <1>12, <1>13, <1>14, <1>15 DEF Next, WorkerStep

\* run_worker and public_operation: "succeeded" is only written when another panel process runs the
\* version asked for, and is never taken back, whatever crashes and however late a worker starts.
THEOREM SuccessIsTrue == Spec => SuccessStands
<1>1. SuccessInv /\ [Next]_vars => SuccessKept
  BY SuccessStep
<1> QED
  BY <1>1, SuccessInvariant, PTL DEF Spec, SuccessStands

=============================================================================
