------------------------------ MODULE Executor ------------------------------
(***************************************************************************)
(* The executor: callers that send commands, the scheduler thread and the  *)
(* runs it spawns, in every interleaving, with the properties they are     *)
(* checked for.                                                            *)
(***************************************************************************)
EXTENDS Scheduler, RunGroup

Init ==
  /\ groups = [k \in Keys |-> NoTask]
  /\ taskIdToDedupe = [t \in TaskIds |-> NoKey]
  /\ queued = <<>> /\ queuedSet = {} /\ pausedSet = {}
  /\ active = [k \in Keys |-> NoRun]
  /\ offsets = [k \in Keys |-> 0]
  /\ pc = "select" /\ scanLeft = 0 /\ scheduled = FALSE
  /\ cmds = <<>> /\ events = <<>>
  /\ runs = [r \in RunIds |-> IdleRun]
  /\ reported = [t \in TaskIds |-> [status |-> "None", progress |-> 0]]
  /\ issued = {}

-----------------------------------------------------------------------------
\* A caller sends while the scheduler is there and the channel has room.
SendCommand(op, t) ==
  /\ pc # "closed" /\ Len(cmds) < CmdCap
  /\ cmds' = Append(cmds, [op |-> op, task |-> t])
  /\ UNCHANGED <<tables, control, events, runs, reported>>

\* Executor::enqueue: each call carries a task id of its own.
SendEnqueue(t) ==
  /\ t \notin issued
  /\ SendCommand("Enqueue", t)
  /\ issued' = issued \cup {t}

\* Executor::pause, resume and cancel, with an id that enqueue returned.
SendControl(op, t) ==
  /\ t \in issued
  /\ SendCommand(op, t)
  /\ UNCHANGED issued

\* Executor::close: MeowClient::closed lets one caller through.
SendClose ==
  /\ \A i \in 1..Len(cmds) : cmds[i].op # "Close"
  /\ SendCommand("Close", NoTask)
  /\ UNCHANGED issued

Callers ==
  \/ \E t \in TaskIds :
       SendEnqueue(t) \/ \E op \in {"Pause", "Resume", "Cancel"} : SendControl(op, t)
  \/ SendClose

\* The scheduler has left its loop and the last run is over.
Terminated ==
  /\ pc = "closed" /\ \A r \in RunIds : ~Live(r)
  /\ UNCHANGED vars

Next == \/ Callers
        \/ SchedulerStep
        \/ Disconnect
        \/ \E r \in RunIds : RunStep(r)
        \/ Terminated

Spec == Init /\ [][Next]_vars

\* The scheduler thread and every spawned run are polled again and again, a
\* request is answered or times out, a sleep ends. Callers owe nothing.
Fairness == WF_vars(SchedulerStep) /\ \A r \in RunIds : WF_vars(RunStep(r))
FairSpec == Spec /\ Fairness

-----------------------------------------------------------------------------
\* Every variable holds a value of its kind.
TypeOK ==
  /\ groups \in [Keys -> TaskIds \cup {NoTask}]
  /\ taskIdToDedupe \in [TaskIds -> Keys \cup {NoKey}]
  /\ queued \in Seq(Keys)
  /\ queuedSet \subseteq Keys /\ pausedSet \subseteq Keys
  /\ active \in [Keys -> RunIds \cup {NoRun}]
  /\ offsets \in [Keys -> 0..Last]
  /\ pc \in {"select", "scan", "closed"}
  /\ scanLeft \in 0..Len(queued) /\ scheduled \in BOOLEAN
  /\ pc # "scan" => scanLeft = 0
  /\ cmds \in Seq(Command) /\ Len(cmds) <= CmdCap
  /\ events \in Seq(Event) /\ Len(events) <= EventCap
  /\ runs \in [RunIds -> Run]
  /\ \A r \in RunIds :
       /\ Live(r) => runs[r].task \in TaskIds
       /\ runs[r].pc = "backoff" => runs[r].attempt < MaxRetries
  /\ reported \in [TaskIds -> [status : Statuses, progress : 0..Last]]
  /\ issued \subseteq TaskIds

\* queued_set is the set of the keys in queued, and no key waits twice: no
\* interleaving of enqueue, pause, resume, cancel and try_start_next lets the
\* queue and its mirror drift apart.
QueueMirror ==
  /\ queuedSet = QueuedKeys
  /\ \A i, j \in 1..Len(queued) : queued[i] = queued[j] => i = j

\* A task id controls a group exactly while it leads the group of its key, so
\* no live group is out of reach of pause, resume and cancel.
IdsMatchGroups ==
  /\ \A t \in TaskIds :
       taskIdToDedupe[t] = (IF groups[KeyOf[t]] = t THEN KeyOf[t] ELSE NoKey)
  /\ \A k \in Keys : groups[k] # NoTask => KeyOf[groups[k]] = k

\* Every group is running, waiting or paused: no sequence of commands and
\* late worker events leaves a task that the scheduler will never look at.
NoTaskLost ==
  \A k \in Keys : groups[k] # NoTask =>
    active[k] # NoRun \/ k \in queuedSet \/ k \in pausedSet

\* A waiting key is neither running nor paused; what runs or is paused has a
\* group, and between two messages so has what waits.
PlacesAreExclusive ==
  \A k \in Keys :
    /\ k \in queuedSet => active[k] = NoRun /\ k \notin pausedSet
    /\ active[k] # NoRun \/ k \in pausedSet => groups[k] # NoTask
    /\ pc = "select" /\ k \in queuedSet => groups[k] # NoTask

\* try_start_next never gives out more slots of a direction than configured.
ActiveWithinLimit ==
  \A d \in Directions : Cardinality(ActiveIn(d)) <= Limit[d]

\* Whenever the scheduler waits for its next message, a key waits only
\* because its direction is full: no handler forgets to hand on a slot.
WorkConserving ==
  pc = "select" => \A k \in queuedSet : ~CanStartDirection(Direction[k])

\* A slot is never held by nobody: its run is alive, or the event with which
\* the run ended is on its way. Otherwise the slot would be lost for good.
SlotIsBacked ==
  \A k \in Keys : active[k] # NoRun =>
    \/ Live(active[k]) /\ RunKey(active[k]) = k
    \/ \E i \in 1..Len(events) :
         /\ events[i].run = active[k] /\ events[i].key = k
         /\ events[i].type # "Progress"

\* The run in a slot has a cancelled token exactly while its key is paused:
\* pause, late events and resume never leave a task that looks running with a
\* token that will stop it, nor a paused one that goes on.
CancelledIffPaused ==
  \A k \in Keys : active[k] # NoRun /\ Live(active[k]) =>
    (runs[active[k]].cancelled <=> k \in pausedSet)

\* The waiting keys from the next to be looked at: inside a round of
\* try_start_next the keys already put back come first.
WaitingOrder == SubSeq(queued, scanLeft + 1, Len(queued)) \o SubSeq(queued, 1, scanLeft)
Before(q, a, b) == \E i, j \in 1..Len(q) : i < j /\ q[i] = a /\ q[j] = b

\* First in, first out per direction, although try_start_next turns the queue
\* over and over: waiting keys keep their order, a new key goes last, and no
\* key is started while an older one of its direction waits.
ServedInOrder ==
  [][\A a, b \in Keys :
       /\ Before(WaitingOrder, a, b) /\ {a, b} \subseteq queuedSet'
          => Before(WaitingOrder', a, b)
       /\ a \in queuedSet \cap queuedSet' /\ b \in queuedSet' \ queuedSet
          => Before(WaitingOrder', a, b)
       /\ Before(WaitingOrder, a, b) /\ Direction[a] = Direction[b]
          /\ active[b] = NoRun => active'[b] = NoRun]_vars

\* Nothing runs on unseen: a live run whose token is not cancelled is the one
\* in its key's slot, where pause, cancel and close find it (active is "the
\* groups being executed", scheduler_state.rs).
OnlySlotHoldersGoOn ==
  pc # "closed" =>
    \A r \in RunIds : Live(r) /\ ~runs[r].cancelled => active[RunKey(r)] = r

\* A task has one run at a time, over any pauses and resumes: a paused run keeps
\* its slot until it has stopped, and resume waits for that (executor.rs: "not
\* removed from active at once, so that resume does not race with Canceled").
OneRunPerTask ==
  \A r, s \in RunIds : Live(r) /\ Live(s) /\ runs[r].task = runs[s].task => r = s

\* Once its token is cancelled a run that is not inside a request never enters
\* one again, whether it is preparing, waiting for a retry or between two chunks
\* (retry.rs: "so that no request is sent after pause or cancel").
Stopped(r) == Live(r) /\ runs[r].cancelled /\ runs[r].pc # "transfer"
NoRequestAfterStop == [][\A r \in RunIds : Stopped(r) => Stopped(r)' \/ ~Live(r)']_vars

\* The transfers that really run stay within the limit, not only the slots
\* (scheduler_state.rs: it limits "the number of groups running at the same time").
RunningWithinLimit ==
  \A d \in Directions :
    Cardinality({r \in RunIds : Live(r) /\ Direction[RunKey(r)] = d}) <= Limit[d]

\* A task that was reported Failed is over (handle_worker_event.rs: "the failed
\* state ends the task's life cycle").
FailedIsOver ==
  \A t \in TaskIds : reported[t].status = "Failed" => groups[KeyOf[t]] # t

\* After a terminal status nothing is reported for a task (handle_worker_event
\* .rs: "the failed state ends the task's life cycle").
TerminalIsFinal ==
  [][\A t \in TaskIds :
       reported[t].status \in Terminal => reported'[t] = reported[t]]_vars

\* The Paused report carries the progress that was visible before (executor.rs:
\* "use the offset as pause progress, to keep the visible progress continuous").
PauseKeepsProgress ==
  [][\A t \in TaskIds :
       reported[t].status = "Transmission" /\ reported'[t].status = "Paused"
       => reported'[t].progress >= reported[t].progress]_vars

\* When callers stop sending, every task comes to its end or rests paused
\* with its slot given back, and every run is over: retries are bounded, no
\* worker event is lost, no slot leaks and no waiting key is forgotten. The
\* premise is needed: commands are taken first, so a caller that never stops
\* can keep the scheduler from its worker events for ever.
AtRest ==
  /\ \A k \in Keys : groups[k] # NoTask => k \in pausedSet /\ active[k] = NoRun
  /\ \A r \in RunIds : ~Live(r)
Settles == <>[](cmds = <<>>) => <>[]AtRest

-----------------------------------------------------------------------------
\* The life cycle of a task as its callers can see it.
Phase(t) ==
  LET k == KeyOf[t]
  IN  IF groups[k] # t THEN IF reported[t].status = "None" THEN "new" ELSE "ended"
      ELSE IF active[k] # NoRun
           THEN IF k \in pausedSet THEN "stopping" ELSE "running"
      ELSE IF k \in pausedSet THEN "paused" ELSE "waiting"

Lifecycle == INSTANCE TaskLifecycle WITH
  Tasks <- TaskIds,
  Limit <- Limit,
  phase <- [t \in TaskIds |-> Phase(t)]

\* The executor implements the abstract life cycle: one task per key, slots
\* within the limit, only legal moves, nothing returns from its end.
ImplementsLifecycle == Lifecycle!Spec
=============================================================================
