----------------------------- MODULE Scheduler -----------------------------
(***************************************************************************)
(* The scheduler thread: the command and event branches of worker_loop,    *)
(* each followed by try_start_next. A handler is one action that ends at   *)
(* EnterScan; from there the only scheduler steps enabled are the          *)
(* iterations of try_start_next, one action each, until it returns to the  *)
(* select. Runs and callers may step between the iterations.               *)
(***************************************************************************)
EXTENDS ExecState

WithoutNothing(q, key) == q  \* Bug: only the mirror forgets the key.

\* VecDeque::retain(|k| k != key), for a queue that holds key at most once.
Without(q, key) ==
  IF \E i \in 1..Len(q) : q[i] = key
  THEN LET i == CHOOSE j \in 1..Len(q) : q[j] = key
       IN  [j \in 1..(Len(q) - 1) |-> IF j < i THEN q[j] ELSE q[j + 1]]
  ELSE q

CancelToken(r) ==
  [runs EXCEPT ![r].cancelled = runs[r].pc # "idle"]
CancelActiveSlotOnly(k) == runs  \* Bug: the slot is freed, the token forgotten.

CancelActive(k) == IF active[k] = NoRun THEN runs ELSE CancelToken(active[k])

FreeRun(r) == ~Live(r) /\ \A i \in 1..Len(events) : events[i].run # r

\* try_start_next is called: it returns at once on an empty queue.
EnterScan ==
  /\ pc' = IF queued' = <<>> THEN "select" ELSE "scan"
  /\ scanLeft' = Len(queued')
  /\ scheduled' = FALSE

RemoveGroupOnly(k) ==  \* Bug: the id keeps its mapping.
  groups' = [groups EXCEPT ![k] = NoTask] /\ UNCHANGED taskIdToDedupe
RemoveIdOnly(k) ==  \* Bug: the group stays.
  /\ UNCHANGED groups
  /\ taskIdToDedupe' = [t \in TaskIds |->
                          IF t = groups[k] THEN NoKey ELSE taskIdToDedupe[t]]

\* The group of k goes, with the id that controls it.
RemoveGroup(k) ==
  /\ groups' = [groups EXCEPT ![k] = NoTask]
  /\ taskIdToDedupe' = [t \in TaskIds |->
                          IF t = groups[k] THEN NoKey ELSE taskIdToDedupe[t]]
ReportGroup(k, status, transferred, total) ==
  IF groups[k] = NoTask THEN reported
  ELSE Report(groups[k], status, transferred, total)

RequeueFirst(k) ==  \* Bug: push_front.
  IF active[k] = NoRun /\ k \notin queuedSet
  THEN queued' = <<k>> \o queued /\ queuedSet' = queuedSet \cup {k}
  ELSE UNCHANGED <<queued, queuedSet>>

\* Push k unless it is running or queued already.
Requeue(k) ==
  IF active[k] = NoRun /\ k \notin queuedSet
  THEN queued' = Append(queued, k) /\ queuedSet' = queuedSet \cup {k}
  ELSE UNCHANGED <<queued, queuedSet>>

-----------------------------------------------------------------------------
Receive(op, t) ==
  /\ pc = "select" /\ cmds # <<>>
  /\ Head(cmds) = [op |-> op, task |-> t]
  /\ cmds' = Tail(cmds)
  /\ UNCHANGED <<events, issued>>

\* A group with this key exists: the caller and the listeners are told that
\* the leader failed, and nothing else happens.
RejectDuplicate(t) ==
  /\ Receive("Enqueue", t)
  /\ LET k == KeyOf[t]
     IN  /\ groups[k] # NoTask
         /\ reported' = Report(groups[k], "Failed", 0, InnerTotal(k))
  /\ UNCHANGED <<tables, control, runs>>

EnqueueAgain(t) ==  \* Bug: no look for a group with this key.
  /\ Receive("Enqueue", t)
  /\ LET k == KeyOf[t]
     IN  /\ groups' = [groups EXCEPT ![k] = t]
         /\ taskIdToDedupe' = [taskIdToDedupe EXCEPT ![t] = k]
         /\ reported' = Report(t, "Pending", offsets[k], InnerTotal(k))
         /\ Requeue(k)
  /\ UNCHANGED <<pausedSet, active, offsets, runs>>
  /\ EnterScan

Enqueue(t) ==
  /\ Receive("Enqueue", t)
  /\ LET k == KeyOf[t]
     IN  /\ groups[k] = NoTask
         /\ groups' = [groups EXCEPT ![k] = t]
         /\ taskIdToDedupe' = [taskIdToDedupe EXCEPT ![t] = k]
         /\ reported' = Report(t, IF active[k] = NoRun THEN "Pending"
                                  ELSE "Transmission",
                               offsets[k], InnerTotal(k))
         /\ Requeue(k)
  /\ UNCHANGED <<pausedSet, active, offsets, runs>>
  /\ EnterScan

PauseFreesSlot(t) ==  \* Bug: the slot is free before the run has stopped.
  /\ Receive("Pause", t)
  /\ LET k == taskIdToDedupe[t]
     IN  /\ k # NoKey
         /\ runs' = CancelActive(k)
         /\ active' = [active EXCEPT ![k] = NoRun]
         /\ queued' = Without(queued, k)
         /\ queuedSet' = queuedSet \ {k}
         /\ pausedSet' = pausedSet \cup {k}
         /\ reported' = ReportGroup(k, "Paused", offsets[k], InnerTotal(k))
  /\ UNCHANGED <<groups, taskIdToDedupe, offsets>>
  /\ EnterScan

\* pause_group: the token of a running group is cancelled but its slot is
\* kept until the run reports that it stopped.
Pause(t) ==
  /\ Receive("Pause", t)
  /\ LET k == taskIdToDedupe[t]
     IN  /\ k # NoKey
         /\ runs' = CancelActive(k)
         /\ queued' = Without(queued, k)
         /\ queuedSet' = queuedSet \ {k}
         /\ pausedSet' = pausedSet \cup {k}
         /\ reported' = ReportGroup(k, "Paused", offsets[k], InnerTotal(k))
  /\ UNCHANGED <<groups, taskIdToDedupe, active, offsets>>
  /\ EnterScan

ResumeWhileStopping(t) ==  \* Bug: no check that the paused run has stopped.
  /\ Receive("Resume", t)
  /\ LET k == taskIdToDedupe[t]
     IN  /\ k # NoKey /\ k \in pausedSet
         /\ pausedSet' = pausedSet \ {k}
         /\ Requeue(k)
         /\ reported' = ReportGroup(k, "Pending", offsets[k], InnerTotal(k))
  /\ UNCHANGED <<groups, taskIdToDedupe, active, offsets, runs>>
  /\ EnterScan

\* resume_group, for a paused group that has stopped.
Resume(t) ==
  /\ Receive("Resume", t)
  /\ LET k == taskIdToDedupe[t]
     IN  /\ k # NoKey /\ k \in pausedSet /\ active[k] = NoRun
         /\ pausedSet' = pausedSet \ {k}
         /\ IF groups[k] = NoTask THEN UNCHANGED <<queued, queuedSet>>
            ELSE Requeue(k)
         /\ reported' = ReportGroup(k, "Pending", offsets[k], InnerTotal(k))
  /\ UNCHANGED <<groups, taskIdToDedupe, active, offsets, runs>>
  /\ EnterScan

\* resume_group answers InvalidTaskState: not paused, or still stopping.
RefuseResume(t) ==
  /\ Receive("Resume", t)
  /\ LET k == taskIdToDedupe[t]
     IN  k # NoKey /\ (k \in pausedSet => active[k] # NoRun)
  /\ UNCHANGED <<tables, runs, reported>>
  /\ EnterScan

\* cancel_group: the slot is freed at once, the run stops when it looks.
Cancel(t) ==
  /\ Receive("Cancel", t)
  /\ LET k == taskIdToDedupe[t]
     IN  /\ k # NoKey
         /\ runs' = CancelActive(k)
         /\ active' = [active EXCEPT ![k] = NoRun]
         /\ queued' = Without(queued, k)
         /\ queuedSet' = queuedSet \ {k}
         /\ pausedSet' = pausedSet \ {k}
         /\ RemoveGroup(k)
         /\ reported' = ReportGroup(k, "Canceled", offsets[k], InnerTotal(k))
  /\ UNCHANGED offsets
  /\ EnterScan

\* A control command whose task id has no mapping: TaskNotFound.
TaskNotFound(op, t) ==
  /\ Receive(op, t)
  /\ taskIdToDedupe[t] = NoKey
  /\ UNCHANGED <<tables, runs, reported>>
  /\ EnterScan

\* Close: running groups are cancelled, every group is reported Paused, all
\* tables are cleared and the loop ends. Both receivers are dropped with it.
Close ==
  /\ pc = "select" /\ cmds # <<>> /\ Head(cmds).op = "Close"
  /\ runs' = [r \in RunIds |->
                IF \E k \in Keys : active[k] = r
                THEN CancelToken(r)[r] ELSE runs[r]]
  /\ reported' = [t \in TaskIds |->
                    IF groups[KeyOf[t]] = t
                    THEN Report(t, "Paused", offsets[KeyOf[t]],
                                InnerTotal(KeyOf[t]))[t]
                    ELSE reported[t]]
  /\ groups' = [k \in Keys |-> NoTask]
  /\ taskIdToDedupe' = [t \in TaskIds |-> NoKey]
  /\ queued' = <<>> /\ queuedSet' = {} /\ pausedSet' = {}
  /\ active' = [k \in Keys |-> NoRun]
  /\ offsets' = [k \in Keys |-> 0]
  /\ cmds' = <<>> /\ events' = <<>>
  /\ pc' = "closed" /\ scanLeft' = 0 /\ scheduled' = FALSE
  /\ UNCHANGED issued

\* The last client is dropped: recv returns None once the channel is empty,
\* and the loop ends without a word to the listeners.
Disconnect ==
  /\ pc = "select" /\ cmds = <<>>
  /\ groups' = [k \in Keys |-> NoTask]
  /\ taskIdToDedupe' = [t \in TaskIds |-> NoKey]
  /\ queued' = <<>> /\ queuedSet' = {} /\ pausedSet' = {}
  /\ active' = [k \in Keys |-> NoRun]
  /\ offsets' = [k \in Keys |-> 0]
  /\ events' = <<>>
  /\ pc' = "closed" /\ scanLeft' = 0 /\ scheduled' = FALSE
  /\ UNCHANGED <<cmds, runs, reported, issued>>

-----------------------------------------------------------------------------
\* The select is biased: events are taken only when no command waits.
TakeEvent(type, k) ==
  /\ pc = "select" /\ cmds = <<>> /\ events # <<>>
  /\ Head(events).type = type /\ Head(events).key = k
  /\ events' = Tail(events)
  /\ UNCHANGED <<cmds, issued, runs>>

OnProgress(k) ==
  /\ TakeEvent("Progress", k)
  /\ offsets' = [offsets EXCEPT ![k] = Head(events).offset]
  /\ reported' = ReportGroup(k, "Transmission", Head(events).offset, Size)
  /\ UNCHANGED <<groups, taskIdToDedupe, queued, queuedSet, pausedSet, active>>
  /\ EnterScan

EndTaskStillPaused(k, status, transferred, total) ==  \* Bug: the paused mark stays.
  /\ active' = [active EXCEPT ![k] = NoRun]
  /\ RemoveGroup(k)
  /\ reported' = ReportGroup(k, status, transferred, total)
  /\ offsets' = [offsets EXCEPT ![k] = 0]
  /\ UNCHANGED <<queued, queuedSet, pausedSet>>

\* Completed and Failed end the task whether it is paused or not.
EndTask(k, status, transferred, total) ==
  /\ active' = [active EXCEPT ![k] = NoRun]
  /\ pausedSet' = pausedSet \ {k}
  /\ RemoveGroup(k)
  /\ reported' = ReportGroup(k, status, transferred, total)
  /\ offsets' = [offsets EXCEPT ![k] = 0]
  /\ UNCHANGED <<queued, queuedSet>>

OnCompletedNoScan(k) ==  \* Bug: the free slot is not handed on.
  /\ TakeEvent("Completed", k)
  /\ EndTask(k, "Complete", Size, Size)
  /\ UNCHANGED control

OnCompleted(k) ==
  /\ TakeEvent("Completed", k)
  /\ EndTask(k, "Complete", Size, Size)
  /\ EnterScan

OnFailedNoScan(k) ==  \* Bug: the same after a failure.
  /\ TakeEvent("Failed", k)
  /\ EndTask(k, "Failed", offsets[k], InnerTotal(k))
  /\ UNCHANGED control

OnFailed(k) ==
  /\ TakeEvent("Failed", k)
  /\ EndTask(k, "Failed", offsets[k], InnerTotal(k))
  /\ EnterScan

OnCanceledPausedForgets(k) ==  \* Bug: the paused mark is taken off with the slot.
  /\ TakeEvent("Canceled", k)
  /\ k \in pausedSet
  /\ active' = [active EXCEPT ![k] = NoRun]
  /\ pausedSet' = pausedSet \ {k}
  /\ UNCHANGED <<groups, taskIdToDedupe, queued, queuedSet, offsets, reported>>
  /\ EnterScan

\* Canceled with the key in pausedSet is taken for the end of a pause: the
\* slot is freed and the group kept.
OnCanceledPaused(k) ==
  /\ TakeEvent("Canceled", k)
  /\ k \in pausedSet
  /\ active' = [active EXCEPT ![k] = NoRun]
  /\ UNCHANGED <<groups, taskIdToDedupe, queued, queuedSet, pausedSet, offsets,
                 reported>>
  /\ EnterScan

OnCanceled(k) ==
  /\ TakeEvent("Canceled", k)
  /\ k \notin pausedSet
  /\ EndTask(k, "Canceled", offsets[k], InnerTotal(k))
  /\ EnterScan

-----------------------------------------------------------------------------
\* One iteration of the for loop of try_start_next pops the front key.
PopFront ==
  /\ pc = "scan" /\ scanLeft > 0
  /\ scanLeft' = scanLeft - 1
  /\ UNCHANGED <<pc, cmds, events, issued>>
front == Head(queued)

\* The popped key is running already, or has no group any more.
SkipFront ==
  /\ PopFront
  /\ ~(active[front] = NoRun /\ groups[front] # NoTask)
  /\ queued' = Tail(queued)
  /\ queuedSet' = queuedSet \ {front}
  /\ UNCHANGED <<groups, taskIdToDedupe, pausedSet, active, offsets, scheduled,
                 runs, reported>>

\* No slot in its direction: back to the end of the queue.
RequeueFront ==
  /\ PopFront
  /\ active[front] = NoRun /\ groups[front] # NoTask
  /\ ~CanStartDirection(Direction[front])
  /\ queued' = Append(Tail(queued), front)
  /\ queuedSet' = queuedSet \cup {front}
  /\ UNCHANGED <<groups, taskIdToDedupe, pausedSet, active, offsets, scheduled,
                 runs, reported>>

\* A slot is free: report Transmission, take the slot, spawn the run.
StartFront ==
  /\ PopFront
  /\ active[front] = NoRun /\ groups[front] # NoTask
  /\ CanStartDirection(Direction[front])
  /\ \E r \in RunIds :
       /\ FreeRun(r) /\ \A s \in RunIds : FreeRun(s) => r <= s
       /\ active' = [active EXCEPT ![front] = r]
       /\ runs' = [runs EXCEPT ![r] = [task |-> groups[front],
                                       pc |-> "prepare",
                                       offset |-> offsets[front],
                                       attempt |-> 0,
                                       cancelled |-> FALSE]]
  /\ reported' = Report(groups[front], "Transmission", offsets[front],
                        InnerTotal(front))
  /\ queued' = Tail(queued)
  /\ queuedSet' = queuedSet \ {front}
  /\ scheduled' = TRUE
  /\ UNCHANGED <<groups, taskIdToDedupe, pausedSet, offsets>>

\* A round that started something is followed by another while keys wait;
\* a round that started nothing ends the call.
EndRound ==
  /\ pc = "scan" /\ scanLeft = 0
  /\ IF scheduled /\ queued # <<>>
     THEN pc' = "scan" /\ scanLeft' = Len(queued)
     ELSE pc' = "select" /\ scanLeft' = 0
  /\ scheduled' = FALSE
  /\ UNCHANGED <<tables, cmds, events, runs, reported, issued>>

-----------------------------------------------------------------------------
Commands ==
  \/ \E t \in TaskIds :
       \/ RejectDuplicate(t) \/ Enqueue(t) \/ Pause(t) \/ Resume(t)
       \/ RefuseResume(t) \/ Cancel(t)
       \/ \E op \in {"Pause", "Resume", "Cancel"} : TaskNotFound(op, t)
  \/ Close
WorkerEvents ==
  \E k \in Keys : OnProgress(k) \/ OnCompleted(k) \/ OnFailed(k)
                  \/ OnCanceledPaused(k) \/ OnCanceled(k)
TryStartNext == SkipFront \/ RequeueFront \/ StartFront \/ EndRound
SchedulerStep == Commands \/ WorkerEvents \/ TryStartNext
=============================================================================
