------------------------- MODULE ExecutorTypeProofs -------------------------
(***************************************************************************)
(* Type correctness of the executor, for all values of the constants, and  *)
(* facts about the operators of the model that later proofs cite.          *)
(***************************************************************************)
EXTENDS Executor, TLAPS

USE KeysAssumption, TaskIdsAssumption, RunIdsAssumption, LimitsAssumption

ReportRecord == [status : Statuses, progress : 0..Last]

-----------------------------------------------------------------------------
\* The bounds of the positions and the offsets of a run.
LEMMA LastType == Last \in Nat /\ Size <= Last /\ 0 \in 0..Last /\ Size \in 0..Last
BY DEF Last

\* Facts about the operators of the model.

LEMMA WithoutType ==
  ASSUME NEW q \in Seq(Keys), NEW key
  PROVE  Without(q, key) \in Seq(Keys)
<1>1. CASE ~ \E i \in 1..Len(q) : q[i] = key
  BY <1>1 DEF Without
<1>2. CASE \E i \in 1..Len(q) : q[i] = key
  <2> DEFINE i == CHOOSE j \in 1..Len(q) : q[j] = key
  <2>1. i \in 1..Len(q) /\ q[i] = key
    BY <1>2
  <2>2. Without(q, key) = [j \in 1..(Len(q) - 1) |-> IF j < i THEN q[j] ELSE q[j + 1]]
    BY <1>2 DEF Without
  <2> HIDE DEF i
  <2>3. Len(q) \in Nat /\ Len(q) - 1 \in Nat
    BY <2>1
  <2>4. \A j \in 1..(Len(q) - 1) : (IF j < i THEN q[j] ELSE q[j + 1]) \in Keys
    BY <2>1, <2>3
  <2>5. QED
    BY <2>2, <2>3, <2>4
<1>3. QED
  BY <1>1, <1>2

\* A report changes the record of one task to a well-formed one.
LEMMA ReportType ==
  ASSUME TypeOK, NEW t \in TaskIds, NEW status \in Statuses,
         NEW transferred \in 0..Last, NEW total
  PROVE  Report(t, status, transferred, total) \in [TaskIds -> ReportRecord]
BY LastType DEF Report, Progress, TypeOK, ReportRecord

LEMMA ReportGroupType ==
  ASSUME TypeOK, NEW k \in Keys, NEW status \in Statuses,
         NEW transferred \in 0..Last, NEW total
  PROVE  ReportGroup(k, status, transferred, total) \in [TaskIds -> ReportRecord]
<1>1. reported \in [TaskIds -> ReportRecord] /\ groups[k] \in TaskIds \cup {NoTask}
  BY DEF TypeOK, ReportRecord
<1>2. QED
  BY <1>1, ReportType DEF ReportGroup

LEMMA RemoveGroupType ==
  ASSUME TypeOK, NEW k \in Keys, RemoveGroup(k)
  PROVE  /\ groups' \in [Keys -> TaskIds \cup {NoTask}]
         /\ taskIdToDedupe' \in [TaskIds -> Keys \cup {NoKey}]
BY DEF TypeOK, RemoveGroup

LEMMA RequeueType ==
  ASSUME TypeOK, NEW k \in Keys, Requeue(k)
  PROVE  queued' \in Seq(Keys) /\ queuedSet' \subseteq Keys
<1>1. queued \in Seq(Keys) /\ queuedSet \subseteq Keys
  BY DEF TypeOK
<1>2. CASE active[k] = NoRun /\ k \notin queuedSet
  BY <1>1, <1>2 DEF Requeue
<1>3. CASE ~(active[k] = NoRun /\ k \notin queuedSet)
  BY <1>1, <1>3 DEF Requeue
<1>4. QED
  BY <1>2, <1>3

\* Cancelling a token sets one flag of a live run.
LEMMA CancelTokenType ==
  ASSUME TypeOK, NEW r \in RunIds
  PROVE  /\ CancelToken(r) \in [RunIds -> Run]
         /\ \A s \in RunIds :
              /\ CancelToken(r)[s] \in Run
              /\ CancelToken(r)[s].task = runs[s].task
              /\ CancelToken(r)[s].pc = runs[s].pc
              /\ CancelToken(r)[s].attempt = runs[s].attempt
<1>1. runs \in [RunIds -> Run]
  BY DEF TypeOK
<1>2. QED
  BY <1>1 DEF CancelToken, Run

LEMMA CancelActiveType ==
  ASSUME TypeOK, NEW k \in Keys
  PROVE  /\ CancelActive(k) \in [RunIds -> Run]
         /\ \A r \in RunIds :
              /\ CancelActive(k)[r].task = runs[r].task
              /\ CancelActive(k)[r].pc = runs[r].pc
              /\ CancelActive(k)[r].attempt = runs[r].attempt
<1>1. active[k] \in RunIds \cup {NoRun} /\ runs \in [RunIds -> Run]
  BY DEF TypeOK
<1>2. QED
  BY <1>1, CancelTokenType DEF CancelActive

\* A run's send keeps the channel well formed.
LEMMA SendType ==
  ASSUME TypeOK, NEW r \in RunIds, Live(r), CanSend,
         NEW type \in {"Progress", "Completed", "Failed", "Canceled"},
         NEW offset \in 0..Last
  PROVE  Send(type, r, offset) \in Seq(Event) /\ Len(Send(type, r, offset)) <= EventCap
<1>1. RunKey(r) \in Keys
  BY DEF TypeOK, RunKey
<1>2. [type |-> type, key |-> RunKey(r), offset |-> offset, run |-> r] \in Event
  BY <1>1 DEF Event
<1>3. QED
  BY <1>2 DEF Send, CanSend, TypeOK
\* Where a handler leaves the scheduler's loop variables.
ControlOK ==
  /\ pc \in {"select", "scan", "closed"}
  /\ scanLeft \in 0..Len(queued) /\ scheduled \in BOOLEAN
  /\ pc # "scan" => scanLeft = 0

LEMMA EnterScanType ==
  ASSUME EnterScan, queued' \in Seq(Keys)
  PROVE  ControlOK'
<1>1. /\ pc' = IF queued' = <<>> THEN "select" ELSE "scan"
      /\ scanLeft' = Len(queued')
      /\ scheduled' = FALSE
  BY DEF EnterScan
<1>2. Len(queued') \in Nat /\ (queued' = <<>> => Len(queued') = 0)
  OBVIOUS
<1>3. CASE queued' = <<>>
  <2>1. pc' = "select" /\ scanLeft' = 0
    BY <1>1, <1>2, <1>3
  <2>2. scanLeft' \in 0..Len(queued')
    BY <1>2, <2>1
  <2>3. QED
    BY <1>1, <2>1, <2>2 DEF ControlOK
<1>4. CASE queued' # <<>>
  <2>1. pc' = "scan"
    BY <1>1, <1>4
  <2>2. scanLeft' \in 0..Len(queued')
    BY <1>1, <1>2
  <2>3. QED
    BY <1>1, <2>1, <2>2 DEF ControlOK
<1>5. QED
  BY <1>3, <1>4

LEMMA ControlAtRest ==
  ASSUME pc' \in {"select", "closed"}, scanLeft' = 0, scheduled' = FALSE,
         Len(queued') \in Nat
  PROVE  ControlOK'
<1>1. scanLeft' \in 0..Len(queued')
  OBVIOUS
<1>2. pc' \in {"select", "scan", "closed"} /\ scheduled' \in BOOLEAN
  OBVIOUS
<1>3. QED
  BY <1>1, <1>2 DEF ControlOK

RunsOK ==
  /\ runs \in [RunIds -> Run]
  /\ \A r \in RunIds :
       /\ Live(r) => runs[r].task \in TaskIds
       /\ runs[r].pc = "backoff" => runs[r].attempt < MaxRetries

TablesOK ==
  /\ groups \in [Keys -> TaskIds \cup {NoTask}]
  /\ taskIdToDedupe \in [TaskIds -> Keys \cup {NoKey}]
  /\ queued \in Seq(Keys)
  /\ queuedSet \subseteq Keys /\ pausedSet \subseteq Keys
  /\ active \in [Keys -> RunIds \cup {NoRun}]
  /\ offsets \in [Keys -> 0..Last]

CmdsOK   == cmds \in Seq(Command) /\ Len(cmds) <= CmdCap
EventsOK == events \in Seq(Event) /\ Len(events) <= EventCap
ToldOK   == reported \in [TaskIds -> ReportRecord] /\ issued \subseteq TaskIds

\* TypeOK in the parts that the actions change together.
LEMMA TypeParts ==
  TypeOK <=> TablesOK /\ ControlOK /\ CmdsOK /\ EventsOK /\ RunsOK /\ ToldOK
BY DEF TypeOK, TablesOK, ControlOK, CmdsOK, EventsOK, RunsOK, ToldOK, ReportRecord

\* Taking the first command or event leaves a well-formed channel.
LEMMA ReceiveType ==
  ASSUME TypeOK, NEW op, NEW t \in TaskIds, Receive(op, t)
  PROVE  CmdsOK' /\ EventsOK'
<1>1. cmds \in Seq(Command) /\ cmds # <<>> /\ cmds' = Tail(cmds) /\ Len(cmds) <= CmdCap
  BY DEF TypeOK, Receive
<1>2. Len(Tail(cmds)) = Len(cmds) - 1 /\ Tail(cmds) \in Seq(Command) /\ Len(cmds) \in Nat
  BY <1>1
<1>3. events' = events
  BY DEF Receive
<1>4. QED
  BY <1>1, <1>2, <1>3 DEF TypeOK, CmdsOK, EventsOK

LEMMA TakeEventType ==
  ASSUME TypeOK, NEW type, NEW k \in Keys, TakeEvent(type, k)
  PROVE  CmdsOK' /\ EventsOK' /\ RunsOK' /\ issued' \subseteq TaskIds
         /\ Head(events) \in Event
<1>1. /\ events \in Seq(Event) /\ events # <<>> /\ events' = Tail(events)
      /\ Len(events) <= EventCap
  BY DEF TypeOK, TakeEvent
<1>2. /\ Len(Tail(events)) = Len(events) - 1 /\ Tail(events) \in Seq(Event)
      /\ Len(events) \in Nat /\ Head(events) \in Event
  BY <1>1
<1>3. cmds' = cmds /\ runs' = runs /\ issued' = issued
  BY DEF TakeEvent
<1>4. RunsOK'
  BY <1>3 DEF TypeOK, RunsOK, Live
<1>5. issued' \subseteq TaskIds
  BY <1>3 DEF TypeOK
<1>6. CmdsOK' /\ EventsOK'
  BY <1>1, <1>2, <1>3 DEF TypeOK, CmdsOK, EventsOK
<1>7. QED
  BY <1>2, <1>4, <1>5, <1>6

LEMMA EndTaskType ==
  ASSUME TypeOK, NEW k \in Keys, NEW status \in Statuses,
         NEW transferred \in 0..Last, NEW total,
         EndTask(k, status, transferred, total)
  PROVE  TablesOK' /\ reported' \in [TaskIds -> ReportRecord]
<1>1. RemoveGroup(k)
  BY DEF EndTask
<1>2. /\ groups' \in [Keys -> TaskIds \cup {NoTask}]
      /\ taskIdToDedupe' \in [TaskIds -> Keys \cup {NoKey}]
  BY <1>1, RemoveGroupType
<1>3. reported' \in [TaskIds -> ReportRecord]
  BY ReportGroupType DEF EndTask
<1>4. active' \in [Keys -> RunIds \cup {NoRun}]
  BY DEF EndTask, TypeOK
<1>5. offsets' \in [Keys -> 0..Last]
  BY LastType DEF EndTask, TypeOK
<1>6. queued' \in Seq(Keys) /\ queuedSet' \subseteq Keys /\ pausedSet' \subseteq Keys
  BY DEF EndTask, TypeOK
<1>7. QED
  BY <1>2, <1>3, <1>4, <1>5, <1>6 DEF TablesOK

-----------------------------------------------------------------------------
\* Type correctness, one lemma for each of the parts of Next.

LEMMA CommandsType ==
  ASSUME TypeOK, Commands
  PROVE  TypeOK'
<1> USE DEF TablesOK, ToldOK
<1>1. ASSUME NEW t \in TaskIds, RejectDuplicate(t) PROVE TypeOK'
  <2>1. CmdsOK' /\ EventsOK'
    BY <1>1, ReceiveType DEF RejectDuplicate
  <2>2. /\ groups[KeyOf[t]] \in TaskIds
        /\ reported' = Report(groups[KeyOf[t]], "Failed", 0, InnerTotal(KeyOf[t]))
        /\ issued' = issued
        /\ 0 \in 0..Last
    BY <1>1, LastType DEF RejectDuplicate, Receive, TypeOK
  <2>3. ToldOK'
    BY <2>2, ReportType DEF TypeOK, Statuses
  <2>4. TablesOK' /\ ControlOK' /\ RunsOK'
    BY <1>1 DEF RejectDuplicate, TypeOK, tables, control, ControlOK, RunsOK, Live
  <2>5. QED
    BY <2>1, <2>3, <2>4, TypeParts, PTL
<1>2. ASSUME NEW t \in TaskIds, Enqueue(t) PROVE TypeOK'
  <2>1. CmdsOK' /\ EventsOK'
    BY <1>2, ReceiveType DEF Enqueue
  <2>2. KeyOf[t] \in Keys /\ offsets[KeyOf[t]] \in 0..Last
    BY DEF TypeOK
  <2>3. queued' \in Seq(Keys) /\ queuedSet' \subseteq Keys
    BY <1>2, <2>2, RequeueType DEF Enqueue
  <2>4. ControlOK'
    BY <1>2, <2>3, EnterScanType DEF Enqueue
  <2>5. ToldOK'
    BY <1>2, <2>2, ReportType DEF Enqueue, Receive, TypeOK, Statuses
  <2>6. TablesOK' /\ RunsOK'
    BY <1>2, <2>2, <2>3 DEF Enqueue, TypeOK, RunsOK, Live
  <2>7. QED
    BY <2>1, <2>4, <2>5, <2>6, TypeParts, PTL
<1>3. ASSUME NEW t \in TaskIds, Pause(t) PROVE TypeOK'
  <2> DEFINE k == taskIdToDedupe[t]
  <2>1. CmdsOK' /\ EventsOK'
    BY <1>3, ReceiveType DEF Pause
  <2>2. k \in Keys /\ offsets[k] \in 0..Last
    BY <1>3 DEF Pause, TypeOK
  <2>3. queued' \in Seq(Keys)
    BY <1>3, <2>2, WithoutType DEF Pause, TypeOK
  <2>4. ControlOK'
    BY <1>3, <2>3, EnterScanType DEF Pause
  <2>5. ToldOK'
    BY <1>3, <2>2, ReportGroupType DEF Pause, Receive, TypeOK, Statuses
  <2>6. runs' = CancelActive(k)
    BY <1>3 DEF Pause
  <2>7. RunsOK'
    BY <2>2, <2>6, CancelActiveType DEF TypeOK, RunsOK, Live
  <2>8. TablesOK'
    BY <1>3, <2>2, <2>3 DEF Pause, TypeOK
  <2>9. QED
    BY <2>1, <2>4, <2>5, <2>7, <2>8, TypeParts, PTL
<1>4. ASSUME NEW t \in TaskIds, Resume(t) PROVE TypeOK'
  <2> DEFINE k == taskIdToDedupe[t]
  <2>1. CmdsOK' /\ EventsOK'
    BY <1>4, ReceiveType DEF Resume
  <2>2. k \in Keys /\ offsets[k] \in 0..Last
    BY <1>4 DEF Resume, TypeOK
  <2>3. queued' \in Seq(Keys) /\ queuedSet' \subseteq Keys
    BY <1>4, <2>2, RequeueType DEF Resume, TypeOK
  <2>4. ControlOK'
    BY <1>4, <2>3, EnterScanType DEF Resume
  <2>5. ToldOK'
    BY <1>4, <2>2, ReportGroupType DEF Resume, Receive, TypeOK, Statuses
  <2>6. TablesOK' /\ RunsOK'
    BY <1>4, <2>2, <2>3 DEF Resume, TypeOK, RunsOK, Live
  <2>7. QED
    BY <2>1, <2>4, <2>5, <2>6, TypeParts, PTL
<1>5. ASSUME NEW t \in TaskIds, Cancel(t) PROVE TypeOK'
  <2> DEFINE k == taskIdToDedupe[t]
  <2>1. CmdsOK' /\ EventsOK'
    BY <1>5, ReceiveType DEF Cancel
  <2>2. k \in Keys /\ offsets[k] \in 0..Last
    BY <1>5 DEF Cancel, TypeOK
  <2>3. queued' \in Seq(Keys)
    BY <1>5, <2>2, WithoutType DEF Cancel, TypeOK
  <2>4. ControlOK'
    BY <1>5, <2>3, EnterScanType DEF Cancel
  <2>5. ToldOK'
    BY <1>5, <2>2, ReportGroupType DEF Cancel, Receive, TypeOK, Statuses
  <2>6. runs' = CancelActive(k) /\ RemoveGroup(k)
    BY <1>5 DEF Cancel
  <2>7. RunsOK'
    BY <2>2, <2>6, CancelActiveType DEF TypeOK, RunsOK, Live
  <2>8. TablesOK'
    BY <1>5, <2>2, <2>3, <2>6, RemoveGroupType DEF Cancel, TypeOK
  <2>9. QED
    BY <2>1, <2>4, <2>5, <2>7, <2>8, TypeParts, PTL
<1>6. ASSUME NEW op, NEW t \in TaskIds, RefuseResume(t) \/ TaskNotFound(op, t)
      PROVE  TypeOK'
  <2>1. CmdsOK' /\ EventsOK'
    BY <1>6, ReceiveType DEF RefuseResume, TaskNotFound
  <2>2. UNCHANGED <<tables, runs, reported, issued>> /\ EnterScan
    BY <1>6 DEF RefuseResume, TaskNotFound, Receive
  <2>3. ControlOK'
    BY <2>2, EnterScanType DEF tables, TypeOK
  <2>4. TablesOK' /\ RunsOK' /\ ToldOK'
    BY <2>2 DEF tables, TypeOK, RunsOK, Live, ReportRecord
  <2>5. QED
    BY <2>1, <2>3, <2>4, TypeParts, PTL
<1>7. ASSUME Close PROVE TypeOK'
  <2>1. TablesOK' /\ ControlOK' /\ CmdsOK' /\ EventsOK'
    <3>1. /\ cmds' = <<>> /\ events' = <<>> /\ queued' = <<>>
          /\ pc' = "closed" /\ scanLeft' = 0 /\ scheduled' = FALSE
      BY <1>7 DEF Close
    <3>2. CmdsOK' /\ EventsOK'
      BY <3>1 DEF CmdsOK, EventsOK
    <3>3. ControlOK'
      <4>1. Len(queued') \in Nat
        BY <3>1
      <4>2. QED
        BY <3>1, <4>1, ControlAtRest
    <3>4. TablesOK'
      BY <1>7, LastType DEF Close
    <3>5. QED
      BY <3>2, <3>3, <3>4
  <2>2. ASSUME NEW t \in TaskIds
        PROVE  Report(t, "Paused", offsets[KeyOf[t]], InnerTotal(KeyOf[t]))[t] \in ReportRecord
    <3>1. offsets[KeyOf[t]] \in 0..Last /\ "Paused" \in Statuses
      BY DEF TypeOK, Statuses
    <3>2. QED
      BY <3>1, ReportType
  <2>3. ToldOK'
    BY <1>7, <2>2 DEF Close, TypeOK, ReportRecord
  <2>4. ASSUME NEW r \in RunIds
        PROVE  /\ CancelToken(r)[r] \in Run
               /\ CancelToken(r)[r].task = runs[r].task
               /\ CancelToken(r)[r].pc = runs[r].pc
               /\ CancelToken(r)[r].attempt = runs[r].attempt
    BY CancelTokenType
  <2>5. RunsOK'
    BY <1>7, <2>4 DEF Close, TypeOK, RunsOK, Live
  <2>6. QED
    BY <2>1, <2>3, <2>5, TypeParts, PTL
<1>8. QED
  BY <1>1, <1>2, <1>3, <1>4, <1>5, <1>6, <1>7 DEF Commands

LEMMA WorkerEventsType ==
  ASSUME TypeOK, WorkerEvents
  PROVE  TypeOK'
<1> SUFFICES ASSUME NEW k \in Keys,
                    \/ OnProgress(k) \/ OnCompleted(k) \/ OnFailed(k)
                    \/ OnCanceledPaused(k) \/ OnCanceled(k)
             PROVE  TypeOK'
  BY DEF WorkerEvents
<1>1. /\ CmdsOK' /\ EventsOK' /\ RunsOK' /\ issued' \subseteq TaskIds
      /\ Head(events) \in Event /\ EnterScan
  BY TakeEventType DEF OnProgress, OnCompleted, OnFailed, OnCanceledPaused, OnCanceled
<1>2. Head(events).offset \in 0..Last /\ offsets[k] \in 0..Last /\ Size \in 0..Last
  BY <1>1, LastType DEF Event, TypeOK
<1>3. TablesOK' /\ reported' \in [TaskIds -> ReportRecord]
  <2>1. CASE OnProgress(k)
    <3>1. reported' \in [TaskIds -> ReportRecord]
      BY <1>2, <2>1, ReportGroupType DEF OnProgress, Statuses
    <3>2. QED
      BY <1>2, <2>1, <3>1 DEF OnProgress, TypeOK, TablesOK
  <2>2. CASE OnCompleted(k)
    BY <1>2, <2>2, EndTaskType DEF OnCompleted, Statuses
  <2>3. CASE OnFailed(k)
    BY <1>2, <2>3, EndTaskType DEF OnFailed, Statuses
  <2>4. CASE OnCanceled(k)
    BY <1>2, <2>4, EndTaskType DEF OnCanceled, Statuses
  <2>5. CASE OnCanceledPaused(k)
    BY <2>5 DEF OnCanceledPaused, TypeOK, TablesOK, ReportRecord
  <2>6. QED
    BY <2>1, <2>2, <2>3, <2>4, <2>5
<1>4. ControlOK'
  BY <1>1, <1>3, EnterScanType DEF TablesOK
<1>5. ToldOK'
  BY <1>1, <1>3 DEF ToldOK
<1>6. QED
  BY <1>1, <1>3, <1>4, <1>5, TypeParts, PTL

LEMMA TryStartNextType ==
  ASSUME TypeOK, TryStartNext
  PROVE  TypeOK'
<1> USE DEF TablesOK, ToldOK
<1>1. ASSUME PopFront
      PROVE  /\ CmdsOK' /\ EventsOK' /\ issued' \subseteq TaskIds
             /\ Len(queued) \in Nat /\ Len(queued) > 0
             /\ front \in Keys /\ Tail(queued) \in Seq(Keys)
             /\ Len(Tail(queued)) = Len(queued) - 1
             /\ scanLeft' \in 0..(Len(queued) - 1) /\ pc' = "scan"
  <2>1. scanLeft \in 0..Len(queued) /\ scanLeft > 0 /\ scanLeft' = scanLeft - 1 /\ pc' = "scan"
    BY <1>1 DEF PopFront, TypeOK
  <2>2. queued \in Seq(Keys) /\ Len(queued) \in Nat
    BY DEF TypeOK
  <2>3. queued # <<>>
    BY <2>1, <2>2
  <2>4. Tail(queued) \in Seq(Keys) /\ front \in Keys /\ Len(Tail(queued)) = Len(queued) - 1
    BY <2>2, <2>3 DEF front
  <2>5. CmdsOK' /\ EventsOK' /\ issued' \subseteq TaskIds
    BY <1>1 DEF PopFront, TypeOK, CmdsOK, EventsOK
  <2>6. QED
    BY <2>1, <2>2, <2>4, <2>5
<1>2. CASE SkipFront
  <2>1. PopFront
    BY <1>2 DEF SkipFront
  <2>2. TablesOK'
    BY <1>1, <1>2, <2>1 DEF SkipFront, TypeOK
  <2>3. ControlOK'
    BY <1>1, <1>2, <2>1 DEF SkipFront, TypeOK, ControlOK
  <2>4. RunsOK' /\ ToldOK'
    BY <1>1, <1>2, <2>1 DEF SkipFront, TypeOK, RunsOK, Live, ReportRecord
  <2>5. QED
    BY <1>1, <2>1, <2>2, <2>3, <2>4, TypeParts, PTL
<1>3. CASE RequeueFront
  <2>1. PopFront
    BY <1>3 DEF RequeueFront
  <2>2. queued' \in Seq(Keys) /\ Len(queued') = Len(queued)
    BY <1>1, <1>3, <2>1 DEF RequeueFront
  <2>3. TablesOK'
    BY <1>1, <1>3, <2>1, <2>2 DEF RequeueFront, TypeOK
  <2>4. ControlOK'
    BY <1>1, <1>3, <2>1, <2>2 DEF RequeueFront, TypeOK, ControlOK
  <2>5. RunsOK' /\ ToldOK'
    BY <1>1, <1>3, <2>1 DEF RequeueFront, TypeOK, RunsOK, Live, ReportRecord
  <2>6. QED
    BY <1>1, <2>1, <2>3, <2>4, <2>5, TypeParts, PTL
<1>4. CASE StartFront
  <2>1. PopFront
    BY <1>4 DEF StartFront
  <2>2. groups[front] \in TaskIds /\ offsets[front] \in 0..Last /\ 0 \in 0..MaxRetries
    BY <1>1, <1>4, <2>1 DEF StartFront, TypeOK
  <2>3. PICK r \in RunIds :
          /\ active' = [active EXCEPT ![front] = r]
          /\ runs' = [runs EXCEPT ![r] = [task |-> groups[front],
                                          pc |-> "prepare",
                                          offset |-> offsets[front],
                                          attempt |-> 0,
                                          cancelled |-> FALSE]]
    BY <1>4 DEF StartFront
  <2>4. TablesOK'
    BY <1>1, <1>4, <2>1, <2>3 DEF StartFront, TypeOK
  <2>5. ControlOK'
    BY <1>1, <1>4, <2>1 DEF StartFront, TypeOK, ControlOK
  <2>6. RunsOK'
    BY <2>2, <2>3 DEF TypeOK, RunsOK, Live, Run
  <2>7. ToldOK'
    BY <1>1, <1>4, <2>1, <2>2, ReportType DEF StartFront, Statuses
  <2>8. QED
    BY <1>1, <2>1, <2>4, <2>5, <2>6, <2>7, TypeParts, PTL
<1>5. CASE EndRound
  <2>1. TablesOK' /\ CmdsOK' /\ EventsOK' /\ RunsOK' /\ ToldOK'
    BY <1>5 DEF EndRound, tables, TypeOK, CmdsOK, EventsOK, RunsOK, Live, ReportRecord
  <2>2. queued' = queued /\ Len(queued) \in Nat
    BY <1>5 DEF EndRound, tables, TypeOK
  <2>3. ControlOK'
    <3>1. CASE scheduled /\ queued # <<>>
      <4>1. /\ pc' = "scan" /\ scanLeft' = Len(queued) /\ scheduled' = FALSE
        BY <1>5, <3>1 DEF EndRound
      <4>2. scanLeft' \in 0..Len(queued')
        BY <2>2, <4>1
      <4>3. QED
        BY <4>1, <4>2 DEF ControlOK
    <3>2. CASE ~(scheduled /\ queued # <<>>)
      BY <1>5, <2>2, <3>2, ControlAtRest DEF EndRound
    <3>3. QED
      BY <3>1, <3>2
  <2>4. QED
    BY <2>1, <2>3, TypeParts, PTL
<1>6. QED
  BY <1>2, <1>3, <1>4, <1>5 DEF TryStartNext

LEMMA CallersType ==
  ASSUME TypeOK, Callers
  PROVE  TypeOK'
<1>1. PICK op \in {"Enqueue", "Pause", "Resume", "Cancel", "Close"}, t \in TaskIds \cup {NoTask} :
        SendCommand(op, t)
  BY DEF Callers, SendEnqueue, SendControl, SendClose
<1>2. [op |-> op, task |-> t] \in Command
  BY DEF Command
<1>3. CmdsOK'
  BY <1>1, <1>2 DEF SendCommand, TypeOK, CmdsOK
<1>4. issued' \subseteq TaskIds
  BY DEF Callers, SendEnqueue, SendControl, SendClose, TypeOK
<1>5. TablesOK' /\ ControlOK' /\ EventsOK' /\ RunsOK' /\ ToldOK'
  BY <1>1, <1>4 DEF SendCommand, tables, control, TypeOK, TablesOK, ControlOK, EventsOK,
                    RunsOK, Live, ToldOK, ReportRecord
<1>6. QED
  BY <1>3, <1>5, TypeParts, PTL

LEMMA DisconnectType ==
  ASSUME TypeOK, Disconnect
  PROVE  TypeOK'
<1>1. /\ queued' = <<>> /\ events' = <<>> /\ Len(queued') \in Nat
      /\ pc' = "closed" /\ scanLeft' = 0 /\ scheduled' = FALSE
  BY DEF Disconnect
<1>2. ControlOK' /\ EventsOK'
  <2>1. ControlOK'
    BY <1>1, ControlAtRest
  <2>2. EventsOK'
    BY <1>1 DEF EventsOK
  <2>3. QED
    BY <2>1, <2>2
<1>3. TablesOK'
  BY LastType DEF Disconnect, TablesOK
<1>4. CmdsOK' /\ RunsOK' /\ ToldOK'
  BY DEF Disconnect, TypeOK, CmdsOK, RunsOK, Live, ToldOK, ReportRecord
<1>5. QED
  BY <1>2, <1>3, <1>4, TypeParts, PTL

\* Replacing one run by a well-formed one.
LEMMA RunUpdateType ==
  ASSUME TypeOK, NEW r \in RunIds, NEW run \in Run,
         run.pc # "idle" => run.task \in TaskIds,
         run.pc = "backoff" => run.attempt < MaxRetries,
         runs' = [runs EXCEPT ![r] = run]
  PROVE  RunsOK'
BY DEF TypeOK, RunsOK, Live

LEMMA RunStepType ==
  ASSUME TypeOK, NEW r \in RunIds, RunStep(r)
  PROVE  TypeOK'
<1>1. UNCHANGED <<tables, control, cmds, reported, issued>>
  BY DEF RunStep, Prepare, Check, ObserveCancel, TransferChunk, Complete, ScheduleRetry,
         BackoffEnds, Fail, Abort
<1>2. TablesOK' /\ ControlOK' /\ CmdsOK' /\ ToldOK'
  BY <1>1 DEF tables, control, TypeOK, TablesOK, ControlOK, CmdsOK, ToldOK, ReportRecord
<1>3. 0 \in 0..Last /\ Size \in 0..Last /\ 0 \in 0..MaxRetries
  BY LastType
<1>4. /\ runs \in [RunIds -> Run] /\ runs[r] \in Run
      /\ runs[r].offset \in 0..Last /\ runs[r].attempt \in 0..MaxRetries
  BY DEF TypeOK, Run
<1>5. runs[r].pc # "idle"
  BY DEF RunStep, Prepare, Check, ObserveCancel, TransferChunk, Complete, ScheduleRetry,
         BackoffEnds, Fail, Abort, Live
<1>6. runs[r].task \in TaskIds /\ RunKey(r) \in Keys /\ Live(r)
  BY <1>5 DEF TypeOK, RunKey, Live
<1>7. IdleRun \in Run /\ IdleRun.pc = "idle"
  BY <1>3 DEF IdleRun, Run
<1>8. ASSUME events' = events PROVE EventsOK'
  BY <1>8 DEF TypeOK, EventsOK
<1>9. EventsOK' /\ RunsOK'
  <2>1. CASE Prepare(r)
    <3>1. PICK o \in PreparedOffsets(RunKey(r), runs[r].offset) :
            runs' = [runs EXCEPT ![r].pc = "check", ![r].offset = o]
      BY <2>1 DEF Prepare
    <3>2. o \in 0..Last
      BY <1>4, LastType DEF PreparedOffsets, UploadOffsets, DownloadOffsets
    <3> DEFINE new == [runs[r] EXCEPT !.pc = "check", !.offset = o]
    <3>3. new \in Run /\ new.pc = "check" /\ new.task = runs[r].task
      BY <1>4, <3>2 DEF Run
    <3>4. runs' = [runs EXCEPT ![r] = new]
      BY <1>4, <3>1
    <3>5. RunsOK'
      BY <1>6, <3>3, <3>4, RunUpdateType
    <3>6. QED
      BY <1>8, <2>1, <3>5 DEF Prepare
  <2>2. CASE Check(r)
    <3> DEFINE new == [runs[r] EXCEPT !.pc = "transfer"]
    <3>1. new \in Run /\ new.pc = "transfer" /\ new.task = runs[r].task
      BY <1>4 DEF Run
    <3>2. runs' = [runs EXCEPT ![r] = new] /\ events' = events
      BY <1>4, <2>2 DEF Check
    <3>3. QED
      BY <1>6, <1>8, <3>1, <3>2, RunUpdateType
  <2>3. CASE ScheduleRetry(r)
    <3> DEFINE new == [runs[r] EXCEPT !.pc = "backoff"]
    <3>1. new \in Run /\ new.task = runs[r].task /\ new.attempt = runs[r].attempt
      BY <1>4 DEF Run
    <3>2. /\ runs' = [runs EXCEPT ![r] = new] /\ events' = events
          /\ runs[r].attempt < MaxRetries
      BY <1>4, <2>3 DEF ScheduleRetry
    <3>3. QED
      BY <1>6, <1>8, <3>1, <3>2, RunUpdateType
  <2>4. CASE ObserveCancel(r) \/ Complete(r) \/ Fail(r)
    <3>1. /\ CanSend /\ runs' = [runs EXCEPT ![r] = IdleRun]
          /\ \E type \in {"Completed", "Failed", "Canceled"}, offset \in {0, Size} :
               events' = Send(type, r, offset)
      BY <2>4 DEF ObserveCancel, Complete, Fail
    <3>2. EventsOK'
      BY <1>3, <1>6, <3>1, SendType DEF EventsOK
    <3>3. RunsOK'
      BY <1>7, <3>1, RunUpdateType
    <3>4. QED
      BY <3>2, <3>3
  <2>5. CASE TransferChunk(r)
    <3>1. PICK next \in ChunkEnds(RunKey(r), runs[r].offset) :
            /\ events' = Send("Progress", r, next)
            /\ runs' = [runs EXCEPT
                          ![r].pc = IF next >= Size THEN "completing" ELSE "check",
                          ![r].offset = next,
                          ![r].attempt = 0]
      BY <2>5 DEF TransferChunk
    <3>2. next \in 0..Last
      BY <1>4, LastType DEF ChunkEnds, UploadChunkEnds, DownloadChunkEnds
    <3>3. CanSend
      BY <2>5 DEF TransferChunk
    <3>4. EventsOK'
      BY <1>6, <3>1, <3>2, <3>3, SendType DEF EventsOK
    <3> DEFINE p == IF next >= Size THEN "completing" ELSE "check"
               new == [runs[r] EXCEPT !.pc = p, !.offset = next, !.attempt = 0]
    <3>5. p \in {"completing", "check"}
      OBVIOUS
    <3>6. runs' = [runs EXCEPT ![r] = new]
      BY <1>4, <3>1
    <3> HIDE DEF p
    <3>7. new \in Run /\ new.pc = p /\ new.task = runs[r].task
      BY <1>3, <1>4, <3>2, <3>5 DEF Run
    <3>8. RunsOK'
      BY <1>6, <3>5, <3>6, <3>7, RunUpdateType
    <3>9. QED
      BY <3>4, <3>8
  <2>6. CASE BackoffEnds(r)
    <3> DEFINE new == [runs[r] EXCEPT !.pc = "check", !.attempt = @ + 1]
    <3>1. runs[r].attempt < MaxRetries
      BY <2>6 DEF BackoffEnds, TypeOK
    <3>2. runs[r].attempt + 1 \in 0..MaxRetries
      BY <1>4, <3>1
    <3>3. new \in Run /\ new.pc = "check" /\ new.task = runs[r].task
      BY <1>4, <3>2 DEF Run
    <3>4. runs' = [runs EXCEPT ![r] = new] /\ events' = events
      BY <1>4, <2>6 DEF BackoffEnds
    <3>5. QED
      BY <1>6, <1>8, <3>3, <3>4, RunUpdateType
  <2>7. CASE Abort(r)
    BY <1>7, <1>8, <2>7, RunUpdateType DEF Abort
  <2>8. QED
    BY <2>1, <2>2, <2>3, <2>4, <2>5, <2>6, <2>7 DEF RunStep
<1>10. QED
  BY <1>2, <1>9, TypeParts, PTL

\* Every reachable state is well typed: in particular both channels keep
\* their bounds, a scan stays inside the queue, and no chunk is tried more
\* often than MaxRetries allows.
THEOREM TypeCorrect == Spec => []TypeOK
<1>1. Init => TypeOK
  <2> SUFFICES ASSUME Init PROVE TypeOK
    OBVIOUS
  <2>1. queued = <<>> /\ cmds = <<>> /\ events = <<>>
        /\ Len(queued) = 0 /\ Len(cmds) = 0 /\ Len(events) = 0
    BY DEF Init
  <2>2. IdleRun \in Run
    BY LastType DEF IdleRun, Run
  <2>3. ControlOK
    <3>1. pc = "select" /\ scanLeft = 0 /\ scheduled = FALSE
      BY DEF Init
    <3>2. scanLeft \in 0..Len(queued)
      BY <2>1, <3>1
    <3>3. QED
      BY <3>1, <3>2 DEF ControlOK
  <2>7. CmdsOK /\ EventsOK
    BY <2>1 DEF CmdsOK, EventsOK
  <2>4. RunsOK
    BY <2>2 DEF Init, RunsOK, Live, IdleRun
  <2>5. TablesOK /\ ToldOK
    BY LastType DEF Init, TablesOK, ToldOK, ReportRecord, Statuses
  <2>6. QED
    BY <2>3, <2>4, <2>5, <2>7, TypeParts
<1>2. TypeOK /\ [Next]_vars => TypeOK'
  <2> SUFFICES ASSUME TypeOK, [Next]_vars PROVE TypeOK'
    OBVIOUS
  <2>1. CASE UNCHANGED vars
    BY <2>1 DEF vars, tables, control, TypeOK, Live
  <2>2. CASE Terminated
    BY <2>2 DEF Terminated, vars, tables, control, TypeOK, Live
  <2>3. QED
    BY <2>1, <2>2, CallersType, CommandsType, WorkerEventsType, TryStartNextType,
       DisconnectType, RunStepType DEF Next, SchedulerStep
<1>3. QED
  BY <1>1, <1>2, PTL DEF Spec
=============================================================================
