--------------------------- MODULE SoleTaskProofs ---------------------------
(***************************************************************************)
(* The executor whose callers enqueue every file once, for all values of   *)
(* the constants: no run goes on without its slot, a task has one run at a *)
(* time, and what was told at the end of a task is not told again. All     *)
(* three fail when a second task takes the key of a first one that ended,  *)
(* which is why OneTaskPerKey is the hypothesis; everything else the       *)
(* executor's callers may do is allowed.                                   *)
(***************************************************************************)
EXTENDS ExecutorRunProofs, LifecycleProofs

USE KeysAssumption, TaskIdsAssumption, RunIdsAssumption, LimitsAssumption

OneTaskPerKey == \A t, u \in TaskIds : KeyOf[t] = KeyOf[u] => t = u

\* An Enqueue command for t is in the channel.
Waits(t) == \E i \in 1..Len(cmds) : cmds[i].op = "Enqueue" /\ cmds[i].task = t

\* The life of the only task of key k is over.
Ended(k) == \A t \in TaskIds : KeyOf[t] = k => t \in issued /\ ~Waits(t) /\ ~Leads(t)

\* A run sends one last event, and is over by then.
LastEvents ==
  /\ \A i \in 1..Len(events) : events[i].type # "Progress" => ~Live(events[i].run)
  /\ \A i, j \in 1..Len(events) :
       /\ events[i].type # "Progress" /\ events[j].type # "Progress"
       /\ events[i].run = events[j].run
       => i = j

\* Who still runs, or has just stopped, holds the slot of its key, unless the
\* task has ended; then whoever still runs has been told to stop.
OwnSlot ==
  /\ \A i \in 1..Len(events) : events[i].type # "Progress" =>
       active[events[i].key] = events[i].run \/ Ended(events[i].key)
  /\ \A r \in RunIds : Live(r) =>
       active[RunKey(r)] = r \/ (Ended(RunKey(r)) /\ runs[r].cancelled)

\* Who leads a group has not been told of an end.
StillOpen == \A t \in TaskIds : Leads(t) => reported[t].status \notin Terminal

SoleInv == (pc # "closed" => LastEvents /\ OwnSlot) /\ StillOpen /\ OneRunPerTask

-----------------------------------------------------------------------------
\* What is told of a task.

\* A step may tell something of a task that leads its group or was never told
\* of, and an end only when it takes the group away; a task that it does not
\* tell of is not made a leader.
Told(t) ==
  \/ reported'[t] = reported[t] /\ (Leads(t)' => Leads(t))
  \/ /\ Leads(t) \/ reported[t].status = "None"
     /\ Leads(t)' => reported'[t].status \notin Terminal

LEMMA GroupTold ==
  ASSUME TypeOK, IdsMatchGroups, NEW k \in Keys, NEW status, NEW transferred, NEW total,
         reported' = ReportGroup(k, status, transferred, total),
         \A j \in Keys : j # k => groups'[j] = groups[j],
         \/ groups'[k] = NoTask
         \/ groups'[k] = groups[k] /\ status \notin Terminal
  PROVE  \A t \in TaskIds : Told(t)
<1> SUFFICES ASSUME NEW t \in TaskIds PROVE Told(t)
  OBVIOUS
<1>1. CASE groups[k] = t
  <2>1. Leads(t) /\ KeyOf[t] = k /\ reported'[t].status = status
    BY <1>1, ReportGroupIs DEF IdsMatchGroups, Leads
  <2>2. Leads(t)' => status \notin Terminal
    BY <2>1 DEF Leads
  <2>3. QED  BY <2>1, <2>2 DEF Told
<1>2. CASE groups[k] # t
  <2>1. reported'[t] = reported[t]
    BY <1>2, ReportGroupIs
  <2>2. Leads(t)' => Leads(t)
    BY <1>2 DEF Leads
  <2>3. QED  BY <2>1, <2>2 DEF Told
<1>3. QED  BY <1>1, <1>2

LEMMA NothingTold ==
  ASSUME reported' = reported, groups' = groups \/ groups' = [k \in Keys |-> NoTask]
  PROVE  \A t \in TaskIds : Told(t)
BY DEF Told, Leads

\* A duplicate cannot be: the leader of the key would be the task itself, and
\* whoever leads has been told of, but not a task whose Enqueue still waits.
LEMMA NoDuplicate ==
  ASSUME OneTaskPerKey, TypeOK, TableInv, SubmittedOnce, NEW t \in TaskIds, Receive("Enqueue", t)
  PROVE  groups[KeyOf[t]] = NoTask /\ reported[t].status = "None"
<1>1. /\ cmds \in Seq(Command) /\ cmds # <<>> /\ Len(cmds) \in Nat
      /\ Head(cmds).op = "Enqueue" /\ Head(cmds).task = t
  BY DEF Receive, TypeOK
<1>2. 1 \in 1..Len(cmds) /\ cmds[1] = Head(cmds)
  BY <1>1
<1>3. reported[t].status = "None"
  BY <1>1, <1>2 DEF SubmittedOnce
<1>4. ~Leads(t)
  BY <1>3 DEF SubmittedOnce
<1>5. ASSUME groups[KeyOf[t]] # NoTask PROVE FALSE
  <2>1. groups[KeyOf[t]] \in TaskIds /\ KeyOf[groups[KeyOf[t]]] = KeyOf[t]
    BY <1>5 DEF TypeOK, TableInv, IdsMatchGroups
  <2>2. groups[KeyOf[t]] = t
    BY <2>1 DEF OneTaskPerKey
  <2>3. QED  BY <1>4, <2>2 DEF Leads
<1>6. QED  BY <1>3, <1>5

LEMMA CommandsTell ==
  ASSUME OneTaskPerKey, TypeOK, TableInv, SubmittedOnce, Commands
  PROVE  \A t \in TaskIds : Told(t)
<1>1. ASSUME NEW t \in TaskIds, RejectDuplicate(t) PROVE FALSE
  BY <1>1, NoDuplicate DEF RejectDuplicate
<1>2. ASSUME NEW t \in TaskIds, Enqueue(t) PROVE \A u \in TaskIds : Told(u)
  <2> DEFINE k == KeyOf[t]
             status == IF active[k] = NoRun THEN "Pending" ELSE "Transmission"
  <2>1. /\ k \in Keys /\ groups' = [groups EXCEPT ![k] = t]
        /\ reported' = Report(t, status, offsets[k], InnerTotal(k))
        /\ Receive("Enqueue", t)
    BY <1>2 DEF Enqueue
  <2>2. status \notin Terminal
    BY DEF Terminal
  <2> HIDE DEF status
  <2>3. reported[t].status = "None"
    BY <2>1, NoDuplicate
  <2>4. reported'[t].status = status /\ \A u \in TaskIds : u # t => reported'[u] = reported[u]
    BY <2>1, ReportIs
  <2>5. \A u \in TaskIds : u # t => (Leads(u)' => Leads(u))
    BY <2>1 DEF Leads, TypeOK
  <2>6. QED  BY <2>2, <2>3, <2>4, <2>5 DEF Told
<1>3. ASSUME NEW t \in TaskIds, Pause(t) \/ Resume(t) PROVE \A u \in TaskIds : Told(u)
  <2>1. PICK k \in Keys, status \in {"Paused", "Pending"} :
          reported' = ReportGroup(k, status, offsets[k], InnerTotal(k)) /\ groups' = groups
    BY <1>3 DEF Pause, Resume, TypeOK
  <2>2. status \notin Terminal
    BY DEF Terminal
  <2>3. QED  BY <2>1, <2>2, GroupTold DEF TableInv
<1>4. ASSUME NEW t \in TaskIds, Cancel(t) PROVE \A u \in TaskIds : Told(u)
  <2>1. PICK k \in Keys :
          reported' = ReportGroup(k, "Canceled", offsets[k], InnerTotal(k)) /\ RemoveGroup(k)
    BY <1>4 DEF Cancel, TypeOK
  <2>2. QED  BY <2>1, RemoveGroupIs, GroupTold DEF TableInv
<1>5. ASSUME NEW t \in TaskIds, NEW op, RefuseResume(t) \/ TaskNotFound(op, t)
      PROVE  \A u \in TaskIds : Told(u)
  BY <1>5, NothingTold DEF RefuseResume, TaskNotFound, tables
<1>6. ASSUME Close PROVE \A u \in TaskIds : Told(u)
  <2>1. \A u \in TaskIds : ~Leads(u)'
    BY <1>6 DEF Close, Leads
  <2>2. \A u \in TaskIds : ~Leads(u) => reported'[u] = reported[u]
    BY <1>6 DEF Close, Leads
  <2>3. QED  BY <2>1, <2>2 DEF Told
<1>7. QED
  BY <1>1, <1>2, <1>3, <1>4, <1>5, <1>6 DEF Commands

LEMMA WorkerEventsTell ==
  ASSUME TypeOK, TableInv, WorkerEvents
  PROVE  \A t \in TaskIds : Told(t)
<1> SUFFICES ASSUME NEW k \in Keys,
                    \/ OnProgress(k) \/ OnCompleted(k) \/ OnFailed(k)
                    \/ OnCanceledPaused(k) \/ OnCanceled(k)
             PROVE  \A t \in TaskIds : Told(t)
  BY DEF WorkerEvents
<1>1. CASE OnProgress(k)
  <2>1. /\ groups' = groups
        /\ reported' = ReportGroup(k, "Transmission", Head(events).offset, Size)
    BY <1>1 DEF OnProgress
  <2>2. QED  BY <2>1, GroupTold DEF TableInv, Terminal
<1>2. CASE OnCompleted(k) \/ OnFailed(k) \/ OnCanceled(k)
  <2>1. PICK status, transferred, total :
          reported' = ReportGroup(k, status, transferred, total) /\ RemoveGroup(k)
    BY <1>2 DEF OnCompleted, OnFailed, OnCanceled, EndTask
  <2>2. QED  BY <2>1, RemoveGroupIs, GroupTold DEF TableInv
<1>3. CASE OnCanceledPaused(k)
  BY <1>3, NothingTold DEF OnCanceledPaused
<1>4. QED  BY <1>1, <1>2, <1>3

LEMMA TryStartNextTells ==
  ASSUME TypeOK, TableInv, TryStartNext
  PROVE  \A t \in TaskIds : Told(t)
<1>1. CASE StartFront
  <2>1. /\ front \in Keys /\ groups[front] # NoTask /\ groups' = groups
        /\ reported' = ReportGroup(front, "Transmission", offsets[front], InnerTotal(front))
    BY <1>1, PopMirror DEF StartFront, TableInv, ReportGroup
  <2>2. QED  BY <2>1, GroupTold DEF TableInv, Terminal
<1>2. CASE SkipFront \/ RequeueFront \/ EndRound
  BY <1>2, NothingTold DEF SkipFront, RequeueFront, EndRound, tables
<1>3. QED  BY <1>1, <1>2 DEF TryStartNext

LEMMA NextTells ==
  ASSUME OneTaskPerKey, TypeOK, TableInv, SubmittedOnce, [Next]_vars
  PROVE  \A t \in TaskIds : Told(t)
<1>1. CASE Callers
  BY <1>1, NothingTold DEF Callers, SendEnqueue, SendControl, SendClose, SendCommand, tables
<1>2. CASE Disconnect
  BY <1>2, NothingTold DEF Disconnect
<1>3. ASSUME NEW r \in RunIds, RunStep(r) PROVE \A t \in TaskIds : Told(t)
  BY <1>3, RunStepIs, NothingTold DEF tables
<1>4. CASE UNCHANGED vars
  BY <1>4, NothingTold DEF vars, tables
<1>5. CASE Terminated
  BY <1>4, <1>5 DEF Terminated
<1>6. QED
  BY <1>1, <1>2, <1>3, <1>4, <1>5, CommandsTell, WorkerEventsTell, TryStartNextTells
     DEF Next, SchedulerStep

-----------------------------------------------------------------------------
\* What has ended stays so.

\* A task is submitted, waits, and then leads, in this order and once.
LEMMA Order ==
  ASSUME TypeOK, [Next]_vars
  PROVE  /\ issued \subseteq issued'
         /\ \A t \in TaskIds : Waits(t)' => Waits(t) \/ t \notin issued
         /\ \A t \in TaskIds : Leads(t)' => Leads(t) \/ Waits(t)
<1>1. cmds \in Seq(Command) /\ Len(cmds) \in Nat
  BY DEF TypeOK
<1>2. CASE Callers
  <2>1. PICK op, u :
          /\ cmds' = Append(cmds, [op |-> op, task |-> u])
          /\ \/ op # "Enqueue" /\ issued' = issued
             \/ op = "Enqueue" /\ u \in TaskIds \ issued /\ issued' = issued \cup {u}
          /\ UNCHANGED <<groups, active, pausedSet, reported>>
    BY <1>2 DEF Callers, SendEnqueue, SendControl, SendClose, SendCommand, tables
  <2>2. /\ Len(cmds') = Len(cmds) + 1
        /\ \A i \in 1..Len(cmds) : cmds'[i] = cmds[i]
        /\ cmds'[Len(cmds) + 1].op = op /\ cmds'[Len(cmds) + 1].task = u
    BY <1>1, <2>1
  <2>3. \A i \in 1..Len(cmds') : i \in 1..Len(cmds) \/ i = Len(cmds) + 1
    BY <1>1, <2>2
  <2>4. \A t \in TaskIds : Waits(t)' => Waits(t) \/ t \notin issued
    BY <2>1, <2>2, <2>3 DEF Waits
  <2>5. QED  BY <2>1, <2>4 DEF Leads
<1>3. ASSUME cmds' = cmds \/ cmds' = <<>> \/ (cmds # <<>> /\ cmds' = Tail(cmds))
      PROVE  \A t \in TaskIds : Waits(t)' => Waits(t)
  <2>1. ASSUME NEW i \in 1..Len(cmds') PROVE \E j \in 1..Len(cmds) : cmds'[i] = cmds[j]
    <3>1. CASE cmds' = cmds
      BY <3>1
    <3>2. CASE cmds' = <<>>
      BY <3>2
    <3>3. CASE cmds # <<>> /\ cmds' = Tail(cmds)
      <4>1. i + 1 \in 1..Len(cmds) /\ cmds'[i] = cmds[i + 1]
        BY <1>1, <3>3
      <4>2. QED  BY <4>1
    <3>4. QED  BY <1>3, <3>1, <3>2, <3>3
  <2>2. QED  BY <2>1 DEF Waits
<1>4. ASSUME NEW t \in TaskIds, Enqueue(t)
      PROVE  /\ cmds # <<>> /\ cmds' = Tail(cmds) /\ issued' = issued /\ Waits(t)
             /\ \A u \in TaskIds : u # t => (Leads(u)' => Leads(u))
  <2>1. /\ cmds # <<>> /\ cmds' = Tail(cmds) /\ issued' = issued
        /\ Head(cmds).op = "Enqueue" /\ Head(cmds).task = t
        /\ groups' = [groups EXCEPT ![KeyOf[t]] = t]
    BY <1>4 DEF Enqueue, Receive
  <2>2. Waits(t)
    BY <1>1, <2>1 DEF Waits
  <2>3. QED  BY <2>1, <2>2 DEF Leads, TypeOK
<1>5. CASE Commands \/ WorkerEvents \/ TryStartNext
  <2>1. issued' = issued /\ (cmds' = cmds \/ cmds' = <<>> \/ (cmds # <<>> /\ cmds' = Tail(cmds)))
    BY <1>5 DEF Commands, RejectDuplicate, Enqueue, Pause, Resume, RefuseResume, Cancel,
         TaskNotFound, Close, Receive, WorkerEvents, OnProgress, OnCompleted, OnFailed,
         OnCanceledPaused, OnCanceled, TakeEvent, TryStartNext, SkipFront, RequeueFront,
         StartFront, EndRound, PopFront
  <2>2. ASSUME ~ \E t \in TaskIds : Enqueue(t), NEW t \in TaskIds, Leads(t)' PROVE Leads(t)
    <3>1. \A k \in Keys : groups'[k] = groups[k] \/ groups'[k] = NoTask
      <4>1. ASSUME NEW k \in Keys, RemoveGroup(k)
            PROVE  \A j \in Keys : groups'[j] = groups[j] \/ groups'[j] = NoTask
        BY <4>1, RemoveGroupIs
      <4>2. \A u \in TaskIds : Cancel(u) => \E k \in Keys : RemoveGroup(k)
        BY DEF Cancel, TypeOK
      <4>3. CASE Commands
        BY <2>2, <4>1, <4>2, <4>3 DEF Commands, RejectDuplicate, Pause, Resume, RefuseResume,
             TaskNotFound, Close, tables
      <4>4. CASE WorkerEvents
        BY <4>1, <4>4 DEF WorkerEvents, OnProgress, OnCompleted, OnFailed, OnCanceledPaused,
             OnCanceled, EndTask
      <4>5. CASE TryStartNext
        BY <4>5 DEF TryStartNext, SkipFront, RequeueFront, StartFront, EndRound, tables
      <4>6. QED  BY <1>5, <4>3, <4>4, <4>5
    <3>2. QED  BY <2>2, <3>1 DEF Leads
  <2>3. QED
    BY <1>3, <1>4, <2>1, <2>2
<1>6. CASE UNCHANGED <<groups, cmds, issued>>
  BY <1>3, <1>6 DEF Leads
<1>7. ASSUME NEW r \in RunIds, RunStep(r) PROVE UNCHANGED <<groups, cmds, issued>>
  BY <1>7, RunStepIs DEF tables
<1>8. CASE Disconnect
  BY <1>3, <1>8 DEF Disconnect, Leads
<1>9. UNCHANGED vars => UNCHANGED <<groups, cmds, issued>>
  BY DEF vars, tables
<1>10. Terminated => UNCHANGED vars
  BY DEF Terminated
<1>11. QED
  BY <1>2, <1>5, <1>6, <1>7, <1>8, <1>9, <1>10 DEF Next, SchedulerStep

LEMMA EndedKept ==
  ASSUME TypeOK, [Next]_vars, NEW k \in Keys, Ended(k)
  PROVE  Ended(k)'
<1> SUFFICES ASSUME NEW t \in TaskIds, KeyOf[t] = k
             PROVE  t \in issued' /\ ~Waits(t)' /\ ~Leads(t)'
  BY DEF Ended
<1>1. t \in issued /\ ~Waits(t) /\ ~Leads(t)
  BY DEF Ended
<1>2. QED  BY <1>1, Order

\* The only task of a key ends when its group goes: it was submitted, its
\* Enqueue was taken, and no other can follow.
LEMMA EndsWithGroup ==
  ASSUME OneTaskPerKey, TypeOK, TableInv, SubmittedOnce, [Next]_vars, NEW k \in Keys,
         groups[k] # NoTask, groups'[k] = NoTask
  PROVE  Ended(k)'
<1>1. PICK t \in TaskIds : t = groups[k] /\ KeyOf[t] = k /\ Leads(t)
  BY DEF TypeOK, TableInv, IdsMatchGroups, Leads
<1>2. reported[t].status # "None"
  BY <1>1 DEF SubmittedOnce
<1>3. t \in issued /\ ~Waits(t)
  BY <1>2 DEF SubmittedOnce, Waits
<1>4. t \in issued' /\ ~Waits(t)'
  BY <1>3, Order
<1>5. \A u \in TaskIds : KeyOf[u] = k => u = t
  BY <1>1 DEF OneTaskPerKey
<1>6. ~Leads(t)'
  BY <1>1 DEF Leads
<1>7. QED  BY <1>4, <1>5, <1>6 DEF Ended

\* A key with a group has not ended.
LEMMA GroupGoesOn ==
  ASSUME TypeOK, TableInv, NEW k \in Keys, groups[k] # NoTask
  PROVE  ~Ended(k)
BY DEF TypeOK, TableInv, IdsMatchGroups, Leads, Ended

-----------------------------------------------------------------------------
\* Slots and runs.

LEMMA EventIs ==
  ASSUME TypeOK, NEW i \in 1..Len(events)
  PROVE  events[i].run \in RunIds /\ events[i].key \in Keys
<1>1. events \in Seq(Event)
  BY DEF TypeOK
<1>2. events[i] \in Event
  BY <1>1
<1>3. QED  BY <1>2 DEF Event

\* A step that moves no run, handles no event, and frees a slot only at the
\* end of a task, with the run's token cancelled.
LEMMA QuietOwns ==
  ASSUME TypeOK, [Next]_vars, LastEvents, OwnSlot, events' = events,
         \A r \in RunIds :
           /\ runs'[r].pc = runs[r].pc /\ runs'[r].task = runs[r].task
           /\ Live(r) /\ runs[r].cancelled => runs'[r].cancelled,
         \A k \in Keys :
           \/ active'[k] = active[k]
           \/ Ended(k)' /\ \A r \in RunIds : active[k] = r /\ Live(r) => runs'[r].cancelled
  PROVE  LastEvents' /\ OwnSlot'
<1>1. \A i \in 1..Len(events) : events[i].run \in RunIds /\ events[i].key \in Keys
  BY EventIs
<1>2. \A r \in RunIds : (Live(r)' <=> Live(r)) /\ RunKey(r)' = RunKey(r)
  BY DEF Live, RunKey
<1>3. LastEvents'
  BY <1>1, <1>2 DEF LastEvents
<1>4. ASSUME NEW i \in 1..Len(events), events[i].type # "Progress"
      PROVE  active'[events[i].key] = events[i].run \/ Ended(events[i].key)'
  <2>1. PICK k \in Keys : k = events[i].key
    BY <1>1
  <2>2. active[k] = events[i].run \/ Ended(k)
    BY <1>4, <2>1 DEF OwnSlot
  <2>3. active'[k] = events[i].run \/ Ended(k)'
    BY <2>2, EndedKept
  <2>4. QED  BY <2>1, <2>3 DEF Ended
<1>5. ASSUME NEW r \in RunIds, Live(r)
      PROVE  active'[RunKey(r)] = r \/ (Ended(RunKey(r)) /\ runs[r].cancelled)'
  <2>1. PICK k \in Keys : k = RunKey(r) /\ k = RunKey(r)'
    BY <1>2, <1>5 DEF TypeOK, RunKey
  <2>2. active[k] = r \/ (Ended(k) /\ runs[r].cancelled)
    BY <1>5, <2>1 DEF OwnSlot
  <2>3. active'[k] = r \/ (Ended(k)' /\ runs'[r].cancelled)
    BY <1>5, <2>2, EndedKept
  <2>4. QED  BY <2>1, <2>3 DEF Ended
<1>6. OwnSlot'
  BY <1>1, <1>2, <1>4, <1>5 DEF OwnSlot
<1>7. QED  BY <1>3, <1>6

\* The step leaves slots, events and runs alone.
LEMMA UntouchedOwns ==
  ASSUME TypeOK, [Next]_vars, LastEvents, OwnSlot, UNCHANGED <<active, events, runs>>
  PROVE  LastEvents' /\ OwnSlot'
BY QuietOwns

LEMMA CommandsOwn ==
  ASSUME OneTaskPerKey, TypeOK, TableInv, SubmittedOnce, LastEvents, OwnSlot,
         Commands, pc' # "closed"
  PROVE  LastEvents' /\ OwnSlot'
<1>1. [Next]_vars
  BY DEF Next, SchedulerStep
<1>2. ASSUME NEW t \in TaskIds, NEW op,
             \/ RejectDuplicate(t) \/ Enqueue(t) \/ Resume(t) \/ RefuseResume(t)
             \/ TaskNotFound(op, t)
      PROVE  UNCHANGED <<active, events, runs>>
  BY <1>2 DEF RejectDuplicate, Enqueue, Resume, RefuseResume, TaskNotFound, Receive, tables
<1>3. ASSUME NEW t \in TaskIds, Pause(t) PROVE LastEvents' /\ OwnSlot'
  <2>1. PICK k \in Keys : runs' = CancelActive(k) /\ active' = active /\ events' = events
    BY <1>3 DEF Pause, Receive, TypeOK
  <2>2. \A r \in RunIds :
          /\ runs'[r].pc = runs[r].pc /\ runs'[r].task = runs[r].task
          /\ Live(r) /\ runs[r].cancelled => runs'[r].cancelled
    BY <2>1, CancelActiveIs
  <2>3. QED  BY <1>1, <2>1, <2>2, QuietOwns
<1>4. ASSUME NEW t \in TaskIds, Cancel(t) PROVE LastEvents' /\ OwnSlot'
  <2>1. PICK k \in Keys :
          /\ k = taskIdToDedupe[t] /\ runs' = CancelActive(k) /\ RemoveGroup(k)
          /\ active' = [active EXCEPT ![k] = NoRun] /\ events' = events
    BY <1>4 DEF Cancel, Receive, TypeOK
  <2>2. \A r \in RunIds :
          /\ runs'[r].pc = runs[r].pc /\ runs'[r].task = runs[r].task
          /\ Live(r) /\ runs[r].cancelled => runs'[r].cancelled
          /\ active[k] = r /\ Live(r) => runs'[r].cancelled
    BY <2>1, CancelActiveIs
  <2>3. groups[k] = t /\ t # NoTask
    BY <2>1 DEF TableInv, IdsMatchGroups
  <2>4. Ended(k)'
    BY <1>1, <2>1, <2>3, RemoveGroupIs, EndsWithGroup
  <2>5. \A j \in Keys : j # k => active'[j] = active[j]
    BY <2>1 DEF TypeOK
  <2>6. QED  BY <1>1, <2>1, <2>2, <2>4, <2>5, QuietOwns
<1>5. ~Close
  BY DEF Close
<1>6. QED
  BY <1>1, <1>2, <1>3, <1>4, <1>5, UntouchedOwns DEF Commands

\* The event that is taken.
LEMMA TakenIs ==
  ASSUME TypeOK, NEW type, NEW k \in Keys, TakeEvent(type, k)
  PROVE  /\ runs' = runs /\ 1 \in 1..Len(events)
         /\ events[1].type = type /\ events[1].key = k
         /\ \A i \in 1..Len(events') :
              i + 1 \in 1..Len(events) /\ i + 1 # 1 /\ events'[i] = events[i + 1]
<1>1. /\ events \in Seq(Event) /\ events # <<>> /\ Len(events) \in Nat /\ events' = Tail(events)
      /\ Head(events).type = type /\ Head(events).key = k /\ runs' = runs
  BY DEF TakeEvent, TypeOK
<1>2. Len(events') = Len(events) - 1 /\ Head(events) = events[1]
  BY <1>1
<1>3. \A i \in 1..Len(events') :
        i + 1 \in 1..Len(events) /\ i + 1 # 1 /\ events'[i] = events[i + 1]
  BY <1>1, <1>2
<1>4. QED  BY <1>1, <1>2, <1>3

\* Taking an event: what is left to show is that who loses the slot of the
\* event's key has stopped, has no other last event, or has ended.
LEMMA TakenOwns ==
  ASSUME TypeOK, [Next]_vars, LastEvents, OwnSlot, NEW type, NEW k \in Keys, TakeEvent(type, k),
         \A j \in Keys : j # k => active'[j] = active[j],
         \/ active'[k] = active[k]
         \/ Ended(k)' /\ \A r \in RunIds : active[k] = r => ~Live(r)
         \/ /\ \A r \in RunIds : Live(r) => RunKey(r) # k
            /\ \A i \in 1..Len(events) : i # 1 /\ events[i].type # "Progress" => events[i].key # k
  PROVE  LastEvents' /\ OwnSlot'
<1>1. \A i \in 1..Len(events) : events[i].run \in RunIds /\ events[i].key \in Keys
  BY EventIs
<1>2. runs' = runs /\ \A i \in 1..Len(events') :
        i + 1 \in 1..Len(events) /\ i + 1 # 1 /\ events'[i] = events[i + 1]
  BY TakenIs
<1>3. \A r \in RunIds : (Live(r)' <=> Live(r)) /\ RunKey(r)' = RunKey(r)
  BY <1>2 DEF Live, RunKey
<1>4. LastEvents'
  <2>1. ASSUME NEW i \in 1..Len(events'), events'[i].type # "Progress"
        PROVE  runs'[events'[i].run].pc = "idle"
    BY <1>2, <2>1 DEF LastEvents, Live
  <2>2. ASSUME NEW i \in 1..Len(events'), NEW j \in 1..Len(events'),
               events'[i].type # "Progress", events'[j].type # "Progress",
               events'[i].run = events'[j].run
        PROVE  i = j
    <3>1. i + 1 = j + 1
      BY <1>2, <2>2 DEF LastEvents
    <3>2. QED  BY <3>1
  <2>3. QED  BY <2>1, <2>2 DEF LastEvents, Live
<1>5. ASSUME NEW i \in 1..Len(events'), events'[i].type # "Progress"
      PROVE  (active[events[i].key] = events[i].run \/ Ended(events[i].key))'
  <2>1. /\ i + 1 \in 1..Len(events) /\ i + 1 # 1 /\ events'[i] = events[i + 1]
        /\ events[i + 1].type # "Progress"
    BY <1>2, <1>5
  <2>2. PICK j \in Keys : j = events[i + 1].key
    BY <1>1, <2>1
  <2>3. active[j] = events[i + 1].run \/ Ended(j)
    BY <2>1, <2>2 DEF OwnSlot
  <2>4. active'[j] = active[j] \/ Ended(j)'
    BY <2>1, <2>2
  <2>5. active'[j] = events[i + 1].run \/ Ended(j)'
    BY <2>3, <2>4, EndedKept
  <2>6. QED  BY <2>1, <2>2, <2>5 DEF Ended
<1>6. ASSUME NEW r \in RunIds, Live(r)
      PROVE  (active[RunKey(r)] = r \/ (Ended(RunKey(r)) /\ runs[r].cancelled))'
  <2>1. PICK j \in Keys : j = RunKey(r) /\ j = RunKey(r)'
    BY <1>3, <1>6 DEF TypeOK, RunKey
  <2>2. active[j] = r \/ (Ended(j) /\ runs[r].cancelled)
    BY <1>6, <2>1 DEF OwnSlot
  <2>3. active[j] = r => active'[j] = active[j]
    BY <1>6, <2>1
  <2>4. active'[j] = r \/ (Ended(j)' /\ runs'[r].cancelled)
    BY <1>2, <2>2, <2>3, EndedKept
  <2>5. QED  BY <2>1, <2>4 DEF Ended
<1>7. OwnSlot'
  BY <1>3, <1>5, <1>6 DEF OwnSlot
<1>8. QED  BY <1>4, <1>7

LEMMA WorkerEventsOwn ==
  ASSUME OneTaskPerKey, TypeOK, TableInv, SubmittedOnce, LastEvents, OwnSlot, WorkerEvents
  PROVE  LastEvents' /\ OwnSlot'
<1>1. [Next]_vars
  BY DEF Next, SchedulerStep
<1> SUFFICES ASSUME NEW k \in Keys,
                    \/ OnProgress(k) \/ OnCompleted(k) \/ OnFailed(k)
                    \/ OnCanceledPaused(k) \/ OnCanceled(k)
             PROVE  LastEvents' /\ OwnSlot'
  BY DEF WorkerEvents
<1>2. CASE OnProgress(k)
  BY <1>1, <1>2, TakenOwns DEF OnProgress
<1>3. ASSUME NEW type, type # "Progress", TakeEvent(type, k)
      PROVE  /\ active[k] = events[1].run \/ Ended(k)
             /\ events[1].run \in RunIds /\ ~Live(events[1].run)
             /\ \A i \in 1..Len(events) :
                  i # 1 /\ events[i].type # "Progress" => events[i].run # events[1].run
  <2>1. 1 \in 1..Len(events) /\ events[1].type = type /\ events[1].key = k
    BY <1>3, TakenIs
  <2>2. QED  BY <1>3, <2>1, EventIs DEF LastEvents, OwnSlot
<1>4. CASE OnCompleted(k) \/ OnFailed(k) \/ OnCanceled(k)
  <2>1. PICK type \in {"Completed", "Failed", "Canceled"} :
          TakeEvent(type, k) /\ RemoveGroup(k) /\ active' = [active EXCEPT ![k] = NoRun]
    BY <1>4 DEF OnCompleted, OnFailed, OnCanceled, EndTask
  <2>2. /\ active[k] = events[1].run \/ Ended(k)
        /\ events[1].run \in RunIds /\ ~Live(events[1].run)
    BY <1>3, <2>1
  <2>3. \A j \in Keys : j # k => active'[j] = active[j]
    BY <2>1 DEF TypeOK
  <2>4. active[k] # NoRun => groups[k] # NoTask
    BY DEF TableInv, Places
  <2>5. Ended(k)'
    <3>1. CASE Ended(k)
      BY <1>1, <3>1, EndedKept
    <3>2. CASE ~Ended(k)
      BY <1>1, <2>1, <2>2, <2>4, <3>2, RemoveGroupIs, EndsWithGroup
    <3>3. QED  BY <3>1, <3>2
  <2>6. \A r \in RunIds : active[k] = r => ~Live(r)
    BY <2>2, <2>4, GroupGoesOn
  <2>7. QED  BY <1>1, <2>1, <2>3, <2>5, <2>6, TakenOwns
<1>5. CASE OnCanceledPaused(k)
  <2>1. /\ TakeEvent("Canceled", k) /\ k \in pausedSet
        /\ active' = [active EXCEPT ![k] = NoRun]
    BY <1>5 DEF OnCanceledPaused
  <2>2. ~Ended(k)
    BY <2>1, GroupGoesOn DEF TableInv, Places
  <2>3. /\ active[k] = events[1].run /\ ~Live(events[1].run)
        /\ \A i \in 1..Len(events) :
             i # 1 /\ events[i].type # "Progress" => events[i].run # events[1].run
    BY <1>3, <2>1, <2>2
  <2>4. \A j \in Keys : j # k => active'[j] = active[j]
    BY <2>1 DEF TypeOK
  <2>5. \A r \in RunIds : Live(r) => RunKey(r) # k
    BY <2>2, <2>3 DEF OwnSlot
  <2>6. \A i \in 1..Len(events) : i # 1 /\ events[i].type # "Progress" => events[i].key # k
    BY <2>2, <2>3 DEF OwnSlot
  <2>7. QED  BY <1>1, <2>1, <2>4, <2>5, <2>6, TakenOwns
<1>6. QED  BY <1>2, <1>4, <1>5

\* A slot is given out for the only task of a key that has not ended; no run
\* and no event has been there before, and the name of the run is not in use.
LEMMA StartFrontOwns ==
  ASSUME TypeOK, [Next]_vars, TableInv, LastEvents, OwnSlot, StartFront
  PROVE  LastEvents' /\ OwnSlot'
<1>1. PICK r \in RunIds :
        /\ FreeRun(r) /\ active' = [active EXCEPT ![front] = r]
        /\ runs' = [runs EXCEPT ![r] = [task |-> groups[front], pc |-> "prepare",
                                        offset |-> offsets[front], attempt |-> 0,
                                        cancelled |-> FALSE]]
  BY DEF StartFront
<1>2. PICK k \in Keys : k = front /\ active[k] = NoRun /\ groups[k] # NoTask /\ events' = events
  BY PopMirror DEF StartFront, PopFront, TableInv
<1>3. KeyOf[groups[k]] = k /\ ~Ended(k)
  BY <1>2, GroupGoesOn DEF TableInv, IdsMatchGroups
<1>4. \A j \in Keys : active'[j] = IF j = k THEN r ELSE active[j]
  BY <1>1, <1>2 DEF TypeOK
<1>5. /\ runs'[r].pc = "prepare" /\ runs'[r].task = groups[k]
      /\ \A s \in RunIds : s # r => runs'[s] = runs[s]
  BY <1>1, <1>2 DEF TypeOK
<1>6. ~Live(r) /\ \A i \in 1..Len(events) : events[i].run # r
  BY <1>1 DEF FreeRun
<1>7. \A i \in 1..Len(events) : events[i].run \in RunIds /\ events[i].key \in Keys
  BY EventIs
<1>8. LastEvents'
  BY <1>2, <1>5, <1>6, <1>7 DEF LastEvents, Live
<1>9. ASSUME NEW i \in 1..Len(events), events[i].type # "Progress"
      PROVE  (active[events[i].key] = events[i].run \/ Ended(events[i].key))'
  <2>1. PICK j \in Keys : j = events[i].key
    BY <1>7
  <2>2. active[j] = events[i].run \/ Ended(j)
    BY <1>9, <2>1 DEF OwnSlot
  <2>3. j # k
    BY <1>2, <1>3, <1>7, <2>2
  <2>4. active'[j] = events[i].run \/ Ended(j)'
    BY <1>4, <2>2, <2>3, EndedKept
  <2>5. QED  BY <1>2, <2>1, <2>4 DEF Ended
<1>10. ASSUME NEW s \in RunIds, Live(s)'
       PROVE  (active[RunKey(s)] = s \/ (Ended(RunKey(s)) /\ runs[s].cancelled))'
  <2>1. CASE s = r
    <3>1. RunKey(s)' = k
      BY <1>3, <1>5, <2>1 DEF RunKey
    <3>2. QED  BY <1>4, <2>1, <3>1
  <2>2. CASE s # r
    <3>1. Live(s) /\ runs'[s] = runs[s]
      BY <1>5, <1>10, <2>2 DEF Live
    <3>2. PICK j \in Keys : j = RunKey(s) /\ j = RunKey(s)'
      BY <3>1 DEF TypeOK, RunKey
    <3>3. active[j] = s \/ (Ended(j) /\ runs[s].cancelled)
      BY <3>1, <3>2 DEF OwnSlot
    <3>4. j # k
      BY <1>2, <1>3, <3>3
    <3>5. active'[j] = s \/ (Ended(j)' /\ runs'[s].cancelled)
      BY <1>4, <3>1, <3>3, <3>4, EndedKept
    <3>6. QED  BY <3>2, <3>5 DEF Ended
  <2>3. QED  BY <2>1, <2>2
<1>11. OwnSlot'
  BY <1>2, <1>9, <1>10 DEF OwnSlot
<1>12. QED  BY <1>8, <1>11

\* A run that ends leaves its slot, or its end, to its last event.
LEMMA RunStepOwns ==
  ASSUME TypeOK, [Next]_vars, LastEvents, OwnSlot, NEW s \in RunIds, RunStep(s), pc # "closed"
  PROVE  LastEvents' /\ OwnSlot'
<1>1. /\ active' = active /\ Live(s) /\ \A r \in RunIds : r # s => runs'[r] = runs[r]
      /\ runs'[s].pc # "idle" =>
           runs'[s].task = runs[s].task /\ runs'[s].cancelled = runs[s].cancelled
  BY RunStepIs DEF tables
<1>2. \/ events' = events /\ runs'[s].pc # "idle"
      \/ \E type, offset : /\ events' = Send(type, s, offset)
                           /\ type = "Progress" \/ runs'[s].pc = "idle"
  BY RunStepIs
<1>3. \A i \in 1..Len(events) : events[i].run \in RunIds /\ events[i].key \in Keys
  BY EventIs
<1>4. PICK k \in Keys : k = RunKey(s)
  BY <1>1 DEF TypeOK, RunKey
<1>5. active[k] = s \/ (Ended(k) /\ runs[s].cancelled)
  BY <1>1, <1>4 DEF OwnSlot
<1>6. \A i \in 1..Len(events) : events[i].type # "Progress" => events[i].run # s
  BY <1>1 DEF LastEvents
<1>7. \A i \in 1..Len(events') :
        \/ i \in 1..Len(events) /\ events'[i] = events[i]
        \/ events'[i].type = "Progress"
        \/ /\ i = Len(events) + 1 /\ Len(events) \in Nat
           /\ events'[i].run = s /\ events'[i].key = k /\ runs'[s].pc = "idle"
  <2>1. CASE events' = events
    BY <2>1
  <2>2. ASSUME NEW type, NEW offset, events' = Send(type, s, offset),
               type = "Progress" \/ runs'[s].pc = "idle"
        PROVE  \A i \in 1..Len(events') :
                 \/ i \in 1..Len(events) /\ events'[i] = events[i]
                 \/ events'[i].type = "Progress"
                 \/ /\ i = Len(events) + 1 /\ Len(events) \in Nat
                    /\ events'[i].run = s /\ events'[i].key = k /\ runs'[s].pc = "idle"
    <3>1. /\ Len(events') = Len(events) + 1 /\ Len(events) \in Nat
          /\ \A i \in 1..Len(events) : events'[i] = events[i]
          /\ events'[Len(events) + 1].run = s /\ events'[Len(events) + 1].key = k
          /\ events'[Len(events) + 1].type = type
      BY <1>4, <2>2, SendAppends
    <3>2. \A i \in 1..Len(events') : i \in 1..Len(events) \/ i = Len(events) + 1
      BY <3>1
    <3>3. QED  BY <2>2, <3>1, <3>2
  <2>3. QED  BY <1>2, <2>1, <2>2
<1>8. ASSUME NEW i \in 1..Len(events'), events'[i].type # "Progress"
      PROVE  /\ runs'[events'[i].run].pc = "idle"
             /\ (active[events[i].key] = events[i].run \/ Ended(events[i].key))'
  <2>1. CASE i \in 1..Len(events) /\ events'[i] = events[i]
    <3>1. events[i].type # "Progress" /\ events[i].run # s
      BY <1>6, <1>8, <2>1
    <3>2. runs'[events[i].run].pc = "idle"
      BY <1>1, <1>3, <2>1, <3>1 DEF LastEvents, Live
    <3>3. PICK j \in Keys : j = events[i].key
      BY <1>3, <2>1
    <3>4. active'[j] = events[i].run \/ Ended(j)'
      BY <1>1, <2>1, <3>1, <3>3, EndedKept DEF OwnSlot
    <3>5. QED  BY <2>1, <3>2, <3>3, <3>4 DEF Ended
  <2>2. CASE events'[i].run = s /\ events'[i].key = k /\ runs'[s].pc = "idle"
    <3>1. active'[k] = s \/ Ended(k)'
      BY <1>1, <1>5, EndedKept
    <3>2. QED  BY <2>2, <3>1 DEF Ended
  <2>3. QED  BY <1>7, <1>8, <2>1, <2>2
<1>9. ASSUME NEW i \in 1..Len(events'), NEW j \in 1..Len(events'),
             events'[i].type # "Progress", events'[j].type # "Progress",
             events'[i].run = events'[j].run
      PROVE  i = j
  BY <1>6, <1>7, <1>9 DEF LastEvents
<1>10. ASSUME NEW r \in RunIds, Live(r)'
       PROVE  (active[RunKey(r)] = r \/ (Ended(RunKey(r)) /\ runs[r].cancelled))'
  <2>1. Live(r) /\ runs'[r].task = runs[r].task /\ runs'[r].cancelled = runs[r].cancelled
    BY <1>1, <1>10 DEF Live
  <2>2. PICK j \in Keys : j = RunKey(r) /\ j = RunKey(r)'
    BY <2>1 DEF TypeOK, RunKey
  <2>3. active'[j] = r \/ (Ended(j)' /\ runs'[r].cancelled)
    BY <1>1, <2>1, <2>2, EndedKept DEF OwnSlot
  <2>4. QED  BY <2>2, <2>3 DEF Ended
<1>11. LastEvents'
  BY <1>8, <1>9 DEF LastEvents, Live
<1>12. OwnSlot'
  BY <1>8, <1>10 DEF OwnSlot
<1>13. QED  BY <1>11, <1>12

-----------------------------------------------------------------------------
LEMMA NextOwns ==
  ASSUME OneTaskPerKey, TypeOK, TableInv, SubmittedOnce, LastEvents, OwnSlot,
         [Next]_vars, pc # "closed", pc' # "closed"
  PROVE  LastEvents' /\ OwnSlot'
<1>1. CASE Callers
  BY <1>1, UntouchedOwns
     DEF Callers, SendEnqueue, SendControl, SendClose, SendCommand, tables
<1>2. CASE SkipFront \/ RequeueFront \/ EndRound
  BY <1>2, UntouchedOwns DEF SkipFront, RequeueFront, EndRound, PopFront, tables
<1>3. CASE TryStartNext
  BY <1>2, <1>3, StartFrontOwns DEF TryStartNext
<1>4. ~Disconnect
  BY DEF Disconnect
<1>5. CASE UNCHANGED vars
  BY <1>5, UntouchedOwns DEF vars, tables
<1>6. CASE Terminated
  BY <1>5, <1>6 DEF Terminated
<1>7. QED
  BY <1>1, <1>3, <1>4, <1>5, <1>6, CommandsOwn, WorkerEventsOwn, RunStepOwns
     DEF Next, SchedulerStep

\* A scheduler that has left its loop does not come back.
LEMMA ClosedStays ==
  ASSUME [Next]_vars, pc = "closed"
  PROVE  pc' = "closed"
<1>1. ~Callers
  BY DEF Callers, SendEnqueue, SendControl, SendClose, SendCommand
<1>2. ~SchedulerStep
  BY DEF SchedulerStep, Commands, RejectDuplicate, Enqueue, Pause, Resume, RefuseResume, Cancel,
     TaskNotFound, Close, Receive, WorkerEvents, OnProgress, OnCompleted, OnFailed,
     OnCanceledPaused, OnCanceled, TakeEvent, TryStartNext, SkipFront, RequeueFront,
     StartFront, EndRound, PopFront
<1>3. ASSUME NEW r \in RunIds, RunStep(r) PROVE pc' = pc
  BY <1>3 DEF RunStep, Prepare, Check, ObserveCancel, TransferChunk, Complete, ScheduleRetry,
     BackoffEnds, Fail, Abort, control
<1>4. UNCHANGED vars => pc' = pc
  BY DEF vars, control
<1>5. QED
  BY <1>1, <1>2, <1>3, <1>4 DEF Next, Disconnect, Terminated

\* A second run of a task would start while the first one is alive. But that
\* one has the slot, which is not free then, or its task has ended and has no
\* group that could start.
LEMMA OneRunKept ==
  ASSUME OneTaskPerKey, TypeOK, TableInv, SoleInv, [Next]_vars
  PROVE  OneRunPerTask'
<1>1. ASSUME NEW r \in RunIds, Live(r)', ~Live(r) PROVE StartFront
  BY <1>1, RunsGoOn, RunStepIs DEF Live
<1>2. ASSUME NEW r \in RunIds, Live(r)', Live(r) PROVE runs'[r].task = runs[r].task
  BY <1>2, RunsGoOn, RunStepIs DEF Live
<1>3. CASE ~StartFront
  BY <1>1, <1>2, <1>3 DEF SoleInv, OneRunPerTask
<1>4. CASE StartFront
  <2>1. PICK s \in RunIds :
          runs' = [runs EXCEPT ![s] = [task |-> groups[front], pc |-> "prepare",
                                       offset |-> offsets[front], attempt |-> 0,
                                       cancelled |-> FALSE]]
    BY <1>4 DEF StartFront
  <2>2. PICK k \in Keys : k = front /\ active[k] = NoRun /\ groups[k] # NoTask
    BY <1>4, PopMirror DEF StartFront, PopFront, TableInv
  <2>3. /\ runs'[s].task = groups[k] /\ KeyOf[groups[k]] = k
        /\ \A r \in RunIds : r # s => runs'[r] = runs[r]
    BY <2>1, <2>2 DEF TypeOK, TableInv, IdsMatchGroups
  <2>4. OwnSlot
    BY <1>4 DEF StartFront, PopFront, SoleInv
  <2>5. ASSUME NEW r \in RunIds, r # s, Live(r)' PROVE runs'[r].task # groups[k]
    <3>1. Live(r) /\ runs'[r].task = runs[r].task
      BY <2>3, <2>5 DEF Live
    <3>2. active[RunKey(r)] = r \/ Ended(RunKey(r))
      BY <2>4, <3>1 DEF OwnSlot
    <3>3. RunKey(r) # k
      BY <2>2, <3>2, GroupGoesOn
    <3>4. QED
      BY <2>3, <3>1, <3>3 DEF RunKey
  <2>6. \A r \in RunIds : r # s /\ Live(r)' => Live(r) /\ runs'[r].task = runs[r].task
    BY <2>3 DEF Live
  <2>7. QED
    BY <2>3, <2>5, <2>6 DEF SoleInv, OneRunPerTask
<1>5. QED
  BY <1>3, <1>4

LEMMA SoleInvInductive ==
  ASSUME OneTaskPerKey, TypeOK, TableInv, SubmittedOnce, SoleInv, [Next]_vars
  PROVE  SoleInv'
<1>1. pc' # "closed" => (LastEvents /\ OwnSlot)'
  BY ClosedStays, NextOwns DEF SoleInv
<1>2. \A t \in TaskIds : Told(t)
  BY NextTells
<1>3. StillOpen'
  BY <1>2 DEF Told, SoleInv, StillOpen
<1>4. OneRunPerTask'
  BY OneRunKept
<1>5. QED  BY <1>1, <1>3, <1>4 DEF SoleInv

LEMMA SoleInvInit == Init => SoleInv
<1> SUFFICES ASSUME Init PROVE SoleInv
  OBVIOUS
<1>1. /\ groups = [k \in Keys |-> NoTask] /\ events = <<>>
      /\ runs = [r \in RunIds |-> IdleRun]
  BY DEF Init
<1>2. /\ 1..Len(events) = {} /\ \A t \in TaskIds : ~Leads(t)
      /\ \A r \in RunIds : ~Live(r)
  BY <1>1 DEF Leads, Live, IdleRun
<1>3. QED
  BY <1>2 DEF SoleInv, LastEvents, OwnSlot, StillOpen, OneRunPerTask

\* With one task for each key: one last event for each run, slots held by who
\* runs, no end told of a task that leads its group, and one run for a task.
THEOREM SoleTasksCorrect ==
  ASSUME OneTaskPerKey
  PROVE  Spec => []SoleInv
<1>1. TypeOK /\ TableInv /\ SubmittedOnce /\ SoleInv /\ [Next]_vars => SoleInv'
  BY SoleInvInductive
<1>2. QED
  BY <1>1, SoleInvInit, TypeCorrect, TablesCorrect, IdsAreSubmittedOnce, PTL DEF Spec

\* When every file is enqueued once, nothing runs on unseen: a run whose token
\* is not cancelled is in the slot where pause, cancel and close find it,
\* although cancel frees the slot of a run that goes on for a while, and late
\* events name nothing but their key.
THEOREM NothingRunsUnseen ==
  ASSUME OneTaskPerKey
  PROVE  Spec => []OnlySlotHoldersGoOn
<1>1. SoleInv => OnlySlotHoldersGoOn
  BY DEF SoleInv, OwnSlot, OnlySlotHoldersGoOn
<1>2. QED
  BY <1>1, SoleTasksCorrect, PTL

\* When every file is enqueued once, a task has one run at a time, over any
\* pauses, resumes and late events: resume waits until the paused run has
\* given its slot back.
THEOREM RunsAreSingle ==
  ASSUME OneTaskPerKey
  PROVE  Spec => []OneRunPerTask
<1>1. SoleInv => OneRunPerTask
  BY DEF SoleInv
<1>2. QED
  BY <1>1, SoleTasksCorrect, PTL

\* When every file is enqueued once, nothing is told of a task after its end:
\* neither a late event of its run, nor close, nor another command does it.
THEOREM EndsAreFinal ==
  ASSUME OneTaskPerKey
  PROVE  Spec => TerminalIsFinal
<1> DEFINE P == \A t \in TaskIds :
                  reported[t].status \in Terminal => reported'[t] = reported[t]
<1>1. ASSUME TypeOK, TableInv, SubmittedOnce, SoleInv, [Next]_vars PROVE P
  <2>1. \A t \in TaskIds : Told(t)
    BY <1>1, NextTells
  <2>2. \A t \in TaskIds : Leads(t) \/ reported[t].status = "None"
                           => reported[t].status \notin Terminal
    BY <1>1 DEF SoleInv, StillOpen, Terminal
  <2>3. QED  BY <2>1, <2>2 DEF Told
<1>2. TypeOK /\ TableInv /\ SubmittedOnce /\ SoleInv /\ [Next]_vars => [P]_vars
  BY <1>1
<1>3. QED
  BY <1>2, SoleTasksCorrect, TypeCorrect, TablesCorrect, IdsAreSubmittedOnce, PTL
     DEF Spec, TerminalIsFinal
=============================================================================
