-------------------------- MODULE ExecutorRunProofs --------------------------
(***************************************************************************)
(* Slots and runs of the executor, for all values of the constants: a slot *)
(* is never held by nobody, and its run will stop exactly when its key is  *)
(* paused. RunInv adds to the two checked invariants that no run holds two *)
(* slots and that a scheduler that has left its loop has given them back.  *)
(***************************************************************************)
EXTENDS ExecutorProofs

USE KeysAssumption, TaskIdsAssumption, RunIdsAssumption, LimitsAssumption

\* Run r works for key k, or the event with which it ended is on its way.
BackedBy(r, k) ==
  \/ Live(r) /\ RunKey(r) = k
  \/ \E i \in 1..Len(events) :
       events[i].run = r /\ events[i].key = k /\ events[i].type # "Progress"

SlotsDistinct ==
  \A j, k \in Keys : active[j] # NoRun /\ active[j] = active[k] => j = k
ClosedIsEmpty == pc = "closed" => \A k \in Keys : active[k] = NoRun

RunInv == SlotIsBacked /\ SlotsDistinct /\ CancelledIffPaused /\ ClosedIsEmpty

\* The invariant, slot by slot.
LEMMA SlotFacts ==
  ASSUME TypeOK, RunInv, NEW k \in Keys, NEW r \in RunIds, active[k] = r
  PROVE  /\ BackedBy(r, k)
         /\ Live(r) => (runs[r].cancelled <=> k \in pausedSet)
         /\ \A j \in Keys : active[j] = r => j = k
         /\ pc # "closed"
BY DEF RunInv, SlotIsBacked, SlotsDistinct, CancelledIffPaused, ClosedIsEmpty, BackedBy

\* The invariant from the same facts of every slot.
LEMMA SlotsGood ==
  ASSUME TypeOK',
         \A k \in Keys, r \in RunIds : active'[k] = r =>
           /\ BackedBy(r, k)'
           /\ Live(r)' => (runs'[r].cancelled <=> k \in pausedSet')
           /\ \A j \in Keys : active'[j] = r => j = k,
         pc' = "closed" => \A k \in Keys : active'[k] = NoRun
  PROVE  RunInv'
<1>1. \A k \in Keys : active'[k] # NoRun => active'[k] \in RunIds
  BY DEF TypeOK
<1>2. SlotIsBacked'
  <2> SUFFICES ASSUME NEW k \in Keys, active'[k] # NoRun
               PROVE  \/ Live(active[k])' /\ RunKey(active[k])' = k
                      \/ \E i \in 1..Len(events') :
                           /\ events'[i].run = active'[k] /\ events'[i].key = k
                           /\ events'[i].type # "Progress"
    BY DEF SlotIsBacked
  <2>1. PICK r \in RunIds : active'[k] = r
    BY <1>1
  <2>2. BackedBy(r, k)'
    BY <2>1
  <2>3. QED
    BY <2>1, <2>2 DEF BackedBy, Live, RunKey
<1>3. SlotsDistinct'
  BY <1>1 DEF SlotsDistinct
<1>4. CancelledIffPaused'
  BY <1>1 DEF CancelledIffPaused
<1>5. QED
  BY <1>2, <1>3, <1>4 DEF RunInv, ClosedIsEmpty

\* The goal of every step that gives out no slot: each slot that stays taken
\* stays backed, and its run's token agrees with the paused mark.
LEMMA SlotsKept ==
  ASSUME TypeOK, TypeOK', RunInv,
         \A k \in Keys, r \in RunIds : active'[k] = r =>
           /\ active[k] = r /\ BackedBy(r, k)'
           /\ Live(r)' => (runs'[r].cancelled <=> k \in pausedSet'),
         pc' = "closed" => \A k \in Keys : active'[k] = NoRun
  PROVE  RunInv'
<1>1. \A k \in Keys, r \in RunIds : active'[k] = r => \A j \in Keys : active'[j] = r => j = k
  BY SlotFacts
<1>2. QED
  BY <1>1, SlotsGood

-----------------------------------------------------------------------------
\* What backs a slot survives the steps of the scheduler and of the runs.

\* Neither a cancelled token nor a change of the tables touches it.
LEMMA BackingKept ==
  ASSUME NEW r \in RunIds, NEW k \in Keys, BackedBy(r, k), events' = events,
         runs'[r].pc = runs[r].pc, runs'[r].task = runs[r].task
  PROVE  BackedBy(r, k)'
BY DEF BackedBy, Live, RunKey

\* The event that the scheduler takes backs the slot of its own key at most.
LEMMA BackingNotTaken ==
  ASSUME TypeOK, NEW r \in RunIds, NEW k \in Keys, BackedBy(r, k),
         NEW type, NEW j \in Keys, TakeEvent(type, j), type = "Progress" \/ j # k
  PROVE  BackedBy(r, k)'
<1>1. /\ events \in Seq(Event) /\ events # <<>> /\ events' = Tail(events)
      /\ Head(events).type = type /\ Head(events).key = j /\ runs' = runs
  BY DEF TakeEvent, TypeOK
<1>2. CASE Live(r) /\ RunKey(r) = k
  BY <1>1, <1>2 DEF BackedBy, Live, RunKey
<1>3. CASE \E i \in 1..Len(events) :
             events[i].run = r /\ events[i].key = k /\ events[i].type # "Progress"
  <2>1. PICK i \in 1..Len(events) :
          events[i].run = r /\ events[i].key = k /\ events[i].type # "Progress"
    BY <1>3
  <2>2. i # 1
    BY <1>1, <2>1
  <2>3. i - 1 \in 1..Len(events') /\ events'[i - 1] = events[i]
    BY <1>1, <2>2
  <2>4. QED
    BY <2>1, <2>3 DEF BackedBy
<1>4. QED
  BY <1>2, <1>3 DEF BackedBy

\* A send appends the event to the channel of a scheduler that is there.
LEMMA SendAppends ==
  ASSUME TypeOK, NEW s \in RunIds, NEW type, NEW offset, pc # "closed",
         events' = Send(type, s, offset)
  PROVE  /\ Len(events') = Len(events) + 1 /\ Len(events) \in Nat
         /\ \A i \in 1..Len(events) : events'[i] = events[i]
         /\ events'[Len(events) + 1].run = s
         /\ events'[Len(events) + 1].key = RunKey(s)
         /\ events'[Len(events) + 1].type = type
<1> DEFINE e == [type |-> type, key |-> RunKey(s), offset |-> offset, run |-> s]
<1>1. events' = Append(events, e) /\ events \in Seq(Event)
  BY DEF Send, TypeOK
<1>2. e.run = s /\ e.key = RunKey(s) /\ e.type = type
  OBVIOUS
<1> HIDE DEF e
<1>3. QED
  BY <1>1, <1>2

\* A run that sends its last event hands the backing over to that event.
LEMMA BackingHandedOver ==
  ASSUME TypeOK, NEW r \in RunIds, NEW k \in Keys, BackedBy(r, k), pc # "closed",
         NEW s \in RunIds, NEW type, NEW offset, events' = Send(type, s, offset),
         s # r => runs'[r].pc = runs[r].pc /\ runs'[r].task = runs[r].task,
         s = r => \/ type # "Progress"
                  \/ runs'[r].pc # "idle" /\ runs'[r].task = runs[r].task
  PROVE  BackedBy(r, k)'
<1>1. /\ Len(events') = Len(events) + 1 /\ Len(events) \in Nat
      /\ \A i \in 1..Len(events) : events'[i] = events[i]
      /\ events'[Len(events) + 1].run = s
      /\ events'[Len(events) + 1].key = RunKey(s)
      /\ events'[Len(events) + 1].type = type
  BY SendAppends
<1>2. CASE \E i \in 1..Len(events) :
             events[i].run = r /\ events[i].key = k /\ events[i].type # "Progress"
  <2>1. PICK i \in 1..Len(events) :
          events[i].run = r /\ events[i].key = k /\ events[i].type # "Progress"
    BY <1>2
  <2>2. i \in 1..Len(events') /\ events'[i] = events[i]
    BY <1>1
  <2>3. QED
    BY <2>1, <2>2 DEF BackedBy
<1>3. CASE Live(r) /\ RunKey(r) = k /\ s = r /\ type # "Progress"
  <2>1. Len(events) + 1 \in 1..Len(events')
    BY <1>1
  <2>2. QED
    BY <1>1, <1>3, <2>1 DEF BackedBy
<1>4. CASE Live(r) /\ RunKey(r) = k /\ ~(s = r /\ type # "Progress")
  BY <1>4 DEF BackedBy, Live, RunKey
<1>5. QED
  BY <1>2, <1>3, <1>4 DEF BackedBy

-----------------------------------------------------------------------------
\* The invariant, one lemma per kind of step.

\* Callers, and the commands and scan steps that only look.
LEMMA SlotsUntouched ==
  ASSUME TypeOK, TypeOK', RunInv, UNCHANGED <<active, pausedSet, events, runs>>,
         pc' = "closed" => pc = "closed"
  PROVE  RunInv'
<1> SUFFICES ASSUME NEW k \in Keys, NEW r \in RunIds, active'[k] = r
             PROVE  /\ active[k] = r /\ BackedBy(r, k)'
                    /\ Live(r)' => (runs'[r].cancelled <=> k \in pausedSet')
  BY SlotsKept DEF RunInv, ClosedIsEmpty
<1>1. active[k] = r /\ BackedBy(r, k) /\ (Live(r) => (runs[r].cancelled <=> k \in pausedSet))
  BY SlotFacts
<1>2. BackedBy(r, k)'
  BY <1>1, BackingKept
<1>3. QED
  BY <1>1, <1>2 DEF Live

\* A handler that ends in EnterScan does not leave the loop.
LEMMA EnterScanOpen == EnterScan => pc' # "closed"
BY DEF EnterScan

\* Cancelling the token of the run in a slot, and no other.
LEMMA CancelActiveIs ==
  ASSUME TypeOK, NEW k \in Keys, NEW r \in RunIds
  PROVE  /\ CancelActive(k)[r].pc = runs[r].pc /\ CancelActive(k)[r].task = runs[r].task
         /\ CancelActive(k)[r].cancelled =
              IF active[k] = r THEN Live(r) ELSE runs[r].cancelled
<1>1. active[k] \in RunIds \cup {NoRun} /\ runs \in [RunIds -> Run] /\ runs[r] \in Run
  BY DEF TypeOK
<1>2. QED
  BY <1>1 DEF CancelActive, CancelToken, Live, Run

LEMMA PauseRuns ==
  ASSUME TypeOK, TypeOK', RunInv, NEW t \in TaskIds, Pause(t)
  PROVE  RunInv'
<1> DEFINE j == taskIdToDedupe[t]
<1>1. /\ j \in Keys /\ runs' = CancelActive(j) /\ pausedSet' = pausedSet \cup {j}
      /\ active' = active /\ events' = events /\ pc' # "closed"
  BY EnterScanOpen DEF Pause, Receive, TypeOK
<1> HIDE DEF j
<1> SUFFICES ASSUME NEW k \in Keys, NEW r \in RunIds, active[k] = r
             PROVE  /\ BackedBy(r, k)'
                    /\ Live(r)' => (runs'[r].cancelled <=> k \in pausedSet')
  BY <1>1, SlotsKept
<1>2. /\ BackedBy(r, k) /\ (Live(r) => (runs[r].cancelled <=> k \in pausedSet))
      /\ active[j] = r => j = k
  BY <1>1, SlotFacts
<1>3. /\ runs'[r].pc = runs[r].pc /\ runs'[r].task = runs[r].task
      /\ runs'[r].cancelled = IF active[j] = r THEN Live(r) ELSE runs[r].cancelled
  BY <1>1, CancelActiveIs
<1>4. BackedBy(r, k)'
  BY <1>1, <1>2, <1>3, BackingKept
<1>5. QED
  BY <1>1, <1>2, <1>3, <1>4 DEF Live

LEMMA CancelRuns ==
  ASSUME TypeOK, TypeOK', RunInv, NEW t \in TaskIds, Cancel(t)
  PROVE  RunInv'
<1> DEFINE j == taskIdToDedupe[t]
<1>1. /\ j \in Keys /\ runs' = CancelActive(j) /\ pausedSet' = pausedSet \ {j}
      /\ active' = [active EXCEPT ![j] = NoRun] /\ events' = events /\ pc' # "closed"
  BY EnterScanOpen DEF Cancel, Receive, TypeOK
<1> HIDE DEF j
<1> SUFFICES ASSUME NEW k \in Keys, NEW r \in RunIds, active'[k] = r
             PROVE  /\ active[k] = r /\ BackedBy(r, k)'
                    /\ Live(r)' => (runs'[r].cancelled <=> k \in pausedSet')
  BY <1>1, SlotsKept
<1>2. k # j /\ active[k] = r
  BY <1>1 DEF TypeOK
<1>3. /\ BackedBy(r, k) /\ (Live(r) => (runs[r].cancelled <=> k \in pausedSet))
      /\ active[j] # r
  BY <1>1, <1>2, SlotFacts
<1>4. /\ runs'[r].pc = runs[r].pc /\ runs'[r].task = runs[r].task
      /\ runs'[r].cancelled = runs[r].cancelled
  BY <1>1, <1>3, CancelActiveIs
<1>5. BackedBy(r, k)'
  BY <1>1, <1>3, <1>4, BackingKept
<1>6. QED
  BY <1>1, <1>2, <1>3, <1>4, <1>5 DEF Live

\* A stopped key gets back into the queue without its paused mark.
LEMMA ResumeRuns ==
  ASSUME TypeOK, TypeOK', RunInv, NEW t \in TaskIds, Resume(t)
  PROVE  RunInv'
<1> DEFINE j == taskIdToDedupe[t]
<1>1. /\ j \in Keys /\ runs' = runs /\ pausedSet' = pausedSet \ {j} /\ active[j] = NoRun
      /\ active' = active /\ events' = events /\ pc' # "closed"
  BY EnterScanOpen DEF Resume, Receive, TypeOK
<1> HIDE DEF j
<1> SUFFICES ASSUME NEW k \in Keys, NEW r \in RunIds, active[k] = r
             PROVE  /\ BackedBy(r, k)'
                    /\ Live(r)' => (runs'[r].cancelled <=> k \in pausedSet')
  BY <1>1, SlotsKept
<1>2. BackedBy(r, k) /\ (Live(r) => (runs[r].cancelled <=> k \in pausedSet)) /\ k # j
  BY <1>1, SlotFacts
<1>3. BackedBy(r, k)'
  BY <1>1, <1>2, BackingKept
<1>4. QED
  BY <1>1, <1>2, <1>3 DEF Live

\* Close and the loss of the last client give all slots back.
LEMMA EmptyRuns ==
  ASSUME TypeOK, TypeOK', RunInv, active' = [k \in Keys |-> NoRun]
  PROVE  RunInv'
BY SlotsKept

LEMMA CommandsRuns ==
  ASSUME TypeOK, TypeOK', RunInv, Commands
  PROVE  RunInv'
<1>1. ASSUME NEW t \in TaskIds, RejectDuplicate(t) PROVE RunInv'
  BY <1>1, SlotsUntouched DEF RejectDuplicate, Receive, tables, control
<1>2. ASSUME NEW t \in TaskIds, Enqueue(t) PROVE RunInv'
  BY <1>2, SlotsUntouched, EnterScanOpen DEF Enqueue, Receive
<1>3. ASSUME NEW t \in TaskIds, NEW op, RefuseResume(t) \/ TaskNotFound(op, t) PROVE RunInv'
  BY <1>3, SlotsUntouched, EnterScanOpen DEF RefuseResume, TaskNotFound, Receive, tables
<1>4. ASSUME Close PROVE RunInv'
  BY <1>4, EmptyRuns DEF Close
<1>5. QED
  BY <1>1, <1>2, <1>3, <1>4, PauseRuns, ResumeRuns, CancelRuns DEF Commands

\* A slot is given back with the last event of its run, and keeps its run
\* when the event only told of progress.
LEMMA WorkerEventsRuns ==
  ASSUME TypeOK, TypeOK', RunInv, WorkerEvents
  PROVE  RunInv'
<1>1. PICK j \in Keys, type \in {"Progress", "Completed", "Failed", "Canceled"} :
        /\ TakeEvent(type, j) /\ EnterScan
        /\ \/ type = "Progress" /\ active' = active /\ pausedSet' = pausedSet
           \/ /\ active' = [active EXCEPT ![j] = NoRun]
              /\ pausedSet' \in {pausedSet, pausedSet \ {j}}
  BY DEF WorkerEvents, OnProgress, OnCompleted, OnFailed, OnCanceledPaused, OnCanceled, EndTask
<1>2. runs' = runs /\ pc' # "closed"
  BY <1>1, EnterScanOpen DEF TakeEvent
<1> SUFFICES ASSUME NEW k \in Keys, NEW r \in RunIds, active'[k] = r
             PROVE  /\ active[k] = r /\ BackedBy(r, k)'
                    /\ Live(r)' => (runs'[r].cancelled <=> k \in pausedSet')
  BY <1>2, SlotsKept
<1>3. active[k] = r /\ (type = "Progress" \/ k # j) /\ (k \in pausedSet' <=> k \in pausedSet)
  BY <1>1 DEF TypeOK
<1>4. BackedBy(r, k) /\ (Live(r) => (runs[r].cancelled <=> k \in pausedSet))
  BY <1>3, SlotFacts
<1>5. BackedBy(r, k)'
  BY <1>1, <1>3, <1>4, BackingNotTaken
<1>6. QED
  BY <1>2, <1>3, <1>4, <1>5 DEF Live

\* A slot is given out for a run whose name neither a slot nor an event bears.
LEMMA StartFrontRuns ==
  ASSUME TypeOK, TypeOK', TableInv, RunInv, StartFront
  PROVE  RunInv'
<1>1. PICK r \in RunIds :
        /\ FreeRun(r) /\ active' = [active EXCEPT ![front] = r]
        /\ runs' = [runs EXCEPT ![r] = [task |-> groups[front], pc |-> "prepare",
                                        offset |-> offsets[front], attempt |-> 0,
                                        cancelled |-> FALSE]]
  BY DEF StartFront
<1>2. /\ front \in Keys /\ front \in queuedSet /\ groups[front] # NoTask
      /\ UNCHANGED <<events, pausedSet>> /\ pc = "scan" /\ pc' = "scan"
  BY PopMirror DEF StartFront, PopFront, TableInv
<1>3. front \notin pausedSet /\ KeyOf[groups[front]] = front
  BY <1>2 DEF TableInv, Places, IdsMatchGroups
<1>4. \A k \in Keys : active'[k] = IF k = front THEN r ELSE active[k]
  BY <1>1, <1>2 DEF TypeOK
<1>5. \A k \in Keys : ~BackedBy(r, k)
  BY <1>1 DEF BackedBy, FreeRun
<1>6. \A k \in Keys : active[k] # r
  BY <1>5, SlotFacts
<1>7. /\ runs'[r].pc = "prepare" /\ runs'[r].task = groups[front]
      /\ runs'[r].cancelled = FALSE
      /\ \A s \in RunIds : s # r => runs'[s] = runs[s]
  BY <1>1 DEF TypeOK
<1>8. ASSUME NEW k \in Keys, NEW s \in RunIds, active'[k] = s
      PROVE  /\ BackedBy(s, k)'
             /\ Live(s)' => (runs'[s].cancelled <=> k \in pausedSet')
             /\ \A j \in Keys : active'[j] = s => j = k
  <2>1. CASE k = front
    <3>1. s = r
      BY <1>4, <1>8, <2>1
    <3>2. BackedBy(s, k)'
      BY <1>3, <1>7, <2>1, <3>1 DEF BackedBy, Live, RunKey
    <3>3. QED
      BY <1>2, <1>3, <1>4, <1>6, <1>7, <2>1, <3>1, <3>2
  <2>2. CASE k # front
    <3>1. active[k] = s /\ s # r
      BY <1>4, <1>6, <1>8, <2>2
    <3>2. /\ BackedBy(s, k) /\ (Live(s) => (runs[s].cancelled <=> k \in pausedSet))
          /\ \A j \in Keys : active[j] = s => j = k
      BY <3>1, SlotFacts
    <3>3. BackedBy(s, k)'
      BY <1>2, <1>7, <3>1, <3>2, BackingKept
    <3>4. QED
      BY <1>2, <1>4, <1>7, <3>1, <3>2, <3>3 DEF Live
  <2>3. QED
    BY <2>1, <2>2
<1>9. QED
  BY <1>2, <1>8, SlotsGood

LEMMA TryStartNextRuns ==
  ASSUME TypeOK, TypeOK', TableInv, RunInv, TryStartNext
  PROVE  RunInv'
<1>1. CASE SkipFront \/ RequeueFront
  BY <1>1, SlotsUntouched DEF SkipFront, RequeueFront, PopFront
<1>2. CASE EndRound
  BY <1>2, SlotsUntouched DEF EndRound, tables
<1>3. QED
  BY <1>1, <1>2, StartFrontRuns DEF TryStartNext

\* What a step of a run does to that run and to the channel.
LEMMA RunStepIs ==
  ASSUME TypeOK, NEW s \in RunIds, RunStep(s)
  PROVE  /\ UNCHANGED <<tables, control, cmds, reported, issued>> /\ Live(s)
         /\ \A r \in RunIds : r # s => runs'[r] = runs[r]
         /\ runs'[s].pc # "idle" =>
              runs'[s].task = runs[s].task /\ runs'[s].cancelled = runs[s].cancelled
         /\ \/ events' = events /\ (runs'[s].pc # "idle" \/ pc = "closed")
            \/ \E offset : events' = Send("Progress", s, offset) /\ runs'[s].pc # "idle"
            \/ \E type \in {"Completed", "Failed", "Canceled"} : \E offset :
                 events' = Send(type, s, offset) /\ runs'[s].pc = "idle"
<1>1. runs \in [RunIds -> Run] /\ runs[s] \in Run /\ IdleRun.pc = "idle"
  BY DEF TypeOK, IdleRun
<1>2. CASE Prepare(s) \/ Check(s) \/ ScheduleRetry(s) \/ BackoffEnds(s)
  BY <1>1, <1>2 DEF Prepare, Check, ScheduleRetry, BackoffEnds, Live, Run
<1>3. CASE ObserveCancel(s) \/ Complete(s) \/ Fail(s)
  BY <1>1, <1>3 DEF ObserveCancel, Complete, Fail, Live
<1>4. CASE TransferChunk(s)
  <2>1. PICK next \in ChunkEnds(RunKey(s), runs[s].offset) :
          /\ events' = Send("Progress", s, next)
          /\ runs' = [runs EXCEPT
                        ![s].pc = IF next >= Size THEN "completing" ELSE "check",
                        ![s].offset = next, ![s].attempt = 0]
    BY <1>4 DEF TransferChunk
  <2>2. /\ runs'[s].pc # "idle" /\ runs'[s].task = runs[s].task
        /\ runs'[s].cancelled = runs[s].cancelled
        /\ \A r \in RunIds : r # s => runs'[r] = runs[r]
    BY <1>1, <2>1 DEF Run
  <2>3. QED
    BY <1>4, <2>1, <2>2 DEF TransferChunk, Live
<1>5. CASE Abort(s)
  BY <1>1, <1>5 DEF Abort
<1>6. QED
  BY <1>2, <1>3, <1>4, <1>5 DEF RunStep

\* A run that ends hands its slot's backing to its event.
LEMMA RunStepRuns ==
  ASSUME TypeOK, TypeOK', RunInv, NEW s \in RunIds, RunStep(s)
  PROVE  RunInv'
<1>1. UNCHANGED <<active, pausedSet, pc>>
  BY RunStepIs DEF tables, control
<1> SUFFICES ASSUME NEW k \in Keys, NEW r \in RunIds, active[k] = r
             PROVE  /\ BackedBy(r, k)'
                    /\ Live(r)' => (runs'[r].cancelled <=> k \in pausedSet')
  BY <1>1, SlotsKept DEF RunInv, ClosedIsEmpty
<1>2. /\ BackedBy(r, k) /\ (Live(r) => (runs[r].cancelled <=> k \in pausedSet))
      /\ pc # "closed"
  BY SlotFacts
<1>3. /\ r # s => runs'[r] = runs[r]
      /\ Live(s)
      /\ runs'[s].pc # "idle" =>
           runs'[s].task = runs[s].task /\ runs'[s].cancelled = runs[s].cancelled
  BY RunStepIs
<1>4. BackedBy(r, k)'
  <2>1. CASE events' = events /\ runs'[s].pc # "idle"
    BY <1>2, <1>3, <2>1 DEF BackedBy, Live, RunKey
  <2>2. CASE \E offset : events' = Send("Progress", s, offset) /\ runs'[s].pc # "idle"
    BY <1>2, <1>3, <2>2, BackingHandedOver
  <2>3. CASE \E type \in {"Completed", "Failed", "Canceled"} : \E offset :
               events' = Send(type, s, offset)
    <3>1. PICK type, offset :
            /\ type \in {"Completed", "Failed", "Canceled"}
            /\ events' = Send(type, s, offset)
      BY <2>3
    <3>2. type # "Progress"
      BY <3>1
    <3>3. QED
      BY <1>2, <1>3, <3>1, <3>2, BackingHandedOver
  <2>4. QED
    BY <1>2, <2>1, <2>2, <2>3, RunStepIs
<1>5. QED
  BY <1>1, <1>2, <1>3, <1>4 DEF Live

LEMMA RunInvInductive ==
  ASSUME TypeOK, TypeOK', TableInv, RunInv, [Next]_vars
  PROVE  RunInv'
<1>1. CASE Callers
  BY <1>1, SlotsUntouched
     DEF Callers, SendEnqueue, SendControl, SendClose, SendCommand, tables, control
<1>2. CASE Disconnect
  BY <1>2, EmptyRuns DEF Disconnect
<1>3. CASE UNCHANGED vars
  BY <1>3, SlotsUntouched DEF vars, tables, control
<1>4. CASE Terminated
  BY <1>3, <1>4 DEF Terminated
<1>5. QED
  BY <1>1, <1>2, <1>3, <1>4, CommandsRuns, WorkerEventsRuns, TryStartNextRuns, RunStepRuns
     DEF Next, SchedulerStep

LEMMA RunInvInit == Init => RunInv
BY DEF Init, RunInv, SlotIsBacked, SlotsDistinct, CancelledIffPaused, ClosedIsEmpty

\* The inductive invariant of slots and runs: every slot has its own run, alive
\* or with its last event on the way, and a scheduler that is gone has no slot.
THEOREM RunsCorrect == Spec => []RunInv
<1>1. TypeOK /\ TypeOK' /\ TableInv /\ RunInv /\ [Next]_vars => RunInv'
  BY RunInvInductive
<1>2. QED
  BY <1>1, RunInvInit, TypeCorrect, TablesCorrect, PTL DEF Spec

\* No slot leaks: whoever holds one is alive, or its last event is on its way
\* to the handler that gives the slot back.
THEOREM NoSlotLeaks == Spec => []SlotIsBacked
<1>1. RunInv => SlotIsBacked
  BY DEF RunInv
<1>2. QED
  BY <1>1, RunsCorrect, PTL

\* The run in a slot will be stopped by its token exactly when its key is
\* paused, whatever pause, resume and late events do in turn.
THEOREM TokenMeansPaused == Spec => []CancelledIffPaused
<1>1. RunInv => CancelledIffPaused
  BY DEF RunInv
<1>2. QED
  BY <1>1, RunsCorrect, PTL

-----------------------------------------------------------------------------
\* What the others do to a run: its token can be cancelled and is not taken
\* back; only try_start_next brings a new run to life.
LEMMA RunsGoOn ==
  ASSUME TypeOK, [Next]_vars, NEW r \in RunIds
  PROVE  \/ RunStep(r)
         \/ StartFront /\ ~Live(r)
         \/ /\ runs'[r].pc = runs[r].pc /\ runs'[r].task = runs[r].task
            /\ Live(r) /\ runs[r].cancelled => runs'[r].cancelled
<1> DEFINE GoesOn == /\ runs'[r].pc = runs[r].pc /\ runs'[r].task = runs[r].task
                     /\ Live(r) /\ runs[r].cancelled => runs'[r].cancelled
<1> SUFFICES RunStep(r) \/ (StartFront /\ ~Live(r)) \/ GoesOn
  OBVIOUS
<1>1. ASSUME NEW t \in TaskIds, Pause(t) \/ Cancel(t) PROVE GoesOn
  <2>1. PICK k \in Keys : runs' = CancelActive(k)
    BY <1>1 DEF Pause, Cancel, TypeOK
  <2>2. QED
    BY <2>1, CancelActiveIs
<1>2. ASSUME Close PROVE GoesOn
  <2>1. runs'[r] = IF \E k \in Keys : active[k] = r THEN CancelToken(r)[r] ELSE runs[r]
    BY <1>2 DEF Close
  <2>2. runs \in [RunIds -> Run] /\ runs[r] \in Run
    BY DEF TypeOK
  <2>3. QED
    BY <2>1, <2>2 DEF CancelToken, Live, Run
<1>3. runs'[r] = runs[r] => GoesOn
  OBVIOUS
<1> HIDE DEF GoesOn
<1>4. CASE Commands
  <2>1. ASSUME NEW t \in TaskIds, NEW op,
               \/ RejectDuplicate(t) \/ Enqueue(t) \/ Resume(t)
               \/ RefuseResume(t) \/ TaskNotFound(op, t)
        PROVE  runs' = runs
    BY <2>1 DEF RejectDuplicate, Enqueue, Resume, RefuseResume, TaskNotFound
  <2>2. QED
    BY <1>1, <1>2, <1>3, <1>4, <2>1 DEF Commands
<1>5. CASE TryStartNext
  <2>1. CASE StartFront
    <3>1. PICK s \in RunIds : FreeRun(s) /\ \E new : runs' = [runs EXCEPT ![s] = new]
      BY <2>1 DEF StartFront
    <3>2. CASE s = r
      BY <2>1, <3>1, <3>2 DEF FreeRun
    <3>3. CASE s # r
      BY <1>3, <3>1, <3>3 DEF TypeOK
    <3>4. QED
      BY <3>2, <3>3
  <2>2. CASE SkipFront \/ RequeueFront \/ EndRound
    BY <1>3, <2>2 DEF SkipFront, RequeueFront, EndRound
  <2>3. QED
    BY <1>5, <2>1, <2>2 DEF TryStartNext
<1>6. CASE WorkerEvents
  BY <1>3, <1>6 DEF WorkerEvents, OnProgress, OnCompleted, OnFailed, OnCanceledPaused,
                    OnCanceled, TakeEvent
<1>7. ASSUME NEW s \in RunIds, s # r, RunStep(s) PROVE GoesOn
  BY <1>3, <1>7, RunStepIs
<1>8. CASE Callers \/ Disconnect
  BY <1>3, <1>8 DEF Callers, SendEnqueue, SendControl, SendClose, SendCommand, Disconnect
<1>9. UNCHANGED vars \/ Terminated => GoesOn
  BY <1>3 DEF Terminated, vars
<1>10. QED
  BY <1>4, <1>5, <1>6, <1>7, <1>8, <1>9 DEF Next, SchedulerStep

\* No request after the stop: neither the end of a backoff wait nor prepare
\* nor a chunk lets a run whose token is cancelled into another request,
\* whatever the scheduler and the other runs do meanwhile.
THEOREM StopIsFinal == Spec => NoRequestAfterStop
<1>1. ASSUME TypeOK, [Next]_vars
      PROVE  \A r \in RunIds : Stopped(r) => Stopped(r)' \/ ~Live(r)'
  <2> SUFFICES ASSUME NEW r \in RunIds, Stopped(r)
               PROVE  Stopped(r)' \/ ~Live(r)'
    OBVIOUS
  <2>1. Live(r) /\ runs[r].cancelled /\ runs[r].pc # "transfer"
    BY DEF Stopped
  <2>2. CASE RunStep(r)
    <3>1. runs \in [RunIds -> Run] /\ runs[r] \in Run
      BY <1>1 DEF TypeOK
    <3>2. CASE Prepare(r) \/ BackoffEnds(r)
      <4>1. runs'[r].pc = "check" /\ runs'[r].cancelled = runs[r].cancelled
        BY <3>1, <3>2 DEF Prepare, BackoffEnds, Run
      <4>2. QED
        BY <2>1, <4>1 DEF Stopped, Live
    <3>3. CASE ObserveCancel(r) \/ Complete(r) \/ Fail(r) \/ Abort(r)
      BY <3>1, <3>3 DEF ObserveCancel, Complete, Fail, Abort, Live, IdleRun
    <3>4. QED
      BY <2>1, <2>2, <3>2, <3>3 DEF RunStep, Check, TransferChunk, ScheduleRetry
  <2>3. CASE ~RunStep(r)
    <3>1. runs'[r].pc = runs[r].pc /\ runs'[r].cancelled
      BY <1>1, <2>1, <2>3, RunsGoOn
    <3>2. QED
      BY <2>1, <3>1 DEF Stopped, Live
  <2>4. QED
    BY <2>2, <2>3
<1>2. QED
  BY <1>1, TypeCorrect, PTL DEF NoRequestAfterStop, Spec
=============================================================================
