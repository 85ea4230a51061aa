----------------------------- MODULE ExecState -----------------------------
(***************************************************************************)
(* The state shared by the scheduler thread (worker_loop) and by the       *)
(* transfer runs it spawns (run_group): SchedulerState, the two channels   *)
(* between callers, scheduler and runs, and the runs themselves.           *)
(***************************************************************************)
EXTENDS Naturals, Sequences, FiniteSets

CONSTANTS
  Keys,         \* dedupe keys: (Upload, file signature) or (Download, url)
  TaskIds,      \* task ids, one fresh UUID per call of MeowClient::enqueue
  RunIds,       \* names for the runs that are alive at one moment
  KeyOf,        \* the dedupe key of each task
  Direction,    \* the direction of each key, its first component
  MaxUpload,    \* MeowConfig::max_upload_concurrency
  MaxDownload,  \* MeowConfig::max_download_concurrency
  Size,         \* chunks in a file; one chunk is the unit of offset
  Beyond,       \* bounds how far behind the end a download chunk may reach;
                \* the code has no such bound
  MaxRetries,   \* InnerTask::max_chunk_retries
  CmdCap,       \* capacity of the command channel (256 in the code)
  EventCap,     \* capacity of the worker event channel (1024 in the code)
  NoTask, NoKey, NoRun

Directions == {"Upload", "Download"}

ASSUME KeysAssumption ==
  /\ IsFiniteSet(Keys) /\ NoKey \notin Keys
  /\ Direction \in [Keys -> Directions]
ASSUME TaskIdsAssumption ==
  /\ NoTask \notin TaskIds
  /\ KeyOf \in [TaskIds -> Keys]
ASSUME RunIdsAssumption == RunIds \subseteq Nat /\ NoRun \notin RunIds
ASSUME LimitsAssumption ==
  /\ MaxUpload \in Nat /\ MaxDownload \in Nat
  /\ Size \in Nat /\ Beyond \in Nat /\ MaxRetries \in Nat
  /\ CmdCap \in Nat \ {0} /\ EventCap \in Nat \ {0}

Last == Size + Beyond

VARIABLES
  groups,           \* key -> the task that leads its group, or NoTask
  taskIdToDedupe,   \* task id -> its key while it can be controlled, or NoKey
  queued,           \* keys waiting for a slot, in order
  queuedSet,        \* mirror of queued
  pausedSet,        \* keys that are paused
  active,           \* key -> the run whose cancel token it holds, or NoRun
  offsets,          \* key -> recorded offset; 0 when there is no entry
  pc,               \* the scheduler: at its select, in try_start_next, gone
  scanLeft,         \* try_start_next: iterations left in the current round
  scheduled,        \* try_start_next: scheduled_in_this_round
  cmds,             \* the command channel
  events,           \* the worker event channel
  runs,             \* the spawned run_group tasks
  reported,         \* task id -> the last status the listeners were told
  issued            \* task ids whose Enqueue command was sent

tables  == <<groups, taskIdToDedupe, queued, queuedSet, pausedSet, active, offsets>>
control == <<pc, scanLeft, scheduled>>
vars    == <<tables, control, cmds, events, runs, reported, issued>>

Statuses == {"None", "Pending", "Transmission", "Paused", "Complete",
             "Failed", "Canceled"}
Terminal == {"Complete", "Failed", "Canceled"}

Command == [op : {"Enqueue", "Pause", "Resume", "Cancel", "Close"},
            task : TaskIds \cup {NoTask}]

\* A worker event names its key only; "run" is a ghost that says which run
\* sent it. No action reads it but FreeRun, which recycles run names.
Event == [type : {"Progress", "Completed", "Failed", "Canceled"},
          key : Keys, offset : 0..Last, run : RunIds]

Run == [task : TaskIds \cup {NoTask},
        pc : {"idle", "prepare", "check", "transfer", "backoff", "completing"},
        offset : 0..Last,
        attempt : 0..MaxRetries,
        cancelled : BOOLEAN]

IdleRun == [task |-> NoTask, pc |-> "idle", offset |-> 0, attempt |-> 0,
            cancelled |-> FALSE]

Live(r)   == runs[r].pc # "idle"
RunKey(r) == KeyOf[runs[r].task]

Limit == [d \in Directions |-> IF d = "Upload" THEN MaxUpload ELSE MaxDownload]
ActiveIn(d) == {k \in Keys : active[k] # NoRun /\ Direction[k] = d}
\* Bug: one slot too many.
CanStartDirectionOffByOne(d) == Cardinality(ActiveIn(d)) <= Limit[d]

CanStartDirection(d) == Cardinality(ActiveIn(d)) < Limit[d]

QueuedKeys == {queued[i] : i \in 1..Len(queued)}

\* InnerTask::total_size: a download is built with size 0, the HEAD request
\* of prepare finds the real one.
InnerTotal(k) == IF Direction[k] = "Upload" THEN Size ELSE 0

\* emit_status: the progress told is transferred / total, and 0 without a total.
Progress(transferred, total) == IF total = 0 THEN 0 ELSE transferred
Report(t, status, transferred, total) ==
  [reported EXCEPT ![t] = [status |-> status,
                           progress |-> Progress(transferred, total)]]

\* A run's send: the receiver is gone once the scheduler has left its loop.
CanSend == pc = "closed" \/ Len(events) < EventCap
Send(type, r, offset) ==
  IF pc = "closed" THEN events
  ELSE Append(events, [type |-> type, key |-> RunKey(r), offset |-> offset,
                       run |-> r])
=============================================================================
