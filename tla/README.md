# Verification of the rusty-cat transfer client

rusty-cat is a Rust library for resumable uploads and downloads. A `MeowClient`
hands tasks to an `Executor`: one scheduler thread that keeps the tables of all
tasks, and a spawned transfer (`run_group`) for each task that holds a slot, which
talks to the server through an HTTP client. This directory holds TLA+ modules of
these parts, TLC configurations that check them on small instances, and proofs for
all values of the constants.

## 1. The system

| Component | State | Operations |
|---|---|---|
| `MeowClient` (`meow_client.rs`) | `closed` flag shared by clones, a lazily created executor per handle, listener list | enqueue, pause, resume, cancel, snapshot, close, listener registration |
| `Executor` (`inner/executor.rs` 501-721) | sender of the command channel (capacity 256) | one command per call; all but enqueue wait for an answer |
| Scheduler (`worker_loop`, `scheduler_state.rs`) | `groups`, `task_id_to_dedupe`, `queued`, `queued_set`, `paused_set`, `active`, `offsets` | a biased select over commands and worker events; every handler but Snapshot, Close and the rejected duplicate ends with `try_start_next` |
| `try_start_next` (`exec_impl/exec.rs` 17-129) | position in the queue, `scheduled_in_this_round` | pops each waiting key once per round: skip, put back, or start |
| Run (`run_group`, `retry.rs`) | offset, attempt, cancel token | prepare, then chunk after chunk with retries and backoff; sends Progress, Completed, Failed, Canceled |
| Worker events (`handle_worker_event.rs`) | - | record an offset; free the slot and end the task, or keep it when it is paused |
| Reports (`emit.rs`) | - | tell the task's callback and all global listeners a status and a progress |
| Download client (`default_http_client.rs` 204-286, 385-693) | local file, file handle per run | HEAD and local length in prepare; ranged GET, header checks and write per chunk |
| Upload client (`default_http_client.rs` 140-202, 288-383; `http_breakpoint.rs`) | - (the server holds the chunks) | probe in prepare; one multipart request per chunk |
| Task construction (`inner_task.rs`, builders, `sign.rs`) | - | task id, dedupe key, sizes, limits |

**How they interact.** Callers and scheduler share the command channel;
scheduler and runs share the event channel (capacity 1024) and one cancel token
per run. Runs of one task share nothing but the local file or the server. A task
is known outside by its id and inside by its *dedupe key* (direction and file
signature, or direction and URL): at most one group per key, led by one task.
Events name only the key.

**What is hard.** Runs, callers and the scheduler interleave. A cancelled run
goes on until it next looks at its token, so its events arrive when the key may
belong to another task, and its writes when the file may. Pause keeps the slot
until the run has stopped, cancel frees it at once. Five tables are kept in step
by hand in every handler. The queue is turned over again and again while slots
are given out in two directions. Commands take precedence over events. Bytes are
written in the background after the write has returned. Requests are lost,
answered late, or reach the server after they were given up. The closed flag is
shared by all clones of a client, the executor is not.

**What makes each part correct.**

- Client: calls through a handle meet one executor; a close that returned is
  final; what was accepted is found until it is over; every call comes back.
- Tables: mirror and queue agree; ids match groups; every group is in exactly one
  place; no task is lost.
- Slots: within the limits, never held by nobody, never idle while somebody waits,
  handed out first in, first out per direction.
- Pause/resume/cancel: the token in a slot is cancelled exactly while the key is
  paused; legal moves only; nothing runs out of reach of its controls.
- Runs: one per task; no request after the stop; bounded retries, exactly one last
  event, and everything settles.
- Reports: nothing after the end.
- Download: the file holds what the remote holds, without gaps, and all of it (and,
  if the server's ranges stay within the remote, no more) when the download is
  complete.
- Upload: complete means stored; no chunk is passed over.

## 2. Modules

| Module | Models | Correspondence |
|---|---|---|
| `MeowClient` | `meow_client.rs`, the `Executor` handle, the life of an executor | one action per stretch of a call between two awaits or shared accesses |
| `ExecState` | the shared state of one executor | one variable per field of `SchedulerState`, the two channels, `runs` for the spawned transfers, `reported` for what listeners were told last |
| `Scheduler` | `worker_loop`, `handle_worker_event`, `try_start_next` | one action per command outcome and per event; one action per iteration of `try_start_next` |
| `RunGroup` | `run_group`, `transfer_chunk_with_retry` over any HTTP client | one action per stretch between two awaits |
| `Executor` | the composition with callers that send any command at any time; the properties | `Spec`, and `FairSpec` with fairness |
| `TaskLifecycle` | what the executor promises of its tasks | abstract specification, implemented under the refinement mapping `Phase` |
| `Download` | `download_prepare`, `download_one_chunk`, the local file | one action per await; implements the steps of `RunGroup` |
| `Upload` | `upload_prepare`, `upload_one_chunk`, the server | request and answer are steps of their own; implements the steps of `RunGroup` |
| `MCExecutor` | small instances of `Executor` | keys, directions and key assignments |
| `ExecutorTypeProofs`, `ExecutorProofs`, `ExecutorRunProofs`, `LifecycleProofs`, `SoleTaskProofs` | theorems about `Executor` | section 5 |
| `DownloadProofs`, `UploadProofs`, `MeowClientProofs` | theorems about the other three | section 5 |

The system is cut along its own seams. `Executor` sees of a transfer only where
prepare lets it start and where a chunk ends; `Download` and `Upload` show that the
two clients keep to that (`ImplementsRunGroup`, a refinement of the run's part of
`RunGroup`). `MeowClient` sees of an executor only its channel and the tasks it
knows; `Executor` says what becomes of them.

Choices a reader should know, for the executor:

- **A handler and its scan.** A handler is one action. It ends in `EnterScan`,
  which sets `pc` to `scan` when keys wait; then only `SkipFront`, `RequeueFront`,
  `StartFront` and `EndRound` are enabled for the scheduler until it is back at
  its select. So the trailing `try_start_next` is always taken and never
  interrupted by another message, but runs and callers may step between its
  iterations, as threads do. A rejected duplicate `continue`s without a scan, and
  so it does here.
- **Biased select.** Events are handled only when no command waits (`TakeEvent`).
- **Names of runs.** `active` holds a cancel token in the code. Here it holds the
  name of the run that owns the token. A name is used again only when its run is
  over and none of its events is on its way (`FreeRun`), and the smallest free
  name is taken, which removes states that differ in names only. The field `run`
  of an event is a ghost: no handler reads it.
- **Cancel token.** `cancelled` of a run. It is seen before every attempt and
  during the backoff, never inside a request, and the sleep may win the race
  (`BackoffEnds` is enabled with the token cancelled), as in the code's select.
- **Panic** of a run is the same as a failure: the task around it sends Failed.
- **Reports.** Only the last status and progress of each task are kept. A
  download is built with total size 0, so every report that uses that size tells
  progress 0; Progress and Completed events carry the real size.
- **Close** ends the loop; the runtime is dropped and what is left of the runs
  with it (`Abort`). `Disconnect` is the end of the loop when the last client is
  gone: possible when the command channel is empty, and nobody can send after it.

For the HTTP client:

- **The file.** `length` and the set `wrong` of positions that do not hold the
  remote's unit. A write is what it says: it extends the file, leaves a gap when it
  starts behind the end, and puts foreign units when the body is not that of its
  place. The remote file does not change.
- **Background writes.** `tokio::fs::File` hands the bytes to a blocking thread and
  returns; the next operation on the handle waits for it and reports its error.
  So `WriteChunk` hands over, `Land` and `LandFails` finish (a failed write may
  have written a part), `WriteReportsError` is the next write. A landing write
  outlives its run and the runtime, not the process.
- **What the server answers** to a ranged GET is any status, any range, any total
  and any length of body; only the code's own checks restrict it. None of them
  compares the end of the range with the total, so an accepted body may reach behind
  the remote's end: `Beyond` bounds by how much, for TLC, and the proofs hold for
  every value of it. That the server sends the remote's bytes for the positions the
  remote has is taken for granted; what it sends for positions behind is nobody's.
- **Ghosts.** `overlong` remembers that such a body was accepted, `gaveUp` that a
  server error ended a run with attempts left, `lost` that a background write
  failed, `shared` that a run was started beside a live one.
- **The upload server** takes a chunk that leaves no gap behind what it holds and
  refuses another. It is strict on purpose: a server that takes anything needs a
  client that never errs, and that is `NeverAhead`. It may expire an unfinished
  upload at any time. A request a run has given up may reach the server later,
  once, in any order (`late`).
- **Who tells the scheduler.** In these two modules the end of a run and the
  event it sends are one step; `Executor` has the delay. `End` frees the slot
  whichever run ended, as the handlers do.

In `RunGroup` a download chunk may end up to `Beyond` units behind the end, too, and
the run completes when its offset has reached or passed `Size`.

For the client:

- **Handles.** `derive(Clone)` copies the `OnceLock` as it is at that moment and
  shares the flag, so a clone made before the first call has an executor of its
  own.
- **Calls.** A call is named by the order in which it begins, an executor after the
  call that created it. `Begin` is `ensure_open`; for close it is the
  compare-exchange. A call that waits may lose its caller (`DropFuture`).
- **Answers.** `GetAnswer` returns what the scheduler sent; a command dropped with
  the channel leaves its caller `CommandResponseFailed`.
- **Tasks of an executor.** `tasks` is the set of ids its scheduler knows
  (`task_id_to_dedupe`). An Enqueue joins it, or is refused as a duplicate of a task
  that is there (`Admit`); a Cancel takes its task out (`Command`), as `cancel_group`
  does; a Completed, Failed or Canceled may end any task whenever no command waits
  (`TaskEnds`). Which tasks are duplicates and when one ends is left open here, and
  said by `Executor`. The ghost `over` keeps the tasks that are over by one of these
  ways: a later command for such a task is answered TaskNotFound, which
  `tests/task_not_found_test.rs` expects.

In all modules, definitions marked `Bug:` are faulty variants of the definition
after them. No specification uses them; they document which slip each property
detects. Variables marked as ghosts are read by properties only.

## 3. Runs

`CmdCap`, `EventCap` and `ChanCap` are 256, 1024 and 256 in the code: a small
channel makes it full, which is where senders block or fail.

| Run | Instance | Shows |
|---|---|---|
| `shared_key` | 2 uploads, 3 tasks (two duplicates), 1 slot | `QueueMirror`, `IdsMatchGroups`, `NoTaskLost`, `PlacesAreExclusive`, `ImplementsLifecycle` |
| `one_key` | 1 download, 2 duplicates, 2 chunks, 1 retry, 2 events, fair | `TypeOK`, `SlotIsBacked`, `CancelledIffPaused`, `NoRequestAfterStop`, `Settles` with retries, duplicates and late events |
| `one_direction` | 3 uploads, 1 slot, fair | `ServedInOrder`, `Settles` with the slot handed on |
| `two_directions` | 2 uploads, 1 download, no duplicates | `ActiveWithinLimit`, `WorkConserving`, `OnlySlotHoldersGoOn`, `OneRunPerTask`, `TerminalIsFinal` |
| `download` | 2 runs, a remote of 2 units, 1 retry, a local file of 0 to 3 units, answers up to unit 3 | `TypeOK`, `ContentIsRight`, `NoGapAhead`, `CompletedLandsWhole`, `ImplementsRunGroup` |
| `upload` | 2 runs, 2 chunks, 1 retry | `TypeOK`, `CompletedIsStored`, `NeverAhead`, `ImplementsRunGroup` |
| `client` | 2 handles, 3 calls, 2 places in a channel, cancels, duplicates and ends, fair | `TypeOK`, `OneExecutorPerHandle`, `CloseIsFinal`, `ClosedExecutorIsEmpty`, `AcceptedIsFound`, `SubmittedIsAdmitted`, `Settles` |

Why the bounds are enough for what they show.

- *Executor.* Two tasks on one key are what late events, duplicates and successors
  need; a third task on a second key adds the competition for the slot. Two keys of
  one direction and one slot force queueing and hand-over, three give a queue with
  an order. Two chunks give a progress before the last one. One retry has a first,
  a last and a missing attempt. Where `Size` is 0 a run still prepares, sends one
  Progress and one Completed, and can be paused, cancelled or fail in between; the
  offsets, which no property of those runs reads, are left out. One command in the
  channel is enough because a caller may send the next as soon as the scheduler has
  taken it; the commands dropped behind a Close are the subject of `client`. Three
  run names are enough that a start never waits for a name.
- *Download and upload.* A file of two units has a first chunk, a later chunk and a
  middle; a local file and a chunk may end before, at or behind its end (`Beyond` is 1
  in `download`, `one_key` and `two_directions`, and 0 where the properties do not depend on
  offsets). Two run names give every
  overlap of a cancelled run with its successor.
- *Client.* Three calls are the smallest number in which two racing calls meet a
  third that closes or controls; two handles give a clone with and without the
  executor; two places hold a command behind a Close and are filled by three sends.

`SlotIsBacked` and `CancelledIffPaused` are the heart of the pause protocol: they
hold even though late events of cancelled runs are applied to the wrong task,
because such an event frees the slot but never leaves one held. What such an event
does break is shown by `unseen_run` and `two_runs.cfg`; `OnlySlotHoldersGoOn` and
`OneRunPerTask` therefore hold only where no two tasks share a key.

`NoRequestAfterStop` is what makes a cancel binding: the select at the end of a
backoff may take the sleep although the token is cancelled, and the check before the
next attempt must still see it. Only a request that is under way goes on.

`AcceptedIsFound` says when a command may be told TaskNotFound for a task that enqueue
accepted: its task is over, or another executor was asked. `SubmittedIsAdmitted` says
how an accepted task may leave the channel: into the table, as a duplicate, or behind
a Close, which ends all tasks of the executor.

`ContentIsRight` and `NoGapAhead` say of the download what its author intended with
the length check at the first chunk: a run that is resumed while a write of its
predecessor is still landing reads a stale length, and is stopped by that check
before it writes. The price is a task that fails with "local file size mismatch".
Both properties exclude two live runs on one file (the ghost `shared`), which only a
cancel followed by a new task brings about; see `holes`. They speak of the positions of
the remote. What an accepted answer carries for positions behind the remote's end is
written there, and `CompletedLandsWhole` promises the exact length only when there was
no such answer; see `overlong`.

`CompletedIsStored` holds although prepare takes the larger of both offsets and a
chunk's answer ignores `nextByte`: when the server has lost chunks, the strict
server refuses what follows and the task fails, it is not reported complete.

**Violations.** Five runs show where the code departs from what its own comments
or tests say; each finding in `PROJECT.json` quotes the line.

| Run | Property | What happens |
|---|---|---|
| `unseen_run` | `OnlySlotHoldersGoOn` | cancel t1, enqueue t2 (same key), t1's run fails late: its Failed ends t2, whose run goes on with a token nobody holds |
| `holes` | `FileHasNoHoles` | cancel a download inside a request, start the next one: it empties the file while the first goes on writing at its own offset |
| `completed_early` | `CompletedIsWhole` | Complete is told before the last write has landed; if it fails, nobody is told |
| `overlong` | `CompletedIsExact` | a Content-Range that ends behind its total is accepted; Complete, with a file longer than the remote, which the next prepare would refuse |
| `after_close` | `NothingRunsAfterClose` | enqueue passes the flag, close finds no executor and returns Ok, enqueue creates one and its task runs |

Six more configurations show departures that have the cause of one of these, or are
plain from a few lines. Each checks one property, which TLC finds violated:

| Configuration, module | Property | What happens | What the repository says |
|---|---|---|---|
| `two_runs`, `MCExecutor` | `OneRunPerTask` | cancel t1, enqueue and pause t2 (same key): t1's late Canceled is taken for the end of t2's pause, and a resume starts t2 a second time | pause leaves the slot taken "so that resume does not race with Canceled" (`executor.rs` 356) |
| `over_limit`, `MCExecutor` | `RunningWithinLimit` | cancel frees the slot of a run that is inside a request; the next task starts beside it | the limit is one on "the number of groups running at the same time" (`scheduler_state.rs` 12) |
| `duplicate`, `MCExecutor` | `FailedIsOver` | a duplicate enqueue is told to the listeners as Failed with the id of the task that is already there, which goes on | "the failed state ends the task's life cycle" (`handle_worker_event.rs` 59) |
| `paused_download`, `MCExecutor` | `PauseKeepsProgress` | pausing a download tells progress 0, since it was built with total size 0 | the offset is the pause progress, "to keep the visible progress continuous" (`executor.rs` 369) |
| `server_error`, `Download` | `TransientFailuresAreRetried` | a 5xx to a chunk request becomes InvalidRange and ends the download with attempts left | the retryable codes are those of "transient failures of the network or the server" (`retry.rs` 21) |
| `clone`, `MeowClient` | `NotFoundMeansOver` | a handle cloned before the first call is asked to pause a task that runs: it creates an executor of its own and returns TaskNotFound | TaskNotFound is for an unknown id, "for example a task that has ended" (`error.rs` 23) |

`NothingRunsAfterClose` also fails by such an early clone: a close through it does not
reach the other executor.

## 4. Fairness

`Executor!FairSpec` assumes weak fairness of the scheduler's steps and of each
run's. The scheduler is a thread with a loop; a run is a task of a multi-threaded
runtime; a request ends or times out (`http_timeout`), a sleep ends. Callers
owe nothing, and the end of the runtime is not fair either.

Its `Settles` has a premise: eventually the command channel stays empty. The select
is biased, so a caller that never stops sending keeps events from being handled;
without the premise the property is false of the code. A retry loop ends because
`attempt` is bounded, and weak fairness of a run's steps suffices since each of
its steps leads forward.

`MeowClient!FairSpec` assumes weak fairness of one action, any step of a call or of
an executor. That suffices, and is weaker than fairness for each of them, because
calls are bounded and every such step uses something up. Users owe nothing: they
need not clone, drop, call or give up. The calls of this model do not block in
user code.

## 5. Proofs

Every safety property that a passing run checks is also a theorem: for every set
of keys, tasks, runs, handles and calls, all limits, sizes, retry limits and channel
capacities. The assumptions are the named `ASSUME`s of the modules (finitely many
keys, a key per task, natural limits, channels with room for one message, names
that are naturals); where a theorem has a further hypothesis it says so.

**The executor's tables** (`ExecutorTypeProofs`, `ExecutorProofs`).

| Theorem | Property |
|---|---|
| `TypeCorrect` | `TypeOK` |
| `TablesCorrect` | the inductive invariant `TableInv` behind the next six |
| `QueueStaysMirrored` | `QueueMirror` |
| `IdsStayMatched` | `IdsMatchGroups` |
| `NoTaskIsLost` | `NoTaskLost` |
| `PlacesExclusive` | `PlacesAreExclusive` |
| `LimitsHold` | `ActiveWithinLimit` |
| `NoIdleSlot` | `WorkConserving` |
| `ServedFirstInFirstOut` | `ServedInOrder` |

`WorkConserving` speaks only of the moments at the select, and is
not inductive, because the scan that establishes it takes many steps. `TableInv`
adds `Examined`: the keys behind position `scanLeft` of the queue have a group and
no free slot in their direction. A handler sets `scanLeft` to the whole queue, so
it owes nothing; an iteration moves one key from the unexamined front, and either
drops it, puts it behind with its direction full, or starts it, which only fills a
direction. When the round is over `scanLeft` is 0 and `Examined` covers the queue.
Between two rounds it is weakened again. `NoTaskLost` likewise needs that the
popped key has no group when it is dropped, which follows from `Places`: what waits
does not run. The exclusiveness of places needs the mirror, since handlers test
`queued_set` and change `queued`. The queue lemmas (`WithoutRemoves`,
`RequeueMirror`, `PopMirror`) say what `retain`, `push_back` and `pop_front` do to
a queue without duplicates.

`ServedInOrder` compares the order of waiting keys before and after a step. The
lemmas on `Rotated` reduce it to the queue as the scan sees it, unexamined keys
behind examined ones: popping drops its first key, putting a key back changes
nothing at all (the queue turns, the order does not), `retain` drops a key and
keeps the order of the others, a new key goes last, and a scan that begins or ends
turns the order by a whole round. That a started key has no older one of its
direction before it is `Examined` again: whatever comes before it was put back in
this round, with its direction full.

**Slots and runs** (`ExecutorRunProofs`).

| Theorem | Property |
|---|---|
| `RunsCorrect` | the inductive invariant `RunInv` |
| `NoSlotLeaks` | `SlotIsBacked` |
| `TokenMeansPaused` | `CancelledIffPaused` |
| `StopIsFinal` | `NoRequestAfterStop` |

`RunInv` adds that no run is in two slots, without which a run that pauses one key
might flip the token of another, and that a closed scheduler has no slots, since
the runs that back them are dropped with the runtime. A handler is judged by the
slots it leaves: each must have been there before with the same run, and what
backed it must still be there (`SlotsKept`). The event that is taken from the
channel backs at most the slot it frees. A slot that is given out is given to a name
that is free, which is why the names of runs on their way through the event channel
are not used again (`FreeRun`; in the code tokens are objects and cannot clash).
`StopIsFinal` needs only the types and the lemma `RunsGoOn`: nobody else moves a run or
takes a cancelled token back, and of the run's own steps only `Check` enters a request.

**The life cycle** (`LifecycleProofs`).

| Theorem | Property |
|---|---|
| `IdsAreSubmittedOnce` | the inductive invariant `SubmittedOnce` |
| `LifecycleImplemented` | `ImplementsLifecycle` |

That a move is legal rests on `TableInv`: what is paused, waiting or running is where the
move says it comes from (`Places`), one task leads a key (`IdsMatchGroups`), and the slots
that `try_start_next` counts are those of the tasks running or stopping (`SlotHolders`).
It says nothing of tasks outside the tables: that a task is admitted once, and after its
end is not new again, needs the commands and the reports.
`SubmittedOnce` says that an id is in the command channel once, that nothing has been
told of it while it waits there, and that a leader has been told of. It holds since
every task gets an id of its own (`TaskId::new_v4`). The proof goes through the actions:
one moves one task (`MoveIs`, `EndIs`), `Close` ends all, the rest move none. A late event
that ends a successor is the legal move `End` of that successor; that it should not
have been moved is the subject of `OnlySlotHoldersGoOn`.

**Tasks with keys of their own** (`SoleTaskProofs`). Hypothesis `OneTaskPerKey`: no
two tasks have one key, that is, callers enqueue each file or URL once.

| Theorem | Property |
|---|---|
| `SoleTasksCorrect` | the inductive invariant `SoleInv` |
| `NothingRunsUnseen` | `OnlySlotHoldersGoOn` |
| `RunsAreSingle` | `OneRunPerTask` |
| `EndsAreFinal` | `TerminalIsFinal` |

Without the hypothesis the first two properties are false of the code: `unseen_run` shows
how the late event of one task ends the next, `two_runs.cfg` how it frees the slot under a
paused one. `two_directions` is an instance that
satisfies it. `SoleInv` says what makes the difference. A run sends one last event and
is over then (`LastEvents`). Who still runs, or has just stopped, is in the slot of its
key, or its task has ended and it was told to stop (`OwnSlot`). So a late event finds
its own slot, or a key whose task has ended and, being the only one, does not come back.
That is also why a task has one run (`OneRunKept`): a second one would start while the
first holds the slot, or without a group.
`StillOpen` says that a leader was not told of an end, which with `SubmittedOnce`
leaves nobody who could be told of twice.

**The download** (`DownloadProofs`, assumption `DownloadAssumption`).

| Theorem | Property |
|---|---|
| `DownloadCorrect` | the inductive invariant `DownloadInv` |
| `DownloadTypeOK` | `TypeOK` |
| `NothingWrongInFile` | `ContentIsRight` |
| `WritesJoin` | `NoGapAhead` |
| `CompleteLands` | `CompletedLandsWhole` |
| `ClientKeepsContract` | `ImplementsRunGroup` |

Part of the invariant holds of every run (`GoodRun`, `GoodLanding`): whatever the
server puts into its headers, an accepted body is what the remote holds from the run's
offset on, and a run that has a chunk left to fetch is not behind the remote's end. As
long as no body reached behind that end, no run, body or file does (`WithinRemote`, and
the third part of `Ahead`). The rest (`Alone`) is claimed only while no run was started
beside a live one. Its core is `Ahead`: a run that has looked at the file is not ahead of it, unless
its own write is under way or has failed. The difficulty is the write of a
predecessor that lands after the look. It makes the file longer than the run
believes, never shorter, so `offset <= length` stays; and a run at offset 0, the only
one that empties the file, can only meet a late write that starts at 0 as well, so
that no landing leaves a gap. The length check before the first write then refuses a
run whose offset is not the length. `CompletedLandsWhole` follows because the write
that reaches the end of the file is in the background, has landed or has failed; that the
file is then no longer than the remote is where `WithinRemote` is needed.

**The upload** (`UploadProofs`, assumption `UploadAssumption`).

| Theorem | Property |
|---|---|
| `UploadCorrect` | the inductive invariant `UploadInv` |
| `TypeCorrect` | `TypeOK` |
| `CompleteMeansStored` | `CompletedIsStored` |
| `NoChunkPassedOver` | `NeverAhead` |
| `ClientKeepsContract` | `ImplementsRunGroup` |

`CompletedIsStored` speaks of the last step of a run, and what makes
it true lies as far back as the answer that was on its way when the run was paused.
`GoodRun` says of a run, its answer and the offset recorded for the next one that
they reach the end of the file only when the server holds all of it. That never
becomes false again, since only an unfinished upload is dropped. The second half of
`GoodRun`, that nobody is ahead of the server, is what a drop destroys; hence the
ghost `dropped` in it. `NeverAhead` is not inductive because of the acknowledgement
on its way, which lets the run go one chunk further than its offset.

Both `ClientKeepsContract` show for every step of the client which step of `RunGroup`
it is, or that `RunGroup` does not see it, with the invariant for what the guards
alone do not say (an accepted body or an acknowledged run has something left to move,
a run in backoff an attempt).

**The client** (`MeowClientProofs`, assumption `ClientAssumption`).

| Theorem | Property |
|---|---|
| `ClientCorrect` | the inductive invariant `ClientInv` |
| `ClientTypeOK` | `TypeOK` |
| `HandlesMeetOneExecutor` | `OneExecutorPerHandle` |
| `ClosesOnce` | `CloseIsFinal` |
| `NothingAfterClose` | `ClosedExecutorIsEmpty` |
| `CommandsFindTheirTask` | `AcceptedIsFound` |
| `SubmittedReachesScheduler` | `SubmittedIsAdmitted` |

`CloseIsFinal` needs `OneOwner`: the closed flag belongs to the one close that has won
the compare-exchange and has not given up, through all the steps in which it may still
set it back. `AcceptedIsFound` speaks of an answer, and an answer is made when the
command is taken from the channel, so `AcceptedIsKnown` follows both into the channel:
what was accepted is known, is over (`Known` joins the two) or waits there, and no
command for it waits before it. `over` only grows, and `TaskEndsKeeps` and the cancel in
`TakeKeeps` move a task from the one to the other. A caller learns the id
only after the send, so the order of the channel is the order of the two sends. The
proof goes by the stretches of a call that `MovesTo` describes, and one lemma each for
the sends, the scheduler's steps and the end of an executor.

**Checked as well as proved.** TLC finds each inductive invariant true too: `TableInv`, `RunInv`
and `SubmittedOnce` on the instances of `shared_key` and `one_key`, `SoleInv` on that of
`two_directions` (with two places in the event channel), `DownloadInv`, `UploadInv` and
`ClientInv` on those of their runs. The runs listed above check what the invariants are
for, not the invariants.

**Only model-checked.** The two `Settles`: liveness under fairness, and `ENABLED`, are
beyond the proof system. The properties of the violation runs and configurations are false, which TLC
shows.

## 6. Not modelled, and the plan

Not modelled, with reasons:

- The registry of global listeners: a list behind a lock. Reports are told to a
  copy of it, and no other state depends on it. What a callback does, a call of the
  client from within it for instance, is the user's code.
- The length of the backoff. It changes no order of steps.
- Widths of integers in `range_spec` and in the body length: one expression each,
  overflowing only at the very end of the range.
- A remote file that changes under a download: no validator is sent, so a resumed
  download may mix two versions whenever the total stays the same.
- The file signature and builders, JSON and multipart formats, headers, error texts,
  the debug log, the snapshot: data or pure I/O.

Next: `OnlySlotHoldersGoOn`, `OneRunPerTask` and `TerminalIsFinal` for callers that
enqueue a file again only after its run has stopped, which is weaker than
`OneTaskPerKey`; the registry of listeners.
