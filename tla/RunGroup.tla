------------------------------ MODULE RunGroup ------------------------------
(***************************************************************************)
(* One spawned transfer: run_group and transfer_chunk_with_retry. A run    *)
(* shares with the scheduler only its cancel token and the event channel.  *)
(* What the server and the disk answer is a nondeterministic choice.       *)
(***************************************************************************)
EXTENDS ExecState

\* TransferTrait::prepare, as DefaultHttpClient answers it: an upload goes on
\* from the larger of its own offset and the server's, a download from the
\* length of the local file.
UploadOffsets(startOffset) == startOffset..Size
DownloadOffsets == 0..Size

PreparedOffsets(k, startOffset) ==
  IF Direction[k] = "Upload" THEN UploadOffsets(startOffset) ELSE DownloadOffsets

\* TransferTrait::transfer_chunk: an upload chunk ends one chunk further, or
\* at the end when the server says the file is complete; a download chunk
\* ends where the server's Content-Range ends, which may be behind the total.
\* At the end of the file there is nothing to transfer.
UploadChunkEnds(offset)   == IF offset >= Size THEN {offset} ELSE {offset + 1, Size}
DownloadChunkEnds(offset) == IF offset >= Size THEN {offset} ELSE (offset + 1)..Last
ChunkEnds(k, offset) ==
  IF Direction[k] = "Upload" THEN UploadChunkEnds(offset) ELSE DownloadChunkEnds(offset)

Prepare(r) ==
  /\ runs[r].pc = "prepare"
  /\ \E o \in PreparedOffsets(RunKey(r), runs[r].offset) :
       runs' = [runs EXCEPT ![r].pc = "check", ![r].offset = o]
  /\ UNCHANGED <<tables, control, cmds, events, reported, issued>>

\* The cancel checks before every attempt, in run_group and in the retry loop.
Check(r) ==
  /\ runs[r].pc = "check" /\ ~runs[r].cancelled
  /\ runs' = [runs EXCEPT ![r].pc = "transfer"]
  /\ UNCHANGED <<tables, control, cmds, events, reported, issued>>

ObserveCancelSilently(r) ==  \* Bug: the run returns without a word.
  /\ runs[r].pc \in {"check", "backoff"} /\ runs[r].cancelled
  /\ runs' = [runs EXCEPT ![r] = IdleRun]
  /\ UNCHANGED <<tables, control, cmds, events, reported, issued>>

\* The token is seen before an attempt or during the backoff wait; never
\* inside a request.
ObserveCancel(r) ==
  /\ runs[r].pc \in {"check", "backoff"} /\ runs[r].cancelled
  /\ CanSend
  /\ events' = Send("Canceled", r, 0)
  /\ runs' = [runs EXCEPT ![r] = IdleRun]
  /\ UNCHANGED <<tables, control, cmds, reported, issued>>

TransferChunk(r) ==
  /\ runs[r].pc = "transfer"
  /\ CanSend
  /\ \E next \in ChunkEnds(RunKey(r), runs[r].offset) :
       /\ events' = Send("Progress", r, next)
       /\ runs' = [runs EXCEPT
                     ![r].pc = IF next >= Size THEN "completing" ELSE "check",
                     ![r].offset = next,
                     ![r].attempt = 0]
  /\ UNCHANGED <<tables, control, cmds, reported, issued>>

Complete(r) ==
  /\ runs[r].pc = "completing"
  /\ CanSend
  /\ events' = Send("Completed", r, Size)
  /\ runs' = [runs EXCEPT ![r] = IdleRun]
  /\ UNCHANGED <<tables, control, cmds, reported, issued>>

ScheduleRetryOffByOne(r) ==  \* Bug: attempt > max instead of attempt >= max gives up.
  /\ runs[r].pc = "transfer" /\ runs[r].attempt <= MaxRetries
  /\ runs' = [runs EXCEPT ![r].pc = "backoff"]
  /\ UNCHANGED <<tables, control, cmds, events, reported, issued>>

\* A retryable error with attempts left.
ScheduleRetry(r) ==
  /\ runs[r].pc = "transfer" /\ runs[r].attempt < MaxRetries
  /\ runs' = [runs EXCEPT ![r].pc = "backoff"]
  /\ UNCHANGED <<tables, control, cmds, events, reported, issued>>

BackoffEndsUncounted(r) ==  \* Bug: the attempt is not counted.
  /\ runs[r].pc = "backoff"
  /\ runs' = [runs EXCEPT ![r].pc = "check"]
  /\ UNCHANGED <<tables, control, cmds, events, reported, issued>>

BackoffEndsUnchecked(r) ==  \* Bug: the request follows without a look at the token.
  /\ runs[r].pc = "backoff"
  /\ runs' = [runs EXCEPT ![r].pc = "transfer", ![r].attempt = @ + 1]
  /\ UNCHANGED <<tables, control, cmds, events, reported, issued>>

\* The sleep ends; the select may take this branch with the token cancelled.
BackoffEnds(r) ==
  /\ runs[r].pc = "backoff"
  /\ runs' = [runs EXCEPT ![r].pc = "check", ![r].attempt = @ + 1]
  /\ UNCHANGED <<tables, control, cmds, events, reported, issued>>

\* prepare fails (it is not retried), a chunk fails for good or with its
\* attempts used up, or the run panics and the task around it reports that.
Fail(r) ==
  /\ runs[r].pc \in {"prepare", "transfer"}
  /\ CanSend
  /\ events' = Send("Failed", r, 0)
  /\ runs' = [runs EXCEPT ![r] = IdleRun]
  /\ UNCHANGED <<tables, control, cmds, reported, issued>>

\* The runtime is dropped when the scheduler has left its loop: the run stops
\* at an await point.
Abort(r) ==
  /\ pc = "closed" /\ Live(r)
  /\ runs' = [runs EXCEPT ![r] = IdleRun]
  /\ UNCHANGED <<tables, control, cmds, events, reported, issued>>

RunStep(r) ==
  \/ Prepare(r) \/ Check(r) \/ ObserveCancel(r) \/ TransferChunk(r)
  \/ Complete(r) \/ ScheduleRetry(r) \/ BackoffEnds(r) \/ Fail(r) \/ Abort(r)
=============================================================================
