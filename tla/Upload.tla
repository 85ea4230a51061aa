------------------------------- MODULE Upload -------------------------------
(***************************************************************************)
(* The upload half of DefaultHttpClient against a server that keeps the    *)
(* chunks: requests that are answered, answered too late or never, a       *)
(* server that drops an unfinished upload, runs that are paused, cancelled *)
(* and started again, and a client that dies.                              *)
(*                                                                         *)
(* The unit of offset is one chunk. The server is external: it takes a     *)
(* chunk that leaves no gap behind what it holds, and refuses another with *)
(* an error status. The source file is read without being modelled.        *)
(***************************************************************************)
EXTENDS Naturals, FiniteSets

CONSTANTS
  Runs,         \* names for the runs alive at one moment, as in ExecState
  Size,         \* chunks in the file
  MaxRetries,   \* InnerTask::max_chunk_retries
  NoRun

ASSUME UploadAssumption ==
  /\ IsFiniteSet(Runs) /\ Runs \subseteq Nat /\ NoRun \notin Runs
  /\ Size \in Nat \ {0} /\ MaxRetries \in Nat

VARIABLES
  held,      \* the server holds the chunks 0..held-1
  late,      \* chunks given up by their run that may still reach the server
  runs,      \* the runs with the answer that is on its way to each
  slot,      \* the run that active holds for the file, or NoRun
  paused,    \* the key of the file is in paused_set
  recorded,  \* offsets[key], the offset the next run starts from
  dropped    \* ghost: the server has dropped an unfinished upload

vars == <<held, late, runs, slot, paused, recorded, dropped>>

NoAnswer == [kind |-> "none", next |-> 0]
Answer   == [kind : {"none", "next", "complete", "refused"}, next : 0..Size]
Run      == [pc : {"idle", "prepare", "check", "transfer", "backoff", "completing"},
             offset : 0..Size, attempt : 0..MaxRetries, cancelled : BOOLEAN,
             answer : Answer]
IdleRun  == [pc |-> "idle", offset |-> 0, attempt |-> 0, cancelled |-> FALSE,
             answer |-> NoAnswer]

Live(r)     == runs[r].pc # "idle"
Answered(r) == runs[r].answer # NoAnswer
Larger(a, b) == IF a > b THEN a ELSE b
Smaller(a, b) == IF a < b THEN a ELSE b

Init ==
  /\ held = 0 /\ late = {}
  /\ runs = [r \in Runs |-> IdleRun]
  /\ slot = NoRun /\ paused = FALSE /\ recorded = 0 /\ dropped = FALSE

-----------------------------------------------------------------------------
\* What the scheduler does to the runs of one file (see Scheduler): a run
\* starts from the recorded offset, for a new task or a resumed one.
Start(r) ==
  /\ slot = NoRun /\ ~Live(r)
  /\ runs' = [runs EXCEPT ![r] = [IdleRun EXCEPT !.pc = "prepare", !.offset = recorded]]
  /\ slot' = r /\ paused' = FALSE
  /\ UNCHANGED <<held, late, recorded, dropped>>

Pause ==
  /\ slot # NoRun /\ ~paused
  /\ runs' = [runs EXCEPT ![slot].cancelled = TRUE]
  /\ paused' = TRUE
  /\ UNCHANGED <<held, late, slot, recorded, dropped>>

\* cancel_group leaves the recorded offset where it is.
CancelTask ==
  /\ slot # NoRun
  /\ runs' = [runs EXCEPT ![slot].cancelled = TRUE]
  /\ slot' = NoRun /\ paused' = FALSE
  /\ UNCHANGED <<held, late, recorded, dropped>>

\* Requests of the runs in rs that the server has not seen yet.
Unseen(rs) == {runs[r].offset : r \in {s \in rs : runs[s].pc = "transfer" /\ ~Answered(s)
                                                  /\ runs[s].offset < Size}}

\* The end of a run is told to the scheduler by key: the slot is free and the
\* recorded offset goes, whichever run it was.
End(r) ==
  /\ runs' = [runs EXCEPT ![r] = IdleRun]
  /\ late' = late \cup Unseen({r})
  /\ slot' = NoRun /\ paused' = FALSE /\ recorded' = 0
  /\ UNCHANGED <<held, dropped>>

\* The client is closed or dies; what it has sent may still arrive.
ClientStops ==
  /\ \E r \in Runs : Live(r)
  /\ runs' = [r \in Runs |-> IdleRun]
  /\ late' = late \cup Unseen(Runs)
  /\ slot' = NoRun /\ paused' = FALSE /\ recorded' = 0
  /\ UNCHANGED <<held, dropped>>

-----------------------------------------------------------------------------
\* The server.
Takes(chunk) == chunk <= held
HoldsWith(chunk) == IF Takes(chunk) THEN Larger(held, chunk + 1) ELSE held

\* The probe of prepare is answered with the next chunk the server wants, or
\* with the id of a file it has completed.
AnswerPrepare(r) ==
  /\ runs[r].pc = "prepare" /\ ~Answered(r)
  /\ runs' = [runs EXCEPT ![r].answer =
                [kind |-> IF held = Size THEN "complete" ELSE "next", next |-> held]]
  /\ UNCHANGED <<held, late, slot, paused, recorded, dropped>>

\* A chunk is stored and acknowledged, or refused because it leaves a gap. The
\* id of the completed file may be left out of the acknowledgement.
AnswerChunk(r) ==
  /\ runs[r].pc = "transfer" /\ runs[r].offset < Size /\ ~Answered(r)
  /\ held' = HoldsWith(runs[r].offset)
  /\ \E kind \in IF ~Takes(runs[r].offset) THEN {"refused"}
                 ELSE IF held' = Size THEN {"next", "complete"} ELSE {"next"} :
       runs' = [runs EXCEPT ![r].answer = [kind |-> kind, next |-> held']]
  /\ UNCHANGED <<late, slot, paused, recorded, dropped>>

ArriveLate(chunk) ==
  /\ held' = HoldsWith(chunk)
  /\ late' = late \ {chunk}
  /\ UNCHANGED <<runs, slot, paused, recorded, dropped>>

\* An unfinished upload expires.
Drop ==
  /\ 0 < held /\ held < Size
  /\ held' = 0 /\ dropped' = TRUE
  /\ UNCHANGED <<late, runs, slot, paused, recorded>>

-----------------------------------------------------------------------------
PreparedFromServer(r) == Smaller(runs[r].answer.next, Size)  \* Bug: the local offset is ignored.
PreparedBehind(r) ==  \* Bug: nextByte is taken for the last byte the server has.
  Smaller(Larger(runs[r].offset, runs[r].answer.next + 1), Size)

\* upload_prepare goes on from the larger of the local and the server's offset.
PreparedOffset(r) ==
  IF runs[r].answer.kind = "complete" THEN Size
  ELSE Smaller(Larger(runs[r].offset, runs[r].answer.next), Size)

Prepare(r) ==
  /\ runs[r].pc = "prepare" /\ Answered(r)
  /\ runs' = [runs EXCEPT ![r].pc = "check", ![r].offset = PreparedOffset(r),
                          ![r].answer = NoAnswer]
  /\ UNCHANGED <<held, late, slot, paused, recorded, dropped>>

\* The probe is not retried: any failure of it ends the run.
PrepareFails(r) ==
  /\ runs[r].pc = "prepare"
  /\ End(r)

\* The cancel checks of run_group and transfer_chunk_with_retry.
Check(r) ==
  /\ runs[r].pc = "check" /\ ~runs[r].cancelled
  /\ runs' = [runs EXCEPT ![r].pc = "transfer"]
  /\ UNCHANGED <<held, late, slot, paused, recorded, dropped>>

\* The Canceled event of a run: during a pause the offset is kept.
ObserveCancel(r) ==
  /\ runs[r].pc \in {"check", "backoff"} /\ runs[r].cancelled
  /\ runs' = [runs EXCEPT ![r] = IdleRun]
  /\ slot' = NoRun
  /\ recorded' = IF paused THEN recorded ELSE 0
  /\ UNCHANGED <<held, late, paused, dropped>>

\* A chunk is transferred: Progress records the offset under the key.
Advance(r, next) ==
  /\ runs' = [runs EXCEPT ![r].pc = IF next >= Size THEN "completing" ELSE "check",
                          ![r].offset = next, ![r].attempt = 0, ![r].answer = NoAnswer]
  /\ recorded' = next
  /\ UNCHANGED <<held, late, slot, paused, dropped>>

\* upload_one_chunk when nothing is left to send.
NothingLeft(r) ==
  /\ runs[r].pc = "transfer" /\ runs[r].offset >= Size
  /\ Advance(r, runs[r].offset)

ReceiveAnything(r) ==  \* Bug: the status of the answer is not looked at.
  /\ runs[r].pc = "transfer" /\ Answered(r)
  /\ Advance(r, IF runs[r].answer.kind = "complete" THEN Size ELSE runs[r].offset + 1)

\* An acknowledged chunk: the file id ends the upload, otherwise the offset
\* goes on by what was sent; nextByte is not looked at.
Receive(r) ==
  /\ runs[r].pc = "transfer" /\ runs[r].answer.kind \in {"next", "complete"}
  /\ Advance(r, IF runs[r].answer.kind = "complete" THEN Size ELSE runs[r].offset + 1)

RetryOffByOne(r) ==  \* Bug: attempt > max instead of attempt >= max gives up.
  /\ runs[r].pc = "transfer" /\ runs[r].offset < Size
  /\ runs[r].attempt <= MaxRetries
  /\ runs' = [runs EXCEPT ![r].pc = "backoff", ![r].answer = NoAnswer]
  /\ late' = late \cup Unseen({r})
  /\ UNCHANGED <<held, slot, paused, recorded, dropped>>

\* An error status, or a request that breaks down before or after the server
\* has seen it, is an HttpError: tried again while attempts are left.
Retry(r) ==
  /\ runs[r].pc = "transfer" /\ runs[r].offset < Size
  /\ runs[r].attempt < MaxRetries
  /\ runs' = [runs EXCEPT ![r].pc = "backoff", ![r].answer = NoAnswer]
  /\ late' = late \cup Unseen({r})
  /\ UNCHANGED <<held, slot, paused, recorded, dropped>>

BackoffEnds(r) ==
  /\ runs[r].pc = "backoff"
  /\ runs' = [runs EXCEPT ![r].pc = "check", ![r].attempt = @ + 1]
  /\ UNCHANGED <<held, late, slot, paused, recorded, dropped>>

\* No attempts left, or an error that is not retried: the source file cannot
\* be read, the answer cannot be parsed.
TransferFails(r) ==
  /\ runs[r].pc = "transfer" /\ runs[r].offset < Size
  /\ End(r)

Complete(r) ==
  /\ runs[r].pc = "completing"
  /\ End(r)

-----------------------------------------------------------------------------
RunStep(r) ==
  \/ Prepare(r) \/ PrepareFails(r) \/ Check(r) \/ ObserveCancel(r)
  \/ NothingLeft(r) \/ Receive(r) \/ Retry(r) \/ BackoffEnds(r)
  \/ TransferFails(r) \/ Complete(r)
Server ==
  \/ \E r \in Runs : AnswerPrepare(r) \/ AnswerChunk(r)
  \/ \E chunk \in late : ArriveLate(chunk)
  \/ Drop
Environment == Pause \/ CancelTask \/ ClientStops

Next == Environment \/ Server \/ \E r \in Runs : Start(r) \/ RunStep(r)
Spec == Init /\ [][Next]_vars

-----------------------------------------------------------------------------
\* Every variable holds a value of its kind.
TypeOK ==
  /\ held \in 0..Size /\ late \subseteq 0..(Size - 1)
  /\ runs \in [Runs -> Run]
  /\ slot \in Runs \cup {NoRun}
  /\ paused \in BOOLEAN /\ recorded \in 0..Size /\ dropped \in BOOLEAN

\* An upload is reported complete only when the server holds the whole file:
\* over lost and late answers, repeated chunks, pauses, runs that overlap after
\* a cancel, restarts of the client and uploads that the server has dropped.
CompletedIsStored == \A r \in Runs : runs[r].pc = "completing" => held = Size

\* As long as the server keeps what it acknowledged, neither a run nor the
\* offset recorded for the next one is ahead of it: no chunk is passed over.
NeverAhead ==
  dropped \/ /\ recorded <= held
             /\ \A r \in Runs : runs[r].offset <= held

-----------------------------------------------------------------------------
\* The run as RunGroup knows it. The scheduler is not part of this module; its
\* pc is "closed" so that events are sent to nobody.
AsGroupRun(x) ==
  [task |-> IF x.pc = "idle" THEN "none" ELSE "task", pc |-> x.pc,
   offset |-> x.offset, attempt |-> x.attempt, cancelled |-> x.cancelled]
GroupRuns == [r \in Runs |-> AsGroupRun(runs[r])]

Group == INSTANCE RunGroup WITH
  Keys <- {"file"}, TaskIds <- {"task"}, RunIds <- Runs,
  KeyOf <- [t \in {"task"} |-> "file"],
  Direction <- [k \in {"file"} |-> "Upload"],
  Beyond <- 0, MaxUpload <- 1, MaxDownload <- 1, CmdCap <- 1, EventCap <- 1,
  NoTask <- "none", NoKey <- "none",
  groups <- <<>>, taskIdToDedupe <- <<>>, queued <- <<>>, queuedSet <- {},
  pausedSet <- {}, active <- <<>>, offsets <- <<>>, pc <- "closed",
  scanLeft <- 0, scheduled <- FALSE, cmds <- <<>>, events <- <<>>,
  runs <- GroupRuns, reported <- <<>>, issued <- {}

RunGroupStep ==
  \/ Environment
  \/ \E r \in Runs :
       \/ Start(r)
       \/ Group!Prepare(r) \/ Group!Check(r) \/ Group!ObserveCancel(r)
       \/ Group!TransferChunk(r) \/ Group!Complete(r)
       \/ Group!ScheduleRetry(r) \/ Group!BackoffEnds(r) \/ Group!Fail(r)

\* The client keeps to what RunGroup takes for granted of it: prepare never
\* goes back behind the offset the run was started with, a chunk ends one
\* further on or at the end, and a run fails, retries and stops only where
\* RunGroup says so.
ImplementsRunGroup == [][RunGroupStep]_GroupRuns
=============================================================================
