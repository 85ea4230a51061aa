------------------------------ MODULE Download ------------------------------
(***************************************************************************)
(* The download half of DefaultHttpClient: the runs that write one local   *)
(* file, with the file, the handle each run keeps and the write that       *)
(* tokio::fs::File finishes in the background. Every await of              *)
(* download_prepare and download_one_chunk ends a step, so runs, pauses,   *)
(* cancels, late writes and a crash of the process come in between.        *)
(*                                                                         *)
(* One unit of offset stands for any number of bytes. Simplifications: the *)
(* file belongs to one URL; parent directories and the headers sent are    *)
(* left out; a chunk is handed to the background write in one piece.       *)
(***************************************************************************)
EXTENDS Integers, FiniteSets

CONSTANTS
  Runs,         \* names for the runs alive at one moment, as in ExecState
  Size,         \* the remote length, Content-Length of the HEAD answer
  MaxRetries,   \* InnerTask::max_chunk_retries
  Beyond,       \* bounds how far behind the remote's end the local file or an
                \* answer may reach; the code has no such bound
  NoRun

ASSUME DownloadAssumption ==
  /\ IsFiniteSet(Runs) /\ Runs \subseteq Nat /\ NoRun \notin Runs
  /\ Size \in Nat \ {0} /\ MaxRetries \in Nat /\ Beyond \in Nat

Last   == Size + Beyond
Remote == 0..(Size - 1)

VARIABLES
  length,    \* length of the local file, 0 when there is none
  wrong,     \* positions of the remote in the file that do not hold its unit
  runs,      \* the runs with the TransferTask and the slot of each
  landing,   \* run -> the write its file handle has in the background
  slot,      \* the run that active holds for the URL, or NoRun
  complete,  \* ghost: the last end of a run was Complete
  lost,      \* ghost: since the last start a background write has failed
  shared,    \* ghost: a run was started beside a live one
  overlong,  \* ghost: a body reaching behind the remote's end was accepted
  gaveUp     \* ghost: since the last start a server error ended a run that
             \* had attempts left

file   == <<length, wrong>>
ghosts == <<complete, lost, shared, overlong, gaveUp>>
vars   == <<file, runs, landing, slot, ghosts>>

\* len units of the remote from position "from" on, to be written at "at".
Write   == [at : 0..Last, from : 0..Last, len : 0..Last]
NoWrite == [at |-> 0, from |-> 0, len |-> 0]

Run == [pc : {"idle", "stat", "head", "check", "get", "open", "meta", "write",
              "backoff", "completing"},
        offset : 0..Last,
        attempt : 0..MaxRetries,
        cancelled : BOOLEAN,
        open : BOOLEAN,         \* download_file_slot holds a handle
        writeError : BOOLEAN,   \* File::last_write_err of that handle
        body : Write]           \* the accepted body, before it is written

IdleRun == [pc |-> "idle", offset |-> 0, attempt |-> 0, cancelled |-> FALSE,
            open |-> FALSE, writeError |-> FALSE, body |-> NoWrite]

Live(r)    == runs[r].pc # "idle"
FreeRun(r) == ~Live(r) /\ landing[r] = NoWrite

\* A write of w, or of its first part only, makes the file longer when it
\* starts at or before the end, and leaves a gap when it starts behind it.
Cells(w) == w.at..(w.at + w.len - 1)
PutInFile(w) ==
  /\ length' = IF w.len > 0 /\ w.at + w.len > length THEN w.at + w.len ELSE length
  /\ wrong' = Remote \cap ((wrong \ Cells(w))
                          \cup (IF w.len > 0 THEN length..(w.at - 1) ELSE {})
                          \cup (IF w.from = w.at THEN {} ELSE Cells(w)))

\* The local file is what an earlier process left: a part of the remote, all
\* of it, or a file longer than the remote is now.
Init ==
  /\ length \in 0..Last /\ wrong = {}
  /\ runs = [r \in Runs |-> IdleRun]
  /\ landing = [r \in Runs |-> NoWrite]
  /\ slot = NoRun
  /\ complete = FALSE /\ lost = FALSE /\ shared = FALSE
  /\ overlong = FALSE /\ gaveUp = FALSE

-----------------------------------------------------------------------------
\* What the scheduler does to the runs of one URL (see Scheduler).
\* StartFront: the URL holds no slot. Each run gets a TransferTask of its own,
\* with no file handle.
Start(r) ==
  /\ slot = NoRun /\ FreeRun(r)
  /\ runs' = [runs EXCEPT ![r] = [IdleRun EXCEPT !.pc = "stat"]]
  /\ slot' = r
  /\ shared' = (shared \/ \E s \in Runs : Live(s))
  /\ complete' = FALSE /\ lost' = FALSE /\ gaveUp' = FALSE
  /\ UNCHANGED <<file, landing, overlong>>

\* pause_group: the slot stays taken until the run has stopped.
Pause ==
  /\ slot # NoRun /\ ~runs[slot].cancelled
  /\ runs' = [runs EXCEPT ![slot].cancelled = TRUE]
  /\ UNCHANGED <<file, landing, slot, ghosts>>

\* cancel_group: the slot is free at once, for the next task with the URL.
CancelTask ==
  /\ slot # NoRun
  /\ runs' = [runs EXCEPT ![slot].cancelled = TRUE]
  /\ slot' = NoRun
  /\ UNCHANGED <<file, landing, ghosts>>

\* The run is over and its event, which names the key only, frees the slot.
Stop(r, done) ==
  /\ runs' = [runs EXCEPT ![r] = IdleRun]
  /\ slot' = NoRun
  /\ complete' = done
  /\ UNCHANGED <<file, landing, lost, shared, overlong>>
End(r, done) == Stop(r, done) /\ UNCHANGED gaveUp

\* Close: the runtime is dropped, the runs stop at an await. A background
\* write that has begun is still finished.
Shutdown ==
  /\ \E r \in Runs : Live(r)
  /\ runs' = [r \in Runs |-> IdleRun]
  /\ slot' = NoRun
  /\ UNCHANGED <<file, landing, ghosts>>

\* The process dies: only the file is left, and nobody who was told anything.
Crash ==
  /\ \E r \in Runs : ~FreeRun(r)
  /\ runs' = [r \in Runs |-> IdleRun]
  /\ landing' = [r \in Runs |-> NoWrite]
  /\ slot' = NoRun
  /\ complete' = FALSE
  /\ UNCHANGED <<file, lost, shared, overlong, gaveUp>>

-----------------------------------------------------------------------------
\* download_prepare goes on from the length of the local file and does not
\* look at the scheduler's offset.
Stat(r) ==
  /\ runs[r].pc = "stat"
  /\ runs' = [runs EXCEPT ![r].pc = "head", ![r].offset = length]
  /\ UNCHANGED <<file, landing, slot, ghosts>>

PrepareTooLong(r) ==  \* Bug: a local file longer than the remote is let through.
  /\ runs[r].pc = "head"
  /\ runs' = [runs EXCEPT ![r].pc = "check"]
  /\ UNCHANGED <<file, landing, slot, ghosts>>

\* The HEAD answer gives the total; a longer local file fails the task.
Prepare(r) ==
  /\ runs[r].pc = "head" /\ runs[r].offset <= Size
  /\ runs' = [runs EXCEPT ![r].pc = "check"]
  /\ UNCHANGED <<file, landing, slot, ghosts>>

\* stat, HEAD, its status or its Content-Length fail; prepare is not retried.
PrepareFails(r) ==
  /\ runs[r].pc \in {"stat", "head"}
  /\ End(r, FALSE)

\* The cancel checks of run_group and transfer_chunk_with_retry.
Check(r) ==
  /\ runs[r].pc = "check" /\ ~runs[r].cancelled
  /\ runs' = [runs EXCEPT ![r].pc = "get"]
  /\ UNCHANGED <<file, landing, slot, ghosts>>

ObserveCancel(r) ==
  /\ runs[r].pc \in {"check", "backoff"} /\ runs[r].cancelled
  /\ End(r, FALSE)

NothingLeftEarly(r) ==  \* Bug: offset is compared with the last position.
  /\ runs[r].pc = "get" /\ runs[r].offset + 1 >= Size
  /\ runs' = [runs EXCEPT ![r].pc = "completing", ![r].attempt = 0]
  /\ UNCHANGED <<file, landing, slot, ghosts>>

\* download_one_chunk when nothing is left to fetch.
NothingLeft(r) ==
  /\ runs[r].pc = "get" /\ runs[r].offset >= Size
  /\ runs' = [runs EXCEPT ![r].pc = "completing", ![r].attempt = 0]
  /\ UNCHANGED <<file, landing, slot, ghosts>>

\* An answer to the ranged GET: status, the three numbers of Content-Range and
\* the length of the body. The body is what the remote holds from "start" on;
\* whatever it carries for positions behind the remote's end is not the remote's.
Answers == [status : {"206", "5xx", "other"},
            start : 0..(Last - 1), end : 0..(Last - 1),
            total : {"same", "changed"},   \* "*" counts as the same
            len : 0..Last]

\* parse_content_range refuses a range that ends before it starts.
ValidRange(a) == a.start <= a.end

AcceptsAnyStart(a, offset) ==  \* Bug: the start of the range is not compared.
  /\ a.status = "206" /\ ValidRange(a) /\ a.total # "changed"
  /\ a.len # 0 /\ a.len = a.end - a.start + 1
AcceptsAnyLength(a, offset) ==  \* Bug: neither length check of the body.
  /\ a.status = "206" /\ ValidRange(a) /\ a.start = offset
  /\ a.total # "changed"

\* The checks of download_one_chunk, up to the write. Nothing compares the end
\* of the range with the total.
Accepts(a, offset) ==
  /\ a.status = "206"
  /\ ValidRange(a)
  /\ a.start = offset
  /\ a.total # "changed"
  /\ a.len # 0 /\ a.len = a.end - a.start + 1

\* Nothing but the range decides how much an answer carries: it may end before
\* or behind the end that was asked for, and behind the remote's.
Receive(r) ==
  /\ runs[r].pc = "get" /\ runs[r].offset < Size
  /\ \E a \in {b \in Answers : Accepts(b, runs[r].offset)} :
       runs' = [runs EXCEPT
                  ![r].pc = "open",
                  ![r].body = [at |-> runs[r].offset, from |-> a.start, len |-> a.len]]
  /\ overlong' = (overlong \/ runs'[r].body.at + runs'[r].body.len > Size)
  /\ UNCHANGED <<file, landing, slot, complete, lost, shared, gaveUp>>

\* Any other answer is an InvalidRange, a server error too: not retried.
Refuse(r) ==
  /\ runs[r].pc = "get" /\ runs[r].offset < Size
  /\ \E status \in {a.status : a \in {b \in Answers : ~Accepts(b, runs[r].offset)}} :
       gaveUp' = (gaveUp \/ (status = "5xx" /\ runs[r].attempt < MaxRetries))
  /\ Stop(r, FALSE)

\* The request or the body ends in a network error, the only kind of error
\* of a download chunk that is retried.
RequestFails(r) ==
  /\ runs[r].pc = "get" /\ runs[r].offset < Size
  /\ IF runs[r].attempt < MaxRetries
     THEN /\ runs' = [runs EXCEPT ![r].pc = "backoff"]
          /\ UNCHANGED <<file, landing, slot, ghosts>>
     ELSE End(r, FALSE)

BackoffEnds(r) ==
  /\ runs[r].pc = "backoff"
  /\ runs' = [runs EXCEPT ![r].pc = "check", ![r].attempt = @ + 1]
  /\ UNCHANGED <<file, landing, slot, ghosts>>

-----------------------------------------------------------------------------
\* The first chunk creates the file or empties it; a later one opens it
\* without touching it, unless the run has it open already.
Open(r) ==
  /\ runs[r].pc = "open"
  /\ IF runs[r].offset = 0
     THEN length' = 0 /\ wrong' = {} ELSE UNCHANGED file
  /\ runs' = [runs EXCEPT
                ![r].pc = IF runs[r].offset = 0 \/ runs[r].open THEN "write" ELSE "meta",
                ![r].open = runs[r].offset = 0 \/ runs[r].open]
  /\ UNCHANGED <<landing, slot, ghosts>>

\* The length of the file just opened must be the offset.
Metadata(r) ==
  /\ runs[r].pc = "meta" /\ length = runs[r].offset
  /\ runs' = [runs EXCEPT ![r].pc = "write", ![r].open = TRUE]
  /\ UNCHANGED <<file, landing, slot, ghosts>>

LengthMismatch(r) ==
  /\ runs[r].pc = "meta" /\ length # runs[r].offset
  /\ End(r, FALSE)

\* create, open, metadata or seek fail.
DiskFails(r) ==
  /\ runs[r].pc \in {"open", "meta", "write"}
  /\ End(r, FALSE)

\* seek waits for the write in the background; then write_all hands over the
\* chunk and returns, and the chunk counts as transferred.
WriteChunk(r) ==
  /\ runs[r].pc = "write" /\ landing[r] = NoWrite /\ ~runs[r].writeError
  /\ landing' = [landing EXCEPT ![r] = runs[r].body]
  /\ LET next == runs[r].offset + runs[r].body.len
     IN  runs' = [runs EXCEPT
                    ![r].pc = IF next >= Size THEN "completing" ELSE "check",
                    ![r].offset = next, ![r].attempt = 0, ![r].body = NoWrite]
  /\ UNCHANGED <<file, slot, ghosts>>

WriteIgnoresError(r) ==  \* Bug: the chunk is written after a failed one.
  /\ runs[r].pc = "write" /\ landing[r] = NoWrite /\ runs[r].writeError
  /\ landing' = [landing EXCEPT ![r] = runs[r].body]
  /\ runs' = [runs EXCEPT ![r].pc = "check", ![r].offset = @ + runs[r].body.len,
                          ![r].body = NoWrite]
  /\ UNCHANGED <<file, slot, ghosts>>

\* The error of a background write surfaces at the next write of the handle.
WriteReportsError(r) ==
  /\ runs[r].pc = "write" /\ landing[r] = NoWrite /\ runs[r].writeError
  /\ End(r, FALSE)

\* tokio's blocking thread finishes the write, also when the run is over.
Land(r) ==
  /\ landing[r] # NoWrite
  /\ PutInFile(landing[r])
  /\ landing' = [landing EXCEPT ![r] = NoWrite]
  /\ UNCHANGED <<runs, slot, ghosts>>

\* The write fails after a part of it, a full disk for instance. The handle
\* remembers the error; nobody sees it when no write follows.
LandFails(r) ==
  /\ landing[r] # NoWrite
  /\ \E n \in 0..(landing[r].len - 1) : PutInFile([landing[r] EXCEPT !.len = n])
  /\ landing' = [landing EXCEPT ![r] = NoWrite]
  /\ runs' = [runs EXCEPT ![r].writeError = Live(r)]
  /\ lost' = TRUE
  /\ UNCHANGED <<slot, complete, shared, overlong, gaveUp>>

Complete(r) ==
  /\ runs[r].pc = "completing"
  /\ End(r, TRUE)

-----------------------------------------------------------------------------
RunStep(r) ==
  \/ Stat(r) \/ Prepare(r) \/ PrepareFails(r)
  \/ Check(r) \/ ObserveCancel(r)
  \/ NothingLeft(r) \/ Receive(r) \/ Refuse(r) \/ RequestFails(r) \/ BackoffEnds(r)
  \/ Open(r) \/ Metadata(r) \/ LengthMismatch(r) \/ DiskFails(r)
  \/ WriteChunk(r) \/ WriteReportsError(r)
  \/ Complete(r)
Disk(r)     == Land(r) \/ LandFails(r)
Environment == Pause \/ CancelTask \/ Shutdown \/ Crash

Next == Environment \/ \E r \in Runs : Start(r) \/ RunStep(r) \/ Disk(r)
Spec == Init /\ [][Next]_vars

-----------------------------------------------------------------------------
\* Every variable holds a value of its kind, and no run that still has a chunk
\* to fetch is behind the remote's end.
TypeOK ==
  /\ length \in 0..Last /\ wrong \subseteq Remote
  /\ runs \in [Runs -> Run] /\ landing \in [Runs -> Write]
  /\ \A r \in Runs :
       runs[r].pc \notin {"idle", "stat", "head", "completing"} => runs[r].offset <= Size
  /\ slot \in Runs \cup {NoRun}
  /\ {complete, lost, shared, overlong, gaveUp} \subseteq BOOLEAN

\* As long as no run is started beside a live one, every position of the remote
\* that is in the local file holds the remote's unit: over pauses and quick
\* resumes with a write still in the background, failed writes, retries,
\* shutdowns and crashes, and whichever range, total and length of body the
\* server answers with. It says nothing of what lies behind the remote's end.
ContentIsRight == ~shared => wrong = {}

\* A write never starts behind the end of the file: neither one that is in the
\* background, nor one that a run with an open file goes on to make.
NoGapAhead ==
  ~shared => \A r \in Runs :
    /\ landing[r] # NoWrite => landing[r].at <= length
    /\ runs[r].open /\ ~runs[r].writeError /\ landing[r] = NoWrite
       => runs[r].offset <= length

AllLanded == \A r \in Runs : landing[r] = NoWrite

\* A completed download holds all of the remote as soon as its writes have
\* landed, unless one of them failed; and it holds nothing more, unless an
\* answer that reached behind the remote's end was accepted.
CompletedLandsWhole ==
  complete /\ ~shared /\ ~lost /\ AllLanded
  => length >= Size /\ wrong = {} /\ (overlong \/ length = Size)

\* When a download is reported Complete the file is there (download_test.rs
\* reads it back after that status).
CompletedIsWhole == complete /\ ~shared => length >= Size /\ wrong = {}

\* A completed download whose writes have landed is no longer than the remote
\* (download_test.rs compares all bytes; a local file longer than the remote is
\* an InvalidRange in download_prepare).
CompletedIsExact == complete /\ ~shared /\ AllLanded => length <= Size

\* No gap and no foreign unit is ever in the remote's part of the file
\* (download_prepare: the local length is the start "to avoid holes").
FileHasNoHoles == wrong = {}

\* No server error ends a run that has attempts left (retry.rs: what is retried
\* are the codes of "transient failures of the network or the server").
TransientFailuresAreRetried == ~gaveUp

-----------------------------------------------------------------------------
\* The run as RunGroup knows it. The scheduler is not part of this module; its
\* pc is "closed" so that events are sent to nobody.
GroupPc(x) ==
  CASE x.pc \in {"stat", "head"} -> "prepare"
    [] x.pc \in {"get", "open", "meta", "write"} -> "transfer"
    [] OTHER -> x.pc
AsGroupRun(x) ==
  [task |-> IF x.pc = "idle" THEN "none" ELSE "task", pc |-> GroupPc(x),
   offset |-> IF GroupPc(x) = "prepare" THEN 0 ELSE x.offset,
   attempt |-> x.attempt, cancelled |-> x.cancelled]
GroupRuns == [r \in Runs |-> AsGroupRun(runs[r])]

Group == INSTANCE RunGroup WITH
  Keys <- {"url"}, TaskIds <- {"task"}, RunIds <- Runs,
  KeyOf <- [t \in {"task"} |-> "url"],
  Direction <- [k \in {"url"} |-> "Download"],
  MaxUpload <- 1, MaxDownload <- 1, CmdCap <- 1, EventCap <- 1,
  NoTask <- "none", NoKey <- "none",
  groups <- <<>>, taskIdToDedupe <- <<>>, queued <- <<>>, queuedSet <- {},
  pausedSet <- {}, active <- <<>>, offsets <- <<>>, pc <- "closed",
  scanLeft <- 0, scheduled <- FALSE, cmds <- <<>>, events <- <<>>,
  runs <- GroupRuns, reported <- <<>>, issued <- {}

RunGroupStep ==
  \/ Environment
  \/ \E r \in Runs :
       \/ Start(r)
       \/ Group!Prepare(r) \/ Group!Check(r) \/ Group!ObserveCancel(r)
       \/ Group!TransferChunk(r) \/ Group!Complete(r)
       \/ Group!ScheduleRetry(r) \/ Group!BackoffEnds(r) \/ Group!Fail(r)

\* The client keeps to what RunGroup takes for granted of it: prepare gives an
\* offset inside the remote file, a chunk ends further on, the run completes
\* when the end is reached or passed, and it fails, retries and stops only where
\* RunGroup says so.
ImplementsRunGroup == [][RunGroupStep]_GroupRuns
=============================================================================
