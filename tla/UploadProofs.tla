---------------------------- MODULE UploadProofs ----------------------------
(***************************************************************************)
(* An upload is complete only when the server has the whole file, and no   *)
(* run is ahead of a server that keeps what it acknowledged: proofs for    *)
(* every size of the file, every number of runs and every retry limit.     *)
(***************************************************************************)
EXTENDS Upload, TLAPS

USE UploadAssumption

\* What a run relies on when the server holds h chunks and has dropped an
\* unfinished upload (d) or not. The first conjuncts hold for any server: a
\* run believes in a whole file only when there is one, and then it stays. The
\* last two need a server that keeps what it acknowledged.
GoodRun(x, h, d) ==
  /\ x \in Run
  /\ x.answer # NoAnswer => x.pc \in {"prepare", "transfer"}
  /\ x.pc = "transfer" /\ x.answer # NoAnswer => x.offset < Size
  /\ x.pc = "completing" => x.offset = Size
  /\ x.pc = "backoff" => x.attempt < MaxRetries
  /\ x.offset = Size \/ x.answer.kind = "complete" \/ x.answer.next = Size => h = Size
  /\ x.pc = "transfer" /\ x.answer.kind = "next" /\ x.offset + 1 = Size => h = Size
  /\ d \/ (x.offset <= h /\ x.answer.next <= h)
  /\ d \/ (x.pc = "transfer" /\ x.answer.kind = "next" => x.offset + 1 <= h)

UploadInv ==
  /\ held \in 0..Size /\ late \subseteq 0..(Size - 1)
  /\ slot \in Runs \cup {NoRun} /\ paused \in BOOLEAN /\ dropped \in BOOLEAN
  /\ recorded \in 0..Size
  /\ recorded = Size => held = Size
  /\ dropped \/ recorded <= held
  /\ runs \in [Runs -> Run]
  /\ \A r \in Runs : GoodRun(runs[r], held, dropped)

-----------------------------------------------------------------------------
\* A server that has more than before disturbs no run.
LEMMA MoreIsGood ==
  ASSUME NEW x, NEW h \in 0..Size, NEW g \in 0..Size, h <= g, NEW d \in BOOLEAN,
         GoodRun(x, h, d)
  PROVE  GoodRun(x, g, d)
<1>1. x.offset \in 0..Size /\ x.answer.next \in 0..Size
  BY DEF GoodRun, Run, Answer
<1>2. QED
  BY <1>1 DEF GoodRun

\* A server that drops an unfinished upload disturbs no run either.
LEMMA DroppedIsGood ==
  ASSUME NEW x, NEW h \in 0..Size, h # Size, NEW d \in BOOLEAN, GoodRun(x, h, d)
  PROVE  GoodRun(x, 0, TRUE)
BY DEF GoodRun

LEMMA NoAnswerType == NoAnswer \in Answer
BY DEF NoAnswer, Answer

\* A run that is over is good.
LEMMA IdleIsGood ==
  ASSUME NEW h \in 0..Size, NEW d \in BOOLEAN
  PROVE  GoodRun(IdleRun, h, d)
BY DEF GoodRun, IdleRun, Run, Answer, NoAnswer

\* A step that replaces one run by a good one keeps all runs good.
LEMMA OneRunStep ==
  ASSUME UploadInv, NEW r \in Runs, NEW x, runs' = [runs EXCEPT ![r] = x],
         GoodRun(x, held, dropped)
  PROVE  runs' \in [Runs -> Run] /\ \A s \in Runs : GoodRun(runs'[s], held, dropped)
BY DEF UploadInv, GoodRun

\* The requests that may still arrive are chunks of the file.
LEMMA UnseenType ==
  ASSUME UploadInv, NEW rs \in SUBSET Runs
  PROVE  Unseen(rs) \subseteq 0..(Size - 1)
<1> SUFFICES ASSUME NEW s \in rs, runs[s].offset < Size
             PROVE  runs[s].offset \in 0..(Size - 1)
  BY DEF Unseen
<1>1. runs[s] \in Run
  BY DEF UploadInv
<1>2. QED
  BY <1>1 DEF Run

\* A chunk that arrives never makes the server hold less.
LEMMA HoldsWithMore ==
  ASSUME UploadInv, NEW chunk \in 0..(Size - 1)
  PROVE  /\ HoldsWith(chunk) \in 0..Size /\ held <= HoldsWith(chunk)
         /\ Takes(chunk) => chunk + 1 <= HoldsWith(chunk)
BY DEF UploadInv, HoldsWith, Takes, Larger

-----------------------------------------------------------------------------
\* The invariant, one lemma per kind of step.
LEMMA InitGood == Init => UploadInv
<1> SUFFICES ASSUME Init PROVE UploadInv
  OBVIOUS
<1>1. 0 \in 0..Size /\ Size # 0
  OBVIOUS
<1>2. GoodRun(IdleRun, 0, FALSE)
  BY <1>1, IdleIsGood
<1>3. runs \in [Runs -> Run] /\ \A r \in Runs : GoodRun(runs[r], 0, FALSE)
  BY <1>2 DEF Init, GoodRun
<1>4. held = 0 /\ late = {} /\ slot = NoRun /\ recorded = 0
      /\ paused \in BOOLEAN /\ dropped \in BOOLEAN
  BY DEF Init
<1>5. \A r \in Runs : GoodRun(runs[r], held, dropped)
  BY <1>3, Zenon DEF Init
<1>6. QED
  BY <1>1, <1>3, <1>4, <1>5 DEF UploadInv

LEMMA StartGood ==
  ASSUME UploadInv, NEW r \in Runs, Start(r)
  PROVE  UploadInv'
<1> DEFINE x == [IdleRun EXCEPT !.pc = "prepare", !.offset = recorded]
<1>1. GoodRun(IdleRun, held, dropped)
  BY IdleIsGood DEF UploadInv
<1>2. GoodRun(x, held, dropped)
  <2>1. IdleRun \in Run /\ IdleRun.answer = NoAnswer
    BY <1>1 DEF GoodRun, IdleRun
  <2>2. x \in Run /\ x.pc = "prepare" /\ x.offset = recorded /\ x.answer = NoAnswer
    BY <2>1 DEF UploadInv, Run
  <2> HIDE DEF x
  <2>3. QED
    BY <2>2 DEF GoodRun, UploadInv, NoAnswer
<1>3. runs' = [runs EXCEPT ![r] = x] /\ UNCHANGED <<held, late, recorded, dropped>>
      /\ slot' = r /\ paused' = FALSE
  BY DEF Start
<1> HIDE DEF x
<1>4. QED
  BY <1>2, <1>3, OneRunStep DEF UploadInv

\* Cancelling the token of a run leaves the rest of it alone.
LEMMA CancelledIsGood ==
  ASSUME NEW x, NEW h, NEW d, GoodRun(x, h, d)
  PROVE  GoodRun([x EXCEPT !.cancelled = TRUE], h, d)
BY DEF GoodRun, Run

LEMMA PauseGood ==
  ASSUME UploadInv, Pause \/ CancelTask
  PROVE  UploadInv'
<1> DEFINE x == [runs[slot] EXCEPT !.cancelled = TRUE]
<1>1. slot \in Runs /\ GoodRun(runs[slot], held, dropped)
  BY DEF UploadInv, Pause, CancelTask
<1>2. GoodRun(x, held, dropped)
  BY <1>1, CancelledIsGood
<1>3. runs' = [runs EXCEPT ![slot] = x]
  BY <1>1 DEF UploadInv, Pause, CancelTask
<1>4. UNCHANGED <<held, late, recorded, dropped>> /\ slot' \in Runs \cup {NoRun}
      /\ paused' \in BOOLEAN
  BY <1>1 DEF Pause, CancelTask
<1> HIDE DEF x
<1>5. QED
  BY <1>1, <1>2, <1>3, <1>4, OneRunStep DEF UploadInv

LEMMA EndGood ==
  ASSUME UploadInv, NEW r \in Runs, End(r)
  PROVE  UploadInv'
<1>1. GoodRun(IdleRun, held, dropped)
  BY IdleIsGood DEF UploadInv
<1>2. late' \subseteq 0..(Size - 1)
  BY UnseenType DEF End, UploadInv
<1>3. runs' = [runs EXCEPT ![r] = IdleRun] /\ UNCHANGED <<held, dropped>>
      /\ slot' = NoRun /\ paused' \in BOOLEAN /\ recorded' = 0
  BY DEF End
<1>4. runs' \in [Runs -> Run] /\ \A s \in Runs : GoodRun(runs'[s], held, dropped)
  BY <1>1, <1>3, OneRunStep
<1>5. QED
  BY <1>2, <1>3, <1>4 DEF UploadInv

LEMMA ClientStopsGood ==
  ASSUME UploadInv, ClientStops
  PROVE  UploadInv'
<1>1. GoodRun(IdleRun, held, dropped) /\ IdleRun \in Run
  BY IdleIsGood DEF UploadInv, GoodRun
<1>2. late' \subseteq 0..(Size - 1)
  BY UnseenType DEF ClientStops, UploadInv
<1>3. runs' = [r \in Runs |-> IdleRun] /\ UNCHANGED <<held, dropped>>
      /\ slot' = NoRun /\ paused' \in BOOLEAN /\ recorded' = 0
  BY DEF ClientStops
<1>4. runs' \in [Runs -> Run] /\ \A r \in Runs : GoodRun(runs'[r], held, dropped)
  BY <1>1, <1>3
<1>5. QED
  BY <1>2, <1>3, <1>4 DEF UploadInv

\* The server has more chunks, the runs are the same.
LEMMA MoreHeld ==
  ASSUME UploadInv, held' \in 0..Size, held <= held',
         UNCHANGED <<slot, paused, recorded, dropped>>, late' \subseteq late
  PROVE  /\ (held \in 0..Size /\ late \subseteq 0..(Size - 1))'
         /\ (recorded = Size => held = Size)' /\ (dropped \/ recorded <= held)'
         /\ \A r \in Runs : GoodRun(runs[r], held', dropped)
<1>1. \A r \in Runs : GoodRun(runs[r], held', dropped)
  BY MoreIsGood DEF UploadInv
<1>2. QED
  BY <1>1 DEF UploadInv

LEMMA ArriveLateGood ==
  ASSUME UploadInv, NEW chunk \in late, ArriveLate(chunk)
  PROVE  UploadInv'
<1>1. chunk \in 0..(Size - 1)
  BY DEF UploadInv
<1>2. held' \in 0..Size /\ held <= held'
  BY <1>1, HoldsWithMore DEF ArriveLate
<1>3. late' \subseteq late /\ UNCHANGED <<runs, slot, paused, recorded, dropped>>
  BY DEF ArriveLate
<1>4. QED
  BY <1>2, <1>3, MoreHeld DEF UploadInv

LEMMA DropGood ==
  ASSUME UploadInv, Drop
  PROVE  UploadInv'
<1>1. held \in 0..Size /\ held # Size /\ held' = 0 /\ dropped' /\ dropped' \in BOOLEAN
      /\ UNCHANGED <<late, runs, slot, paused, recorded>>
  BY DEF Drop, UploadInv
<1>2. \A r \in Runs : GoodRun(runs[r], 0, TRUE)
  BY <1>1, DroppedIsGood DEF UploadInv
<1>3. \A r \in Runs : GoodRun(runs[r], held', dropped')
  BY <1>2, Zenon DEF Drop
<1>4. 0 \in 0..Size /\ Size # 0
  OBVIOUS
<1>5. QED
  BY <1>1, <1>3, <1>4 DEF UploadInv

LEMMA AnswerPrepareGood ==
  ASSUME UploadInv, NEW r \in Runs, AnswerPrepare(r)
  PROVE  UploadInv'
<1> DEFINE a == [kind |-> IF held = Size THEN "complete" ELSE "next", next |-> held]
           x == [runs[r] EXCEPT !.answer = a]
<1>1. GoodRun(runs[r], held, dropped) /\ runs[r].pc = "prepare" /\ held \in 0..Size
  BY DEF UploadInv, AnswerPrepare
<1>2. GoodRun(x, held, dropped)
  BY <1>1 DEF GoodRun, Run, Answer, NoAnswer
<1>3. runs' = [runs EXCEPT ![r] = x]
      /\ UNCHANGED <<held, late, slot, paused, recorded, dropped>>
  BY DEF UploadInv, AnswerPrepare
<1> HIDE DEF x, a
<1>4. QED
  BY <1>2, <1>3, OneRunStep DEF UploadInv

LEMMA AnswerChunkGood ==
  ASSUME UploadInv, NEW r \in Runs, AnswerChunk(r)
  PROVE  UploadInv'
<1>1. GoodRun(runs[r], held, dropped) /\ runs[r] \in Run
      /\ runs[r].pc = "transfer" /\ runs[r].offset \in 0..(Size - 1)
  BY DEF UploadInv, AnswerChunk, Run
<1>2. held' = HoldsWith(runs[r].offset) /\ held' \in 0..Size /\ held <= held'
      /\ (Takes(runs[r].offset) => runs[r].offset + 1 <= held')
  BY <1>1, HoldsWithMore DEF AnswerChunk
<1>3. UNCHANGED <<late, slot, paused, recorded, dropped>>
  BY DEF AnswerChunk
<1>4. \A s \in Runs : GoodRun(runs[s], held', dropped)
  BY <1>2, <1>3, MoreHeld
<1>5. PICK kind \in IF ~Takes(runs[r].offset) THEN {"refused"}
                    ELSE IF held' = Size THEN {"next", "complete"} ELSE {"next"} :
        runs' = [runs EXCEPT ![r].answer = [kind |-> kind, next |-> held']]
  BY DEF AnswerChunk
<1>6. /\ kind \in {"next", "complete", "refused"}
      /\ kind = "complete" => held' = Size
      /\ kind = "next" => runs[r].offset + 1 <= held'
  BY <1>2, <1>5
<1> DEFINE a == [kind |-> kind, next |-> held']
           x == [runs[r] EXCEPT !.answer = a]
<1>7. GoodRun(x, held', dropped)
  <2>1. GoodRun(runs[r], held', dropped)
    BY <1>4
  <2>2. x \in Run /\ a # NoAnswer
    BY <1>1, <1>2, <1>6 DEF Run, Answer, NoAnswer
  <2>3. QED
    BY <2>1, <2>2, <1>1, <1>2, <1>6 DEF GoodRun, Run
<1>8. runs' = [runs EXCEPT ![r] = x]
  BY <1>5 DEF UploadInv
<1> HIDE DEF x, a
<1>9. runs' \in [Runs -> Run] /\ \A s \in Runs : GoodRun(runs'[s], held', dropped)
  BY <1>4, <1>7, <1>8 DEF UploadInv, GoodRun
<1>10. QED
  BY <1>2, <1>3, <1>9, MoreHeld DEF UploadInv

LEMMA PrepareGood ==
  ASSUME UploadInv, NEW r \in Runs, Prepare(r)
  PROVE  UploadInv'
<1> DEFINE x == [runs[r] EXCEPT !.pc = "check", !.offset = PreparedOffset(r),
                                !.answer = NoAnswer]
<1>1. GoodRun(runs[r], held, dropped) /\ runs[r] \in Run /\ held \in 0..Size
  BY DEF UploadInv
<1>2. /\ PreparedOffset(r) \in 0..Size
      /\ PreparedOffset(r) = Size => held = Size
      /\ dropped \/ PreparedOffset(r) <= held
  <2>1. runs[r].offset \in 0..Size /\ runs[r].answer.next \in 0..Size
    BY <1>1 DEF Run, Answer
  <2>2. QED
    BY <1>1, <2>1 DEF GoodRun, PreparedOffset, Larger, Smaller
<1>3. GoodRun(x, held, dropped)
  <2>1. x \in Run /\ x.pc = "check" /\ x.offset = PreparedOffset(r) /\ x.answer = NoAnswer
    BY <1>1, <1>2, NoAnswerType DEF Run
  <2> HIDE DEF x
  <2>2. QED
    BY <1>1, <1>2, <2>1 DEF GoodRun, NoAnswer
<1>4. runs' = [runs EXCEPT ![r] = x]
      /\ UNCHANGED <<held, late, slot, paused, recorded, dropped>>
  BY DEF UploadInv, Prepare
<1> HIDE DEF x
<1>5. QED
  BY <1>3, <1>4, OneRunStep DEF UploadInv

\* A run that goes to another pc without an answer stays good.
LEMMA MovedIsGood ==
  ASSUME UploadInv, NEW r \in Runs, NEW x \in Run, runs' = [runs EXCEPT ![r] = x],
         x.answer = NoAnswer, x.offset = runs[r].offset,
         x.pc \in {"check", "transfer", "backoff"},
         x.pc = "backoff" => x.attempt < MaxRetries
  PROVE  runs' \in [Runs -> Run] /\ \A s \in Runs : GoodRun(runs'[s], held, dropped)
<1>1. GoodRun(runs[r], held, dropped) /\ held \in 0..Size
  BY DEF UploadInv
<1>2. GoodRun(x, held, dropped)
  BY <1>1 DEF GoodRun, NoAnswer
<1>3. QED
  BY <1>2, OneRunStep

LEMMA CheckGood ==
  ASSUME UploadInv, NEW r \in Runs, Check(r)
  PROVE  UploadInv'
<1> DEFINE x == [runs[r] EXCEPT !.pc = "transfer"]
<1>1. GoodRun(runs[r], held, dropped) /\ runs[r] \in Run /\ runs[r].answer = NoAnswer
  BY DEF UploadInv, GoodRun, Check
<1>2. x \in Run /\ x.answer = NoAnswer /\ x.offset = runs[r].offset /\ x.pc = "transfer"
  BY <1>1 DEF Run
<1>3. runs' = [runs EXCEPT ![r] = x]
      /\ UNCHANGED <<held, late, slot, paused, recorded, dropped>>
  BY DEF UploadInv, Check
<1> HIDE DEF x
<1>4. QED
  BY <1>2, <1>3, MovedIsGood DEF UploadInv

LEMMA RetryGood ==
  ASSUME UploadInv, NEW r \in Runs, Retry(r)
  PROVE  UploadInv'
<1> DEFINE x == [runs[r] EXCEPT !.pc = "backoff", !.answer = NoAnswer]
<1>1. runs[r] \in Run /\ runs[r].attempt < MaxRetries
  BY DEF UploadInv, Retry
<1>2. /\ x \in Run /\ x.answer = NoAnswer /\ x.offset = runs[r].offset
      /\ x.pc = "backoff" /\ x.attempt = runs[r].attempt
  BY <1>1, NoAnswerType DEF Run
<1>3. runs' = [runs EXCEPT ![r] = x]
      /\ UNCHANGED <<held, slot, paused, recorded, dropped>>
  BY DEF UploadInv, Retry
<1>4. late' \subseteq 0..(Size - 1)
  BY UnseenType DEF Retry, UploadInv
<1> HIDE DEF x
<1>5. QED
  BY <1>1, <1>2, <1>3, <1>4, MovedIsGood DEF UploadInv

LEMMA BackoffEndsGood ==
  ASSUME UploadInv, NEW r \in Runs, BackoffEnds(r)
  PROVE  UploadInv'
<1> DEFINE x == [runs[r] EXCEPT !.pc = "check", !.attempt = @ + 1]
<1>1. /\ GoodRun(runs[r], held, dropped) /\ runs[r] \in Run
      /\ runs[r].answer = NoAnswer /\ runs[r].attempt < MaxRetries
  BY DEF UploadInv, GoodRun, BackoffEnds
<1>2. x \in Run /\ x.answer = NoAnswer /\ x.offset = runs[r].offset /\ x.pc = "check"
  <2>1. runs[r].attempt \in 0..MaxRetries
    BY <1>1 DEF Run
  <2>2. runs[r].attempt + 1 \in 0..MaxRetries
    BY <1>1, <2>1
  <2>3. QED
    BY <1>1, <2>2 DEF Run
<1>3. runs' = [runs EXCEPT ![r] = x]
      /\ UNCHANGED <<held, late, slot, paused, recorded, dropped>>
  BY DEF UploadInv, BackoffEnds
<1> HIDE DEF x
<1>4. QED
  BY <1>2, <1>3, MovedIsGood DEF UploadInv

LEMMA ObserveCancelGood ==
  ASSUME UploadInv, NEW r \in Runs, ObserveCancel(r)
  PROVE  UploadInv'
<1>1. GoodRun(IdleRun, held, dropped)
  BY IdleIsGood DEF UploadInv
<1>2. runs' = [runs EXCEPT ![r] = IdleRun] /\ UNCHANGED <<held, late, paused, dropped>>
      /\ slot' = NoRun /\ recorded' \in {recorded, 0}
  BY DEF ObserveCancel
<1>3. runs' \in [Runs -> Run] /\ \A s \in Runs : GoodRun(runs'[s], held, dropped)
  BY <1>1, <1>2, OneRunStep
<1>4. QED
  BY <1>2, <1>3 DEF UploadInv

\* A run may go on to next when the server has what lies before it.
LEMMA AdvanceGood ==
  ASSUME UploadInv, NEW r \in Runs, NEW next \in 0..Size, Advance(r, next),
         next = Size => held = Size, dropped \/ next <= held
  PROVE  UploadInv'
<1> DEFINE p == IF next >= Size THEN "completing" ELSE "check"
           x == [runs[r] EXCEPT !.pc = p, !.offset = next, !.attempt = 0,
                                !.answer = NoAnswer]
<1>1. runs[r] \in Run /\ held \in 0..Size /\ 0 \in 0..MaxRetries
  BY DEF UploadInv
<1>2. p \in {"completing", "check"} /\ (p = "completing" => next = Size)
  OBVIOUS
<1>3. runs' = [runs EXCEPT ![r] = x] /\ recorded' = next
      /\ UNCHANGED <<held, late, slot, paused, dropped>>
  BY DEF UploadInv, Advance
<1> HIDE DEF p
<1>4. x \in Run /\ x.offset = next /\ x.answer = NoAnswer /\ x.pc = p
  BY <1>1, <1>2, NoAnswerType DEF Run
<1> HIDE DEF x
<1>5. GoodRun(x, held, dropped)
  BY <1>1, <1>2, <1>4 DEF GoodRun, NoAnswer
<1>6. runs' \in [Runs -> Run] /\ \A s \in Runs : GoodRun(runs'[s], held, dropped)
  BY <1>3, <1>5, OneRunStep
<1>7. QED
  BY <1>3, <1>6 DEF UploadInv

LEMMA NothingLeftGood ==
  ASSUME UploadInv, NEW r \in Runs, NothingLeft(r)
  PROVE  UploadInv'
<1>1. GoodRun(runs[r], held, dropped) /\ runs[r] \in Run /\ held \in 0..Size
  BY DEF UploadInv
<1>2. runs[r].offset \in 0..Size /\ runs[r].offset = Size
  BY <1>1 DEF NothingLeft, Run
<1>3. held = Size
  BY <1>1, <1>2 DEF GoodRun
<1>4. QED
  BY <1>2, <1>3, AdvanceGood DEF NothingLeft

LEMMA ReceiveGood ==
  ASSUME UploadInv, NEW r \in Runs, Receive(r)
  PROVE  UploadInv'
<1> DEFINE next == IF runs[r].answer.kind = "complete" THEN Size ELSE runs[r].offset + 1
<1>1. /\ GoodRun(runs[r], held, dropped) /\ runs[r] \in Run /\ held \in 0..Size
      /\ runs[r].pc = "transfer" /\ runs[r].answer.kind \in {"next", "complete"}
  BY DEF UploadInv, Receive
<1>2. runs[r].answer # NoAnswer /\ runs[r].offset \in 0..Size
  BY <1>1 DEF NoAnswer, Run
<1>3. runs[r].offset < Size
  BY <1>1, <1>2 DEF GoodRun
<1>4. next \in 0..Size /\ (next = Size => held = Size) /\ (dropped \/ next <= held)
  BY <1>1, <1>2, <1>3 DEF GoodRun
<1>5. Advance(r, next)
  BY DEF Receive
<1> HIDE DEF next
<1>6. QED
  BY <1>4, <1>5, AdvanceGood

-----------------------------------------------------------------------------
\* The invariant holds in every reachable state.
LEMMA NextGood ==
  ASSUME UploadInv, [Next]_vars
  PROVE  UploadInv'
<1>1. CASE Pause \/ CancelTask
  BY <1>1, PauseGood
<1>2. CASE ClientStops
  BY <1>2, ClientStopsGood
<1>3. CASE \E r \in Runs : AnswerPrepare(r) \/ AnswerChunk(r)
  BY <1>3, AnswerPrepareGood, AnswerChunkGood
<1>4. CASE \E chunk \in late : ArriveLate(chunk)
  BY <1>4, ArriveLateGood
<1>5. CASE Drop
  BY <1>5, DropGood
<1>6. CASE \E r \in Runs : Start(r)
  BY <1>6, StartGood
<1>7. ASSUME NEW r \in Runs, RunStep(r)
      PROVE  UploadInv'
  <2>1. CASE PrepareFails(r) \/ TransferFails(r) \/ Complete(r)
    BY <2>1, EndGood DEF PrepareFails, TransferFails, Complete
  <2>2. CASE Prepare(r)
    BY <2>2, PrepareGood
  <2>3. CASE Check(r)
    BY <2>3, CheckGood
  <2>4. CASE ObserveCancel(r)
    BY <2>4, ObserveCancelGood
  <2>5. CASE NothingLeft(r)
    BY <2>5, NothingLeftGood
  <2>6. CASE Receive(r)
    BY <2>6, ReceiveGood
  <2>7. CASE Retry(r)
    BY <2>7, RetryGood
  <2>8. CASE BackoffEnds(r)
    BY <2>8, BackoffEndsGood
  <2>9. QED
    BY <1>7, <2>1, <2>2, <2>3, <2>4, <2>5, <2>6, <2>7, <2>8 DEF RunStep
<1>8. CASE UNCHANGED vars
  BY <1>8 DEF vars, UploadInv
<1>9. QED
  BY <1>1, <1>2, <1>3, <1>4, <1>5, <1>6, <1>7, <1>8 DEF Next, Environment, Server

\* The inductive invariant of the upload: what a run and the recorded offset
\* rely on is what the server holds.
THEOREM UploadCorrect == Spec => []UploadInv
BY InitGood, NextGood, PTL DEF Spec

\* Every variable holds a value of its kind.
THEOREM TypeCorrect == Spec => []TypeOK
<1>1. UploadInv => TypeOK
  BY DEF UploadInv, TypeOK
<1>2. QED
  BY <1>1, UploadCorrect, PTL

\* An upload is reported complete only when the server holds the whole file,
\* whatever is lost, late, repeated, paused, cancelled, restarted or dropped.
THEOREM CompleteMeansStored == Spec => []CompletedIsStored
<1>1. UploadInv => CompletedIsStored
  BY DEF UploadInv, GoodRun, CompletedIsStored
<1>2. QED
  BY <1>1, UploadCorrect, PTL

\* While the server keeps what it acknowledged, neither a run nor the recorded
\* offset is ahead of it.
THEOREM NoChunkPassedOver == Spec => []NeverAhead
<1>1. UploadInv => NeverAhead
  BY DEF UploadInv, GoodRun, NeverAhead
<1>2. QED
  BY <1>1, UploadCorrect, PTL

-----------------------------------------------------------------------------
\* The run implements what RunGroup takes for granted of an HTTP client.

\* What RunGroup sees of a run is one of its runs.
LEMMA GroupRunType ==
  ASSUME NEW x \in Run
  PROVE  /\ AsGroupRun(x) \in Group!Run
         /\ AsGroupRun(x).pc = x.pc /\ AsGroupRun(x).offset = x.offset
         /\ AsGroupRun(x).attempt = x.attempt /\ AsGroupRun(x).cancelled = x.cancelled
         /\ AsGroupRun(x).task = IF x.pc = "idle" THEN "none" ELSE "task"
BY DEF AsGroupRun, Run, Group!Run, Group!Last

\* A step that changes one run changes that run only as RunGroup sees it.
LEMMA OneGroupRun ==
  ASSUME runs \in [Runs -> Run], NEW r \in Runs, NEW x, runs' = [runs EXCEPT ![r] = x]
  PROVE  /\ GroupRuns' = [GroupRuns EXCEPT ![r] = AsGroupRun(x)]
         /\ GroupRuns[r] = AsGroupRun(runs[r])
BY DEF GroupRuns

\* The constants of RunGroup are given such that nothing but the runs changes.
LEMMA NothingElseChanges ==
  UNCHANGED <<Group!tables, Group!control, <<>>, <<>>, <<>>, {}>>
BY DEF Group!tables, Group!control

\* Whoever sends sends to nobody, so that the channel is never in the way.
LEMMA SentToNobody ==
  ASSUME NEW type, NEW r, NEW offset
  PROVE  Group!CanSend /\ Group!Send(type, r, offset) = <<>>
BY DEF Group!CanSend, Group!Send

\* A run that is over is the idle run of RunGroup.
LEMMA IdleGroupRun ==
  ASSUME runs \in [Runs -> Run], NEW r \in Runs, runs' = [runs EXCEPT ![r] = IdleRun]
  PROVE  GroupRuns' = [GroupRuns EXCEPT ![r] = Group!IdleRun]
<1>1. AsGroupRun(IdleRun) = Group!IdleRun
  BY DEF AsGroupRun, IdleRun, Group!IdleRun
<1>2. QED
  BY <1>1, OneGroupRun

\* How a step of one run looks to RunGroup.
LEMMA SeenStep ==
  ASSUME UploadInv, NEW r \in Runs, NEW x \in Run, runs' = [runs EXCEPT ![r] = x]
  PROVE  /\ GroupRuns[r] \in Group!Run /\ AsGroupRun(x) \in Group!Run
         /\ GroupRuns' = [GroupRuns EXCEPT ![r] = AsGroupRun(x)]
         /\ AsGroupRun(x).pc = x.pc /\ AsGroupRun(x).offset = x.offset
         /\ AsGroupRun(x).attempt = x.attempt /\ AsGroupRun(x).cancelled = x.cancelled
         /\ AsGroupRun(x).task = IF x.pc = "idle" THEN "none" ELSE "task"
         /\ GroupRuns[r].pc = runs[r].pc /\ GroupRuns[r].offset = runs[r].offset
         /\ GroupRuns[r].attempt = runs[r].attempt
         /\ GroupRuns[r].cancelled = runs[r].cancelled
         /\ GroupRuns[r].task = IF runs[r].pc = "idle" THEN "none" ELSE "task"
<1>1. runs[r] \in Run /\ runs \in [Runs -> Run]
  BY DEF UploadInv
<1>2. QED
  BY <1>1, OneGroupRun, GroupRunType

LEMMA PrepareImplements ==
  ASSUME UploadInv, NEW r \in Runs, Prepare(r)
  PROVE  Group!Prepare(r)
<1> DEFINE x == runs'[r]
           g == GroupRuns[r]
           h == AsGroupRun(x)
<1>1. /\ runs[r] \in Run /\ runs \in [Runs -> Run] /\ runs[r].pc = "prepare"
      /\ runs' = [runs EXCEPT ![r] = x]
  BY DEF UploadInv, Prepare
<1>2. x.offset \in runs[r].offset..Size
  BY <1>1 DEF Prepare, Run, Answer, PreparedOffset, Larger, Smaller
<1>3. /\ x \in Run /\ x.pc = "check" /\ x.attempt = runs[r].attempt
      /\ x.cancelled = runs[r].cancelled
  BY <1>1, PrepareGood DEF Prepare, UploadInv, Run
<1> HIDE DEF x
<1>4. /\ g \in Group!Run /\ h \in Group!Run /\ h.task = "task" /\ g.task = "task"
      /\ h.attempt = g.attempt /\ h.cancelled = g.cancelled
      /\ g.pc = "prepare" /\ g.offset = runs[r].offset
      /\ h.pc = "check" /\ h.offset = x.offset
      /\ GroupRuns' = [GroupRuns EXCEPT ![r] = h]
  BY <1>1, <1>3, SeenStep, ZenonT(60)
<1> HIDE DEF g, h
<1>5. [g EXCEPT !.pc = "check", !.offset = h.offset] = h
  BY <1>4 DEF Group!Run
<1>6. GroupRuns' = [GroupRuns EXCEPT ![r].pc = "check", ![r].offset = x.offset]
  BY <1>4, <1>5 DEF g
<1>7. x.offset \in Group!PreparedOffsets(Group!RunKey(r), GroupRuns[r].offset)
  BY <1>2, <1>4 DEF g, Group!PreparedOffsets, Group!UploadOffsets, Group!RunKey
<1>8. QED
  BY <1>4, <1>6, <1>7, NothingElseChanges DEF g, Group!Prepare

LEMMA CheckImplements ==
  ASSUME UploadInv, NEW r \in Runs, Check(r)
  PROVE  Group!Check(r)
<1> DEFINE x == [runs[r] EXCEPT !.pc = "transfer"]
           g == GroupRuns[r]
           h == AsGroupRun(x)
<1>1. /\ runs[r] \in Run /\ runs[r].pc = "check" /\ ~runs[r].cancelled
      /\ runs' = [runs EXCEPT ![r] = x]
  BY DEF UploadInv, Check
<1>2. /\ x \in Run /\ x.pc = "transfer" /\ x.offset = runs[r].offset
      /\ x.attempt = runs[r].attempt /\ x.cancelled = runs[r].cancelled
  BY <1>1 DEF Run
<1> HIDE DEF x
<1>3. /\ g \in Group!Run /\ h \in Group!Run /\ h.task = g.task
      /\ h.offset = g.offset /\ h.attempt = g.attempt /\ h.cancelled = g.cancelled
      /\ g.pc = "check" /\ ~g.cancelled /\ h.pc = "transfer"
      /\ GroupRuns' = [GroupRuns EXCEPT ![r] = h]
  BY <1>1, <1>2, SeenStep, ZenonT(60)
<1> HIDE DEF g, h
<1>4. [g EXCEPT !.pc = "transfer"] = h
  BY <1>3 DEF Group!Run
<1>5. GroupRuns' = [GroupRuns EXCEPT ![r].pc = "transfer"]
  BY <1>3, <1>4 DEF g
<1>6. QED
  BY <1>3, <1>5, NothingElseChanges DEF g, Group!Check

LEMMA ObserveCancelImplements ==
  ASSUME UploadInv, NEW r \in Runs, ObserveCancel(r)
  PROVE  Group!ObserveCancel(r)
<1>1. runs \in [Runs -> Run] /\ runs[r] \in Run /\ runs' = [runs EXCEPT ![r] = IdleRun]
      /\ runs[r].pc \in {"check", "backoff"} /\ runs[r].cancelled
  BY DEF UploadInv, ObserveCancel
<1>2. GroupRuns[r].pc = runs[r].pc /\ GroupRuns[r].cancelled = runs[r].cancelled
  BY <1>1, OneGroupRun, GroupRunType
<1>3. GroupRuns[r].pc \in {"check", "backoff"} /\ GroupRuns[r].cancelled
  BY <1>1, <1>2, Zenon
<1>4. QED
  BY <1>1, <1>3, IdleGroupRun, NothingElseChanges, SentToNobody DEF Group!ObserveCancel

LEMMA FailImplements ==
  ASSUME UploadInv, NEW r \in Runs, PrepareFails(r) \/ TransferFails(r)
  PROVE  Group!Fail(r)
<1>1. runs \in [Runs -> Run] /\ runs[r] \in Run /\ runs' = [runs EXCEPT ![r] = IdleRun]
      /\ runs[r].pc \in {"prepare", "transfer"}
  BY DEF UploadInv, PrepareFails, TransferFails, End
<1>2. GroupRuns[r].pc \in {"prepare", "transfer"}
  BY <1>1, OneGroupRun, GroupRunType
<1>3. QED
  BY <1>1, <1>2, IdleGroupRun, NothingElseChanges, SentToNobody DEF Group!Fail

LEMMA CompleteImplements ==
  ASSUME UploadInv, NEW r \in Runs, Complete(r)
  PROVE  Group!Complete(r)
<1>1. runs \in [Runs -> Run] /\ runs[r] \in Run /\ runs' = [runs EXCEPT ![r] = IdleRun]
      /\ runs[r].pc = "completing"
  BY DEF UploadInv, Complete, End
<1>2. GroupRuns[r].pc = "completing"
  BY <1>1, OneGroupRun, GroupRunType
<1>3. QED
  BY <1>1, <1>2, IdleGroupRun, NothingElseChanges, SentToNobody DEF Group!Complete

LEMMA RetryImplements ==
  ASSUME UploadInv, NEW r \in Runs, Retry(r)
  PROVE  Group!ScheduleRetry(r)
<1> DEFINE x == [runs[r] EXCEPT !.pc = "backoff", !.answer = NoAnswer]
           g == GroupRuns[r]
           h == AsGroupRun(x)
<1>1. /\ runs[r] \in Run /\ runs[r].pc = "transfer" /\ runs[r].attempt < MaxRetries
      /\ runs' = [runs EXCEPT ![r] = x]
  BY DEF UploadInv, Retry
<1>2. /\ x \in Run /\ x.pc = "backoff" /\ x.offset = runs[r].offset
      /\ x.attempt = runs[r].attempt /\ x.cancelled = runs[r].cancelled
  BY <1>1, NoAnswerType DEF Run
<1> HIDE DEF x
<1>3. /\ g \in Group!Run /\ h \in Group!Run /\ h.task = g.task
      /\ h.offset = g.offset /\ h.attempt = g.attempt /\ h.cancelled = g.cancelled
      /\ g.pc = "transfer" /\ g.attempt < MaxRetries /\ h.pc = "backoff"
      /\ GroupRuns' = [GroupRuns EXCEPT ![r] = h]
  BY <1>1, <1>2, SeenStep, ZenonT(60)
<1> HIDE DEF g, h
<1>4. [g EXCEPT !.pc = "backoff"] = h
  BY <1>3 DEF Group!Run
<1>5. GroupRuns' = [GroupRuns EXCEPT ![r].pc = "backoff"]
  BY <1>3, <1>4 DEF g
<1>6. QED
  BY <1>3, <1>5, NothingElseChanges DEF g, Group!ScheduleRetry

LEMMA BackoffEndsImplements ==
  ASSUME UploadInv, NEW r \in Runs, BackoffEnds(r)
  PROVE  Group!BackoffEnds(r)
<1> DEFINE x == [runs[r] EXCEPT !.pc = "check", !.attempt = @ + 1]
           g == GroupRuns[r]
           h == AsGroupRun(x)
<1>1. /\ runs[r] \in Run /\ runs[r].pc = "backoff" /\ runs[r].attempt < MaxRetries
      /\ runs' = [runs EXCEPT ![r] = x]
  BY DEF UploadInv, GoodRun, BackoffEnds
<1>2. runs[r].attempt + 1 \in 0..MaxRetries
  BY <1>1 DEF Run
<1>3. /\ x \in Run /\ x.pc = "check" /\ x.offset = runs[r].offset
      /\ x.attempt = runs[r].attempt + 1 /\ x.cancelled = runs[r].cancelled
  BY <1>1, <1>2 DEF Run
<1> HIDE DEF x
<1>4. /\ g \in Group!Run /\ h \in Group!Run /\ h.task = g.task
      /\ h.offset = g.offset /\ h.attempt = g.attempt + 1 /\ h.cancelled = g.cancelled
      /\ g.pc = "backoff" /\ h.pc = "check"
      /\ GroupRuns' = [GroupRuns EXCEPT ![r] = h]
  BY <1>1, <1>3, SeenStep, ZenonT(60)
<1> HIDE DEF g, h
<1>5. [g EXCEPT !.pc = "check", !.attempt = g.attempt + 1] = h
  BY <1>4 DEF Group!Run
<1>6. GroupRuns' = [GroupRuns EXCEPT ![r].pc = "check", ![r].attempt = @ + 1]
  BY <1>4, <1>5 DEF g
<1>7. QED
  BY <1>4, <1>6, NothingElseChanges DEF g, Group!BackoffEnds

\* An acknowledged chunk, or none left, is a chunk that ends where RunGroup
\* allows it.
LEMMA TransferImplements ==
  ASSUME UploadInv, NEW r \in Runs, NothingLeft(r) \/ Receive(r)
  PROVE  Group!TransferChunk(r)
<1>1. runs[r] \in Run /\ GoodRun(runs[r], held, dropped) /\ runs[r].pc = "transfer"
  BY DEF UploadInv, NothingLeft, Receive
<1>2. runs[r].offset \in 0..Size
  BY <1>1 DEF Run
<1>3. PICK next \in Group!UploadChunkEnds(runs[r].offset) : Advance(r, next)
  <2>1. CASE NothingLeft(r)
    BY <2>1, <1>2 DEF NothingLeft, Group!UploadChunkEnds
  <2>2. CASE Receive(r)
    <3>1. runs[r].offset < Size
      BY <2>2, <1>1 DEF Receive, GoodRun, NoAnswer
    <3>2. QED
      BY <2>2, <3>1, <1>2 DEF Receive, Group!UploadChunkEnds
  <2>3. QED
    BY <2>1, <2>2
<1>4. next \in 0..Size /\ 0 \in 0..MaxRetries
  BY <1>2, <1>3 DEF Group!UploadChunkEnds
<1> DEFINE p == IF next >= Size THEN "completing" ELSE "check"
           x == [runs[r] EXCEPT !.pc = p, !.offset = next, !.attempt = 0,
                                !.answer = NoAnswer]
           g == GroupRuns[r]
           h == AsGroupRun(x)
<1>5. runs' = [runs EXCEPT ![r] = x] /\ p \in {"completing", "check"}
  BY <1>3 DEF Advance, UploadInv
<1> HIDE DEF p
<1>6. /\ x \in Run /\ x.pc = p /\ x.offset = next /\ x.attempt = 0
      /\ x.cancelled = runs[r].cancelled
  BY <1>1, <1>4, <1>5, NoAnswerType DEF Run
<1> HIDE DEF x
<1>7. /\ g \in Group!Run /\ h \in Group!Run /\ h.task = "task" /\ g.task = "task"
      /\ h.offset = next /\ h.attempt = 0 /\ h.cancelled = g.cancelled
      /\ g.pc = "transfer" /\ h.pc = p /\ g.offset = runs[r].offset
      /\ GroupRuns' = [GroupRuns EXCEPT ![r] = h]
  BY <1>1, <1>5, <1>6, SeenStep, ZenonT(60)
<1> HIDE DEF g, h
<1>8. [g EXCEPT !.pc = p, !.offset = next, !.attempt = 0] = h
  BY <1>7 DEF Group!Run
<1>9. GroupRuns' = [GroupRuns EXCEPT ![r].pc = IF next >= Size THEN "completing" ELSE "check",
                                     ![r].offset = next, ![r].attempt = 0]
  BY <1>7, <1>8 DEF g, p
<1>10. next \in Group!ChunkEnds(Group!RunKey(r), GroupRuns[r].offset)
  BY <1>3, <1>7 DEF g, Group!ChunkEnds, Group!RunKey
<1>11. \E n \in Group!ChunkEnds(Group!RunKey(r), GroupRuns[r].offset) :
         /\ <<>> = Group!Send("Progress", r, n)
         /\ GroupRuns' = [GroupRuns EXCEPT
                            ![r].pc = IF n >= Size THEN "completing" ELSE "check",
                            ![r].offset = n, ![r].attempt = 0]
  BY <1>9, <1>10, SentToNobody
<1>12. GroupRuns[r].pc = "transfer" /\ Group!CanSend
  BY <1>7, SentToNobody DEF g
<1>13. QED
  BY <1>11, <1>12, NothingElseChanges DEF Group!TransferChunk

\* What the server does is nothing to RunGroup.
LEMMA ServerUnseen ==
  ASSUME UploadInv, Server
  PROVE  UNCHANGED GroupRuns
<1>1. ASSUME NEW r \in Runs, AnswerPrepare(r) \/ AnswerChunk(r)
      PROVE  UNCHANGED GroupRuns
  <2>1. PICK a : runs' = [runs EXCEPT ![r].answer = a]
    BY <1>1 DEF AnswerPrepare, AnswerChunk
  <2> DEFINE x == [runs[r] EXCEPT !.answer = a]
  <2>2. runs \in [Runs -> Run] /\ runs[r] \in Run /\ runs' = [runs EXCEPT ![r] = x]
    BY <2>1 DEF UploadInv
  <2>3. /\ x.pc = runs[r].pc /\ x.offset = runs[r].offset
        /\ x.attempt = runs[r].attempt /\ x.cancelled = runs[r].cancelled
    BY <2>2 DEF Run
  <2> HIDE DEF x
  <2>4. AsGroupRun(x) = AsGroupRun(runs[r])
    BY <2>3 DEF AsGroupRun
  <2>5. QED
    BY <2>2, <2>4 DEF GroupRuns
<1>2. CASE UNCHANGED runs
  BY <1>2 DEF GroupRuns
<1>3. QED
  BY <1>1, <1>2 DEF Server, ArriveLate, Drop

LEMMA NextImplements ==
  ASSUME UploadInv, [Next]_vars
  PROVE  [RunGroupStep]_GroupRuns
<1>1. CASE Environment \/ \E r \in Runs : Start(r)
  BY <1>1 DEF RunGroupStep
<1>2. CASE Server
  BY <1>2, ServerUnseen
<1>3. CASE \E r \in Runs : RunStep(r)
  BY <1>3, PrepareImplements, CheckImplements, ObserveCancelImplements,
     TransferImplements, CompleteImplements, RetryImplements,
     BackoffEndsImplements, FailImplements DEF RunStep, RunGroupStep
<1>4. CASE UNCHANGED vars
  BY <1>4 DEF vars, GroupRuns
<1>5. QED
  BY <1>1, <1>2, <1>3, <1>4 DEF Next

\* The upload client keeps to what RunGroup takes for granted of an HTTP
\* client: where prepare lets a run start, where a chunk ends, and when a run
\* fails, retries, stops and completes.
THEOREM ClientKeepsContract == Spec => ImplementsRunGroup
<1>1. UploadInv /\ [Next]_vars => [RunGroupStep]_GroupRuns
  BY NextImplements
<1>2. QED
  BY <1>1, UploadCorrect, PTL DEF Spec, ImplementsRunGroup
=============================================================================
