---------------------------- MODULE DownloadProofs ----------------------------
(***************************************************************************)
(* A download writes the remote's units where they belong, leaves no gap,  *)
(* and is whole when it is complete and its writes have landed: proofs for *)
(* every size of the file, every number of runs and every retry limit.     *)
(***************************************************************************)
EXTENDS Download, TLAPS

USE DownloadAssumption

\* What holds of a run whatever else is there: between its answer and its
\* write it keeps a body that starts where the run is.
Fetched == {"open", "meta", "write"}
GoodRun(x) ==
  /\ x \in Run
  /\ x.pc = "idle" => x = IdleRun
  /\ x.pc = "backoff" => x.attempt < MaxRetries
  /\ IF x.pc \in Fetched
     THEN /\ x.body.at = x.offset /\ x.body.from = x.offset /\ x.offset < Size
          /\ x.body.len \in 1..(Last - x.offset)
     ELSE x.body = NoWrite
  /\ x.pc \notin {"idle", "stat", "head", "completing"} => x.offset <= Size
  /\ x.pc = "completing" => x.offset >= Size
  /\ x.open => x.pc \notin {"idle", "stat", "head"}
  /\ x.pc = "write" => x.open
  /\ x.writeError => x.open

\* A background write carries what belongs where it is written. A live run
\* knows of its own: it counts as transferred.
GoodLanding(r) ==
  landing[r] # NoWrite =>
    /\ landing[r].from = landing[r].at /\ landing[r].len \in 1..(Last - landing[r].at)
    /\ Live(r) => runs[r].open /\ runs[r].offset = landing[r].at + landing[r].len

\* As long as no body that reaches behind the remote's end was accepted, nothing
\* does.
InRemote(x) ==
  /\ x.body.at + x.body.len <= Size
  /\ x.pc \notin {"idle", "stat", "head"} => x.offset <= Size
WithinRemote ==
  \A r \in Runs : InRemote(runs[r]) /\ landing[r].at + landing[r].len <= Size

\* What a run relies on that has seen the length of the file: no write comes
\* behind a file that it may still empty, and the file has reached its offset
\* unless its own write is under way or has failed.
Ahead(r) ==
  /\ runs[r].offset = 0 => \A s \in Runs : landing[s] # NoWrite => landing[s].at = 0
  /\ landing[r] = NoWrite /\ ~runs[r].writeError => runs[r].offset <= length
  /\ ~overlong /\ runs[r].offset <= Size => length <= Size
  /\ runs[r].writeError => lost

\* While no run is started beside a live one.
Alone ==
  /\ \A r, s \in Runs : Live(r) /\ Live(s) => r = s
  /\ wrong = {}
  /\ \A r \in Runs : landing[r] # NoWrite => landing[r].at <= length
  /\ \A r \in Runs : runs[r].pc \notin {"idle", "stat"} => Ahead(r)
  /\ complete =>
       /\ \A r \in Runs : ~Live(r)
       /\ overlong \/ length <= Size
       /\ lost \/ length >= Size \/ \E r \in Runs : landing[r].at + landing[r].len >= Size

DownloadInv ==
  /\ length \in 0..Last /\ wrong \subseteq Remote
  /\ runs \in [Runs -> Run] /\ landing \in [Runs -> Write]
  /\ slot \in Runs \cup {NoRun} /\ (slot # NoRun => Live(slot))
  /\ complete \in BOOLEAN /\ lost \in BOOLEAN /\ shared \in BOOLEAN
  /\ overlong \in BOOLEAN /\ gaveUp \in BOOLEAN
  /\ \A r \in Runs : GoodRun(runs[r]) /\ GoodLanding(r)
  /\ ~overlong => WithinRemote
  /\ ~shared => Alone

-----------------------------------------------------------------------------
\* Runs that are over, and bodies that are not there.
LEMMA IdleIsGood == GoodRun(IdleRun) /\ InRemote(IdleRun) /\ IdleRun.pc = "idle" /\ IdleRun.body = NoWrite
                    /\ ~IdleRun.open /\ ~IdleRun.writeError /\ IdleRun.offset = 0
BY DEF GoodRun, InRemote, IdleRun, Run, NoWrite, Write, Fetched, Last

LEMMA NoWriteFacts == NoWrite \in Write /\ NoWrite.at + NoWrite.len <= Size
BY DEF NoWrite, Write, Last

\* Runs are equal when their fields are.
LEMMA SameRun ==
  ASSUME NEW x \in Run, NEW y \in Run, x.pc = y.pc, x.offset = y.offset,
         x.attempt = y.attempt, x.cancelled = y.cancelled, x.open = y.open,
         x.writeError = y.writeError, x.body = y.body
  PROVE  x = y
BY DEF Run

\* What the invariant gives of one run.
LEMMA RunFacts ==
  ASSUME DownloadInv, NEW r \in Runs
  PROVE  /\ runs[r] \in Run /\ GoodRun(runs[r]) /\ GoodLanding(r) /\ landing[r] \in Write
         /\ length \in 0..Last
         /\ ~overlong => InRemote(runs[r]) /\ landing[r].at + landing[r].len <= Size
         /\ ~shared => /\ wrong = {}
                       /\ landing[r] # NoWrite => landing[r].at <= length
                       /\ runs[r].pc \notin {"idle", "stat"} => Ahead(r)
BY DEF DownloadInv, Alone, WithinRemote

\* A step that replaces one run by a good one.
LEMMA OneRun ==
  ASSUME DownloadInv, NEW r \in Runs, NEW x, runs' = [runs EXCEPT ![r] = x], GoodRun(x)
  PROVE  /\ runs' \in [Runs -> Run] /\ \A s \in Runs : GoodRun(runs'[s])
         /\ \A s \in Runs : runs'[s] = IF s = r THEN x ELSE runs[s]
BY DEF DownloadInv, GoodRun

-----------------------------------------------------------------------------
\* Steps that change a run but not its offset, its handle or its file. They may
\* give it a body, one behind the remote's end only if that is noted.
LEMMA QuietGood ==
  ASSUME DownloadInv, NEW r \in Runs, NEW x, runs' = [runs EXCEPT ![r] = x],
         GoodRun(x), Live(r), x.offset = runs[r].offset, x.writeError = runs[r].writeError,
         x.open = runs[r].open \/ (x.open /\ landing[r] = NoWrite),
         x.pc # "idle", x.pc = "stat" <=> runs[r].pc = "stat",
         UNCHANGED <<file, landing, complete, lost, shared>>, slot' \in {slot, NoRun},
         overlong' \in BOOLEAN, gaveUp' \in BOOLEAN, overlong => overlong',
         ~overlong' => InRemote(x)
  PROVE  DownloadInv'
<1>1. /\ runs' \in [Runs -> Run] /\ \A s \in Runs : GoodRun(runs'[s])
      /\ \A s \in Runs : runs'[s] = IF s = r THEN x ELSE runs[s]
  BY OneRun
<1>2. UNCHANGED <<length, wrong, landing, complete, lost, shared>>
  BY DEF file
<1>3. \A s \in Runs : Live(s)' <=> Live(s)
  BY <1>1 DEF Live
<1>4. \A s \in Runs : GoodLanding(s)'
  BY <1>1, <1>2, <1>3 DEF DownloadInv, GoodLanding
<1>5. ASSUME ~shared PROVE Alone'
  <2>1. Alone
    BY <1>5 DEF DownloadInv
  <2>2. ASSUME NEW s \in Runs, runs'[s].pc \notin {"idle", "stat"} PROVE Ahead(s)'
    <3>1. Ahead(s) /\ runs'[s].offset = runs[s].offset /\ runs'[s].writeError = runs[s].writeError
      BY <2>1, <2>2, <1>1 DEF Alone, Live
    <3>2. QED  BY <3>1, <1>2 DEF Ahead
  <2>3. QED
    BY <2>1, <2>2, <1>2, <1>3 DEF Alone
<1>8. ~overlong' => WithinRemote'
  BY <1>1, <1>2 DEF DownloadInv, WithinRemote
<1>6. slot' # NoRun => Live(slot)'
  BY <1>1, <1>2, <1>3 DEF DownloadInv, Live
<1>7. QED
  BY <1>1, <1>2, <1>4, <1>5, <1>6, <1>8 DEF DownloadInv

\* A run that ends; one that completes has come to the end of the file.
LEMMA EndGood ==
  ASSUME DownloadInv, NEW r \in Runs, Live(r), NEW done \in BOOLEAN, Stop(r, done), gaveUp' \in BOOLEAN,
         done => runs[r].pc = "completing"
  PROVE  DownloadInv'
<1>1. /\ runs' \in [Runs -> Run] /\ \A s \in Runs : GoodRun(runs'[s])
      /\ \A s \in Runs : runs'[s] = IF s = r THEN IdleRun ELSE runs[s]
  BY OneRun, IdleIsGood DEF Stop
<1>2. UNCHANGED <<length, wrong, landing, lost, shared, overlong>> /\ slot' = NoRun /\ complete' = done
  BY DEF Stop, file
<1>3. \A s \in Runs : Live(s)' => Live(s) /\ s # r /\ runs'[s] = runs[s]
  BY <1>1, IdleIsGood DEF Live
<1>4. \A s \in Runs : GoodLanding(s)'
  BY <1>1, <1>2, <1>3 DEF DownloadInv, GoodLanding
<1>5. ASSUME ~shared PROVE Alone'
  <2>1. Alone /\ runs[r] \in Run /\ GoodRun(runs[r]) /\ landing[r] \in Write
    BY <1>5 DEF DownloadInv
  <2>2. \A s \in Runs : ~Live(s)' /\ runs'[s].pc = "idle"
    BY <2>1, <1>3 DEF Alone, Live
  <2>3. ASSUME done
        PROVE  (overlong \/ length <= Size)
               /\ (lost \/ length >= Size \/ \E s \in Runs : landing[s].at + landing[s].len >= Size)
    <3>1. Ahead(r) /\ runs[r].offset >= Size /\ (overlong \/ length <= Size)
      BY <2>1, <2>3, RunFacts DEF Alone, GoodRun, Ahead, InRemote
    <3>2. CASE landing[r] = NoWrite
      BY <3>1, <3>2, <2>1 DEF Ahead, DownloadInv, Run, Last
    <3>3. CASE landing[r] # NoWrite
      <4>1. runs[r].offset = landing[r].at + landing[r].len
        BY <3>3 DEF DownloadInv, GoodLanding
      <4>2. QED  BY <3>1, <4>1
    <3>4. QED  BY <3>2, <3>3
  <2>4. QED
    BY <2>1, <2>2, <2>3, <1>2 DEF Alone
<1>6. ~overlong => WithinRemote'
  BY <1>1, <1>2, IdleIsGood DEF DownloadInv, WithinRemote
<1>7. QED
  BY <1>1, <1>2, <1>4, <1>5, <1>6 DEF DownloadInv

-----------------------------------------------------------------------------
\* What the scheduler and the process do.
LEMMA StartGood ==
  ASSUME DownloadInv, NEW r \in Runs, Start(r)
  PROVE  DownloadInv'
<1> DEFINE x == [IdleRun EXCEPT !.pc = "stat"]
<1>1. /\ slot = NoRun /\ ~Live(r) /\ landing[r] = NoWrite /\ slot' = r
      /\ shared' = (shared \/ \E s \in Runs : Live(s)) /\ complete' = FALSE /\ lost' = FALSE
      /\ gaveUp' = FALSE /\ runs' = [runs EXCEPT ![r] = x]
      /\ UNCHANGED <<length, wrong, landing, overlong>>
  <2>1. slot = NoRun /\ FreeRun(r) /\ slot' = r /\ complete' = FALSE /\ lost' = FALSE
        /\ gaveUp' = FALSE /\ runs' = [runs EXCEPT ![r] = x]
        /\ UNCHANGED <<length, wrong, landing, overlong>>
    BY DEF Start, file
  <2>2. shared' = (shared \/ \E s \in Runs : Live(s))
    BY DEF Start
  <2>3. QED  BY <2>1, <2>2 DEF FreeRun
<1>2. GoodRun(x) /\ x.pc = "stat" /\ InRemote(x)
  <2>1. IdleRun \in Run
    BY IdleIsGood DEF GoodRun
  <2>2. /\ x \in Run /\ x.pc = "stat" /\ x.body = IdleRun.body
        /\ x.open = IdleRun.open /\ x.writeError = IdleRun.writeError
    BY <2>1 DEF Run
  <2>3. QED
    BY <2>2, IdleIsGood DEF GoodRun, Fetched, InRemote
<1> HIDE DEF x
<1>3. /\ runs' \in [Runs -> Run] /\ \A s \in Runs : GoodRun(runs'[s])
      /\ \A s \in Runs : runs'[s] = IF s = r THEN x ELSE runs[s]
  BY <1>1, <1>2, OneRun
<1>4. \A s \in Runs : GoodLanding(s)'
  BY <1>1, <1>2, <1>3 DEF DownloadInv, GoodLanding, Live
<1>5. ASSUME ~shared' PROVE Alone'
  <2>1. ~shared /\ Alone /\ \A s \in Runs : runs[s].pc = "idle"
    BY <1>1, <1>5 DEF DownloadInv, Live
  <2>2. \A s \in Runs : runs'[s].pc \in {"idle", "stat"} /\ (runs'[s].pc # "idle" => s = r)
    BY <2>1, <1>2, <1>3
  <2>3. QED
    BY <2>1, <2>2, <1>1 DEF Alone, Live
<1>6. shared' \in BOOLEAN
  BY <1>1
<1>7. Live(r)'
  BY <1>2, <1>3 DEF Live
<1>8. ~overlong => WithinRemote'
  BY <1>1, <1>2, <1>3 DEF DownloadInv, WithinRemote
<1>9. QED
  BY <1>1, <1>3, <1>4, <1>5, <1>6, <1>7, <1>8 DEF DownloadInv

LEMMA PauseGood ==
  ASSUME DownloadInv, Pause \/ CancelTask
  PROVE  DownloadInv'
<1> DEFINE x == [runs[slot] EXCEPT !.cancelled = TRUE]
<1>1. slot \in Runs /\ Live(slot) /\ GoodRun(runs[slot]) /\ runs[slot] \in Run
  BY DEF DownloadInv, Pause, CancelTask
<1>2. /\ x \in Run /\ x.pc = runs[slot].pc /\ x.offset = runs[slot].offset
      /\ x.attempt = runs[slot].attempt /\ x.open = runs[slot].open
      /\ x.writeError = runs[slot].writeError /\ x.body = runs[slot].body
  BY <1>1 DEF Run
<1>3. runs' = [runs EXCEPT ![slot] = x] /\ UNCHANGED <<file, landing, ghosts>>
      /\ slot' \in {slot, NoRun}
  BY <1>1 DEF Pause, CancelTask, DownloadInv
<1> HIDE DEF x
<1>4. GoodRun(x) /\ x.pc # "idle" /\ (~overlong => InRemote(x))
  BY <1>1, <1>2, RunFacts DEF GoodRun, Live, InRemote
<1>5. QED
  BY <1>1, <1>2, <1>3, <1>4, QuietGood DEF ghosts, DownloadInv

\* No run is left; without the process no write in the background either.
LEMMA StopGood ==
  ASSUME DownloadInv, Shutdown \/ Crash
  PROVE  DownloadInv'
<1>1. /\ runs' = [r \in Runs |-> IdleRun] /\ slot' = NoRun /\ complete' \in BOOLEAN
      /\ UNCHANGED <<length, wrong, lost, shared, overlong, gaveUp>>
      /\ landing' = landing \/ landing' = [r \in Runs |-> NoWrite]
      /\ complete' => complete /\ \E r \in Runs : Live(r)
  <2>1. CASE Shutdown
    BY <2>1 DEF Shutdown, file, ghosts, DownloadInv
  <2>2. CASE Crash
    BY <2>2 DEF Crash, file
  <2>3. QED  BY <2>1, <2>2
<1>2. /\ runs' \in [Runs -> Run]
      /\ \A r \in Runs : runs'[r] = IdleRun /\ runs'[r].pc = "idle" /\ GoodRun(runs'[r])
  BY <1>1, IdleIsGood DEF GoodRun
<1>3. /\ landing' \in [Runs -> Write]
      /\ \A r \in Runs : landing'[r] # NoWrite => landing'[r] = landing[r]
  BY <1>1, NoWriteFacts DEF DownloadInv
<1>4. \A r \in Runs : GoodLanding(r)'
  BY <1>2, <1>3 DEF DownloadInv, GoodLanding, Live
<1>5. ASSUME ~shared PROVE Alone'
  <2>1. Alone /\ ~complete'
    BY <1>1, <1>5 DEF DownloadInv, Alone
  <2>2. QED
    BY <2>1, <1>1, <1>2, <1>3 DEF Alone, Live
<1>6. ~overlong => WithinRemote'
  BY NoWriteFacts, <1>1, <1>2, <1>3, IdleIsGood DEF DownloadInv, WithinRemote
<1>7. QED
  BY <1>1, <1>2, <1>3, <1>4, <1>5, <1>6 DEF DownloadInv

-----------------------------------------------------------------------------
\* The length of the local file is where the run goes on.
LEMMA StatGood ==
  ASSUME DownloadInv, NEW r \in Runs, Stat(r)
  PROVE  DownloadInv'
<1> DEFINE x == [runs[r] EXCEPT !.pc = "head", !.offset = length]
<1>1. /\ runs[r] \in Run /\ GoodRun(runs[r]) /\ runs[r].pc = "stat" /\ length \in 0..Last
      /\ runs' = [runs EXCEPT ![r] = x]
      /\ UNCHANGED <<length, wrong, landing, slot, complete, lost, shared, overlong, gaveUp>>
  BY DEF Stat, DownloadInv, file, ghosts
<1>2. /\ x \in Run /\ x.pc = "head" /\ x.offset = length /\ x.attempt = runs[r].attempt
      /\ x.open = runs[r].open /\ x.writeError = runs[r].writeError /\ x.body = runs[r].body
  BY <1>1 DEF Run
<1> HIDE DEF x
<1>3. GoodRun(x) /\ ~x.open /\ ~x.writeError
  BY <1>1, <1>2 DEF GoodRun, Fetched
<1>4. /\ runs' \in [Runs -> Run] /\ \A s \in Runs : GoodRun(runs'[s])
      /\ \A s \in Runs : runs'[s] = IF s = r THEN x ELSE runs[s]
  BY <1>1, <1>3, OneRun
<1>5. \A s \in Runs : Live(s)' <=> Live(s)
  BY <1>1, <1>2, <1>4 DEF Live
<1>6. \A s \in Runs : GoodLanding(s)'
  <2>1. landing[r] = NoWrite
    BY <1>1, RunFacts DEF GoodRun, GoodLanding, Live
  <2>2. QED
    BY <2>1, <1>1, <1>4, <1>5 DEF DownloadInv, GoodLanding
<1>7. ASSUME ~shared PROVE Alone'
  <2>1. Alone
    BY <1>7 DEF DownloadInv
  <2>2. \A s \in Runs : landing[s] # NoWrite => landing[s].at <= length /\ landing[s].at \in 0..Last
    BY <2>1 DEF Alone, DownloadInv, Write
  <2>3. Ahead(r)'
    BY <2>2, <1>1, <1>2, <1>3, <1>4 DEF Ahead, Last
  <2>4. \A s \in Runs : runs'[s].pc \notin {"idle", "stat"} => s = r
    BY <2>1, <1>1, <1>5 DEF Alone, Live
  <2>5. QED
    BY <2>1, <2>3, <2>4, <1>1, <1>5 DEF Alone
<1>8. slot' # NoRun => Live(slot)'
  BY <1>1, <1>5 DEF DownloadInv
<1>9. ~overlong => WithinRemote'
  BY <1>1, <1>2, <1>4 DEF DownloadInv, WithinRemote, InRemote
<1>10. QED
  BY <1>1, <1>4, <1>6, <1>7, <1>8, <1>9 DEF DownloadInv

-----------------------------------------------------------------------------
\* Steps of a run that leave its offset and its file alone.
LEMMA MoveGood ==
  ASSUME DownloadInv, NEW r \in Runs,
         Prepare(r) \/ Check(r) \/ NothingLeft(r) \/ BackoffEnds(r) \/ Metadata(r)
  PROVE  DownloadInv'
<1>1. runs[r] \in Run /\ GoodRun(runs[r]) /\ GoodLanding(r)
  BY RunFacts
<1>2. ASSUME NEW pc \in {"check", "get", "completing", "write"},
             NEW attempt \in 0..MaxRetries, NEW open \in BOOLEAN,
             runs' = [runs EXCEPT ![r] = [runs[r] EXCEPT !.pc = pc, !.attempt = attempt,
                                                         !.open = open]],
             runs[r].open => open, runs[r].pc \notin {"idle", "stat"},
             open => runs[r].open \/ landing[r] = NoWrite,
             runs[r].offset <= Size, pc = "completing" => runs[r].offset >= Size,
             IF runs[r].pc = "meta" THEN pc = "write" /\ open
             ELSE pc # "write" /\ runs[r].pc \notin Fetched /\ open = runs[r].open,
             UNCHANGED <<file, landing, slot, ghosts>>
      PROVE  DownloadInv'
  <2> DEFINE x == [runs[r] EXCEPT !.pc = pc, !.attempt = attempt, !.open = open]
  <2>1. /\ x \in Run /\ x.pc = pc /\ x.attempt = attempt /\ x.open = open
        /\ x.offset = runs[r].offset /\ x.writeError = runs[r].writeError
        /\ x.body = runs[r].body
    BY <1>1, <1>2 DEF Run
  <2>2. runs' = [runs EXCEPT ![r] = x]
    BY <1>2
  <2> HIDE DEF x
  <2>3. GoodRun(x)
    BY <2>1, <1>1, <1>2 DEF GoodRun, Fetched
  <2>4. x.open = (runs[r].open \/ (x.open /\ landing[r] = NoWrite))
    BY <2>1, <1>1, <1>2 DEF Run
  <2>5. Live(r) /\ x.pc # "idle" /\ (x.pc = "stat" <=> runs[r].pc = "stat")
    BY <2>1, <1>2 DEF Live
  <2>6. ~overlong => InRemote(x)
    BY <2>1, <1>2, RunFacts DEF InRemote
  <2>7. QED
    BY <2>1, <2>2, <2>3, <2>4, <2>5, <2>6, <1>2, QuietGood DEF ghosts, DownloadInv
<1>3. CASE Prepare(r)
  <2>1. runs' = [runs EXCEPT ![r] = [runs[r] EXCEPT !.pc = "check", !.attempt = runs[r].attempt,
                                                    !.open = runs[r].open]]
    BY <1>1, <1>3 DEF Prepare, Run, DownloadInv
  <2>2. QED  BY <2>1, <1>1, <1>2, <1>3 DEF Prepare, Run, Fetched
<1>4. CASE Check(r)
  <2>1. runs' = [runs EXCEPT ![r] = [runs[r] EXCEPT !.pc = "get", !.attempt = runs[r].attempt,
                                                    !.open = runs[r].open]]
    BY <1>1, <1>4 DEF Check, Run, DownloadInv
  <2>2. QED  BY <2>1, <1>1, <1>2, <1>4 DEF Check, Run, Fetched, GoodRun
<1>5. CASE NothingLeft(r)
  <2>1. runs' = [runs EXCEPT ![r] = [runs[r] EXCEPT !.pc = "completing", !.attempt = 0,
                                                    !.open = runs[r].open]]
    BY <1>1, <1>5 DEF NothingLeft, Run, DownloadInv
  <2>2. runs[r].offset >= Size /\ runs[r].offset <= Size
    BY <1>1, <1>5 DEF NothingLeft, Run, GoodRun
  <2>3. /\ 0 \in 0..MaxRetries /\ runs[r].open \in BOOLEAN /\ runs[r].pc = "get"
        /\ UNCHANGED <<file, landing, slot, ghosts>> /\ Size <= Size
    BY <1>1, <1>5 DEF NothingLeft, Run
  <2>4. QED  BY <2>1, <2>2, <2>3, <1>2 DEF Fetched
<1>6. CASE BackoffEnds(r)
  <2>1. runs' = [runs EXCEPT ![r] = [runs[r] EXCEPT !.pc = "check",
                                       !.attempt = runs[r].attempt + 1, !.open = runs[r].open]]
    BY <1>1, <1>6 DEF BackoffEnds, Run, DownloadInv
  <2>2. runs[r].attempt + 1 \in 0..MaxRetries
    BY <1>1, <1>6 DEF BackoffEnds, Run, GoodRun
  <2>3. QED  BY <2>1, <2>2, <1>1, <1>2, <1>6 DEF BackoffEnds, Run, Fetched, GoodRun
<1>7. CASE Metadata(r)
  <2>1. runs' = [runs EXCEPT ![r] = [runs[r] EXCEPT !.pc = "write", !.attempt = runs[r].attempt,
                                                    !.open = TRUE]]
    BY <1>1, <1>7 DEF Metadata, Run, DownloadInv
  <2>2. runs[r].open \/ landing[r] = NoWrite
    BY <1>1, <1>7 DEF GoodLanding, Metadata, Live
  <2>3. QED  BY <2>1, <2>2, <1>1, <1>2, <1>7 DEF Metadata, Run, Fetched, GoodRun
<1>8. QED
  BY <1>3, <1>4, <1>5, <1>6, <1>7

\* An accepted body starts at the offset, ends where the range ends, and is
\* noted when that is behind the remote's end.
LEMMA ReceiveGood ==
  ASSUME DownloadInv, NEW r \in Runs, Receive(r)
  PROVE  DownloadInv'
<1>1. /\ runs[r] \in Run /\ GoodRun(runs[r]) /\ runs[r].pc = "get" /\ runs[r].offset < Size
      /\ UNCHANGED <<file, landing, slot, complete, lost, shared, gaveUp>>
  BY RunFacts DEF Receive
<1>2. PICK a \in {b \in Answers : Accepts(b, runs[r].offset)} :
        runs' = [runs EXCEPT
                   ![r].pc = "open",
                   ![r].body = [at |-> runs[r].offset, from |-> a.start, len |-> a.len]]
  BY DEF Receive
<1>3. a.start = runs[r].offset /\ a.len \in 1..(Last - runs[r].offset)
  BY <1>1 DEF Answers, Accepts, ValidRange, Run, Last
<1> DEFINE b == [at |-> runs[r].offset, from |-> a.start, len |-> a.len]
           x == [runs[r] EXCEPT !.pc = "open", !.body = b]
<1>4. b \in Write /\ b.at = runs[r].offset /\ b.from = runs[r].offset /\ b.len = a.len
  BY <1>1, <1>3 DEF Write, Run, Last
<1>5. runs' = [runs EXCEPT ![r] = x]
  BY <1>1, <1>2 DEF DownloadInv
<1> HIDE DEF b
<1>6. /\ x \in Run /\ x.pc = "open" /\ x.attempt = runs[r].attempt /\ x.open = runs[r].open
      /\ x.offset = runs[r].offset /\ x.writeError = runs[r].writeError /\ x.body = b
  BY <1>1, <1>4 DEF Run
<1> HIDE DEF x
<1>7. GoodRun(x)
  BY <1>1, <1>3, <1>4, <1>6 DEF GoodRun, Fetched
<1>8. x.open = (runs[r].open \/ (x.open /\ landing[r] = NoWrite))
  BY <1>1, <1>6 DEF Run
<1>9. /\ overlong' = (overlong \/ b.at + b.len > Size)
      /\ ~overlong' => InRemote(x)
  <2>1. runs'[r] = x
    BY <1>5 DEF DownloadInv
  <2>2. overlong' = (overlong \/ b.at + b.len > Size)
    BY <2>1, <1>6 DEF Receive
  <2>3. b.at \in 0..Last /\ b.len \in 0..Last /\ runs[r].offset \in 0..Last
    BY <1>1, <1>4 DEF Write, Run
  <2>4. ~overlong' => ~(b.at + b.len > Size)
    BY <2>2
  <2>5. ~overlong' => InRemote(x)
    BY <2>3, <2>4, <1>1, <1>6 DEF InRemote, Last
  <2>6. QED  BY <2>2, <2>5
<1>10. /\ overlong' \in BOOLEAN /\ gaveUp' \in BOOLEAN /\ (overlong => overlong')
       /\ Live(r) /\ x.pc # "idle" /\ (x.pc = "stat" <=> runs[r].pc = "stat")
       /\ slot' \in {slot, NoRun}
  BY <1>1, <1>6, <1>9 DEF DownloadInv, Live
<1>11. QED
  BY <1>1, <1>5, <1>6, <1>7, <1>8, <1>9, <1>10, QuietGood

LEMMA BackoffGood ==
  ASSUME DownloadInv, NEW r \in Runs, RequestFails(r)
  PROVE  DownloadInv'
<1> DEFINE x == [runs[r] EXCEPT !.pc = "backoff"]
<1>1. runs[r] \in Run /\ GoodRun(runs[r]) /\ runs[r].pc = "get"
  BY RunFacts DEF RequestFails
<1>2. CASE runs[r].attempt < MaxRetries
  <2>1. runs' = [runs EXCEPT ![r] = x] /\ UNCHANGED <<file, landing, slot, ghosts>>
    BY <1>1, <1>2 DEF RequestFails, DownloadInv
  <2>2. /\ x \in Run /\ x.pc = "backoff" /\ x.attempt = runs[r].attempt /\ x.open = runs[r].open
        /\ x.offset = runs[r].offset /\ x.writeError = runs[r].writeError
        /\ x.body = runs[r].body
    BY <1>1 DEF Run
  <2> HIDE DEF x
  <2>3. GoodRun(x)
    BY <1>1, <1>2, <2>2 DEF GoodRun, Fetched
  <2>4. x.open = (runs[r].open \/ (x.open /\ landing[r] = NoWrite))
    BY <1>1, <2>2 DEF Run
  <2>5. ~overlong => InRemote(x)
    BY <1>1, <2>2, RunFacts DEF InRemote
  <2>6. QED
    BY <1>1, <2>1, <2>2, <2>3, <2>4, <2>5, QuietGood DEF Live, ghosts, DownloadInv
<1>3. CASE ~(runs[r].attempt < MaxRetries)
  BY <1>1, <1>3, EndGood DEF RequestFails, Live, End, DownloadInv
<1>4. QED
  BY <1>2, <1>3

\* The ends of a run.
LEMMA EndsGood ==
  ASSUME DownloadInv, NEW r \in Runs,
         \/ PrepareFails(r) \/ ObserveCancel(r) \/ Refuse(r) \/ LengthMismatch(r)
         \/ DiskFails(r) \/ WriteReportsError(r) \/ Complete(r)
  PROVE  DownloadInv'
<1>1. CASE Complete(r)
  BY <1>1, EndGood DEF Complete, Live, End, DownloadInv
<1>2. CASE ~Complete(r)
  <2>1. Stop(r, FALSE) /\ Live(r) /\ gaveUp' \in BOOLEAN
    <3>1. CASE Refuse(r)
      BY <3>1 DEF Refuse, Live, DownloadInv
    <3>2. CASE ~Refuse(r)
      BY <3>2, <1>2 DEF PrepareFails, ObserveCancel, LengthMismatch, DiskFails,
                        WriteReportsError, Live, End, DownloadInv
    <3>3. QED  BY <3>1, <3>2
  <2>2. QED  BY <2>1, EndGood
<1>3. QED  BY <1>1, <1>2

-----------------------------------------------------------------------------
\* The file is emptied only by a run at offset 0, when every write that is
\* still in the background starts at 0 as well.
LEMMA OpenGood ==
  ASSUME DownloadInv, NEW r \in Runs, Open(r)
  PROVE  DownloadInv'
<1> DEFINE x == [runs[r] EXCEPT !.pc = IF runs[r].offset = 0 \/ runs[r].open THEN "write" ELSE "meta",
                                !.open = runs[r].offset = 0 \/ runs[r].open]
<1>1. /\ runs[r] \in Run /\ GoodRun(runs[r]) /\ GoodLanding(r) /\ runs[r].pc = "open"
      /\ UNCHANGED <<landing, slot, complete, lost, shared, overlong, gaveUp>>
      /\ runs' = [runs EXCEPT ![r] = x]
      /\ IF runs[r].offset = 0 THEN length' = 0 /\ wrong' = {} ELSE UNCHANGED <<length, wrong>>
  BY RunFacts DEF Open, DownloadInv, file, ghosts
<1>2. /\ x \in Run /\ x.pc = (IF x.open THEN "write" ELSE "meta")
      /\ x.open = (runs[r].offset = 0 \/ runs[r].open)
      /\ x.offset = runs[r].offset /\ x.writeError = runs[r].writeError
      /\ x.body = runs[r].body /\ x.attempt = runs[r].attempt
  BY <1>1 DEF Run
<1> HIDE DEF x
<1>3. GoodRun(x)
  BY <1>1, <1>2 DEF GoodRun, Fetched
<1>7. ~overlong => InRemote(x)
  BY <1>1, <1>2, RunFacts DEF InRemote
<1>4. CASE runs[r].offset # 0
  <2>1. UNCHANGED <<file, landing, slot, ghosts>> /\ x.open = runs[r].open
    BY <1>1, <1>2, <1>4 DEF file, ghosts, Run
  <2>2. x.open = (runs[r].open \/ (x.open /\ landing[r] = NoWrite))
    BY <2>1, <1>1, <1>2 DEF Run
  <2>3. /\ UNCHANGED <<complete, lost, shared>> /\ overlong' \in BOOLEAN
        /\ gaveUp' \in BOOLEAN /\ (overlong => overlong') /\ (~overlong' => InRemote(x))
        /\ slot' \in {slot, NoRun}
    BY <1>1, <1>7 DEF DownloadInv
  <2>4. Live(r) /\ x.pc # "idle" /\ (x.pc = "stat" <=> runs[r].pc = "stat")
    BY <1>1, <1>2 DEF Live
  <2>5. QED
    BY <2>1, <2>2, <2>3, <2>4, <1>1, <1>2, <1>3, QuietGood
<1>5. CASE runs[r].offset = 0
  <2>1. /\ runs' \in [Runs -> Run] /\ \A s \in Runs : GoodRun(runs'[s])
        /\ \A s \in Runs : runs'[s] = IF s = r THEN x ELSE runs[s]
    BY <1>1, <1>3, OneRun
  <2>2. (\A s \in Runs : Live(s)' <=> Live(s)) /\ length' = 0 /\ wrong' = {} /\ Live(r)
    BY <2>1, <1>1, <1>2, <1>5 DEF Live
  <2>3. \A s \in Runs : GoodLanding(s)'
    BY <2>1, <2>2, <1>1, <1>2 DEF DownloadInv, GoodLanding
  <2>4. ASSUME ~shared PROVE Alone'
    <3>1. Alone /\ Ahead(r)
      BY <2>4, <1>1 DEF DownloadInv, Alone
    <3>2. \A s \in Runs : landing[s] # NoWrite => landing[s].at = 0
      BY <3>1, <1>5 DEF Ahead
    <3>3. Ahead(r)'
      BY <3>1, <3>2, <2>1, <2>2, <1>1, <1>2, <1>5 DEF Ahead
    <3>4. \A s \in Runs : runs'[s].pc # "idle" => s = r
      BY <3>1, <2>2 DEF Alone, Live
    <3>5. ~complete
      BY <3>1, <2>2 DEF Alone
    <3>6. \A s \in Runs : runs'[s].pc \notin {"idle", "stat"} => Ahead(s)'
      BY <3>3, <3>4
    <3>7. \A s, t \in Runs : Live(s)' /\ Live(t)' => s = t
      BY <3>1, <2>2 DEF Alone
    <3>8. \A s \in Runs : landing'[s] # NoWrite => landing'[s].at <= length'
      BY <3>2, <2>2, <1>1
    <3>9. wrong' = {} /\ ~complete'
      BY <3>5, <2>2, <1>1
    <3>10. QED
      BY <3>6, <3>7, <3>8, <3>9 DEF Alone
  <2>5. slot' # NoRun => Live(slot)'
    BY <2>2, <1>1 DEF DownloadInv
  <2>6. ~overlong => WithinRemote'
    BY <2>1, <1>1, <1>7 DEF DownloadInv, WithinRemote
  <2>7. 0 \in 0..Last /\ {} \subseteq Remote
    BY DEF Last
  <2>8. QED
    BY <2>1, <2>2, <2>3, <2>4, <2>5, <2>6, <2>7, <1>1 DEF DownloadInv
<1>6. QED
  BY <1>4, <1>5

\* A chunk goes to the background when nothing of the run's is there, and
\* starts where the file has come to.
LEMMA WriteChunkGood ==
  ASSUME DownloadInv, NEW r \in Runs, WriteChunk(r)
  PROVE  DownloadInv'
<1> DEFINE w == runs[r].body
           next == runs[r].offset + runs[r].body.len
           x == [runs[r] EXCEPT !.pc = IF next >= Size THEN "completing" ELSE "check",
                                !.offset = next, !.attempt = 0, !.body = NoWrite]
<1>1. /\ runs[r] \in Run /\ GoodRun(runs[r]) /\ runs[r].pc = "write" /\ length \in 0..Last
      /\ landing[r] = NoWrite /\ ~runs[r].writeError
      /\ UNCHANGED <<length, wrong, slot, complete, lost, shared, overlong, gaveUp>>
      /\ runs' = [runs EXCEPT ![r] = x] /\ landing' = [landing EXCEPT ![r] = w]
  BY RunFacts DEF WriteChunk, DownloadInv, file, ghosts
<1>2. /\ w \in Write /\ w.at = runs[r].offset /\ w.from = w.at /\ w.len \in 1..(Last - w.at)
      /\ runs[r].offset \in 0..Size /\ next \in 1..Last /\ next = w.at + w.len
      /\ NoWrite \in Write /\ w # NoWrite /\ runs[r].open
      /\ ~overlong => next <= Size
  BY <1>1, RunFacts DEF GoodRun, Run, Write, Fetched, NoWrite, InRemote, Last
<1>3. /\ x \in Run /\ x.pc = (IF next >= Size THEN "completing" ELSE "check")
      /\ x.open = runs[r].open /\ x.offset = next /\ x.writeError = runs[r].writeError
      /\ x.body = NoWrite
  <2> DEFINE p == IF next >= Size THEN "completing" ELSE "check"
  <2>1. 0 \in 0..MaxRetries /\ p \in {"completing", "check"}
        /\ p = (IF next >= Size THEN "completing" ELSE "check") /\ next \in 0..Last
    BY <1>2
  <2> HIDE DEF p
  <2>2. x = [runs[r] EXCEPT !.pc = p, !.offset = next, !.attempt = 0, !.body = NoWrite]
    BY DEF p
  <2> HIDE DEF x
  <2>3. x \in Run /\ x.pc = p /\ x.open = runs[r].open /\ x.offset = next
        /\ x.writeError = runs[r].writeError /\ x.body = NoWrite
    BY <2>1, <2>2, <1>1, <1>2 DEF Run
  <2>4. QED  BY <2>1, <2>3
<1> HIDE DEF x, w, next
<1>4. GoodRun(x) /\ (~overlong => InRemote(x))
  BY <1>1, <1>2, <1>3 DEF GoodRun, Fetched, InRemote, NoWrite, Last
<1>5. /\ runs' \in [Runs -> Run] /\ \A s \in Runs : GoodRun(runs'[s])
      /\ \A s \in Runs : runs'[s] = IF s = r THEN x ELSE runs[s]
  BY <1>1, <1>4, OneRun
<1>6. /\ landing' \in [Runs -> Write]
      /\ \A s \in Runs : landing'[s] = IF s = r THEN w ELSE landing[s]
  BY <1>1, <1>2 DEF DownloadInv
<1>7. (\A s \in Runs : Live(s)' <=> Live(s)) /\ Live(r)
  BY <1>1, <1>3, <1>5 DEF Live
<1>8. ASSUME NEW s \in Runs PROVE GoodLanding(s)'
  <2>1. CASE s = r
    BY <2>1, <1>2, <1>3, <1>5, <1>6 DEF GoodLanding
  <2>2. CASE s # r
    BY <2>2, <1>5, <1>6, <1>7 DEF DownloadInv, GoodLanding
  <2>3. QED  BY <2>1, <2>2
<1>9. ASSUME ~shared PROVE Alone'
  <2>1. Alone /\ Ahead(r) /\ ~complete
    BY <1>9, <1>1, <1>7 DEF DownloadInv, Alone
  <2>2. runs[r].offset <= length /\ (~overlong => length <= Size)
    BY <2>1, <1>1, <1>2 DEF Ahead
  <2>3. Ahead(r)'
    BY <2>2, <1>1, <1>2, <1>3, <1>5, <1>6 DEF Ahead
  <2>4. \A s \in Runs : runs'[s].pc # "idle" => s = r
    BY <2>1, <1>7 DEF Alone, Live
  <2>5. \A s \in Runs : landing'[s] # NoWrite => landing'[s].at <= length
    BY <2>1, <2>2, <1>2, <1>6 DEF Alone
  <2>6. QED
    BY <2>1, <2>3, <2>4, <2>5, <1>1, <1>7 DEF Alone
<1>10. slot' # NoRun => Live(slot)'
  BY <1>1, <1>7 DEF DownloadInv
<1>11. ~overlong => WithinRemote'
  BY <1>1, <1>2, <1>4, <1>5, <1>6 DEF DownloadInv, WithinRemote
<1>12. QED
  BY <1>1, <1>5, <1>6, <1>8, <1>9, <1>10, <1>11 DEF DownloadInv

-----------------------------------------------------------------------------
\* What a write, or the first part of one, does to the file.
LEMMA PutType ==
  ASSUME DownloadInv, NEW w \in Write, w.at + w.len <= Last, PutInFile(w)
  PROVE  length' \in 0..Last /\ wrong' \subseteq Remote
<1>1. length \in 0..Last /\ w.at \in 0..Last /\ w.len \in 0..Last
  BY DEF DownloadInv, Write
<1>2. QED  BY <1>1 DEF PutInFile, Last

LEMMA PutRight ==
  ASSUME DownloadInv, NEW w \in Write, w.at + w.len <= Last, PutInFile(w),
         wrong = {}, w.from = w.at, w.at <= length
  PROVE  /\ wrong' = {} /\ length <= length' /\ w.at + w.len <= length'
         /\ length <= Size /\ w.at + w.len <= Size => length' <= Size
<1>1. length \in 0..Last /\ w.at \in 0..Last /\ w.len \in 0..Last
  BY DEF DownloadInv, Write
<1>2. length..(w.at - 1) = {}
  BY <1>1 DEF Last
<1>3. wrong' = {}
  BY <1>2 DEF PutInFile
<1>4. QED
  BY <1>1, <1>3 DEF PutInFile, Last

\* The write comes to its end, or fails after a part of it.
LEMMA DiskGood ==
  ASSUME DownloadInv, NEW r \in Runs, Land(r) \/ LandFails(r)
  PROVE  DownloadInv'
<1>1. /\ landing[r] # NoWrite /\ landing[r] \in Write /\ GoodLanding(r)
      /\ runs[r] \in Run /\ GoodRun(runs[r])
      /\ landing' = [landing EXCEPT ![r] = NoWrite]
      /\ UNCHANGED <<slot, complete, shared, overlong, gaveUp>>
  BY RunFacts DEF Land, LandFails, ghosts
<1>2. /\ landing[r].at \in 0..Last /\ landing[r].len \in 1..(Last - landing[r].at)
      /\ landing[r].from = landing[r].at
      /\ ~overlong => landing[r].at + landing[r].len <= Size
  BY <1>1, RunFacts DEF GoodLanding, Write
<1>3. PICK w \in Write : /\ PutInFile(w) /\ w.at = landing[r].at /\ w.from = w.at
                         /\ w.at + w.len <= Last /\ (~overlong => w.at + w.len <= Size)
                         /\ Land(r) => w = landing[r]
  <2>1. CASE Land(r)
    BY <2>1, <1>1, <1>2 DEF Land, Last
  <2>2. CASE ~Land(r)
    <3>1. PICK n \in 0..(landing[r].len - 1) : PutInFile([landing[r] EXCEPT !.len = n])
      BY <2>2 DEF LandFails
    <3>2. /\ n \in 0..Last /\ landing[r].at + n <= Last
          /\ ~overlong => landing[r].at + n <= Size
      BY <1>2 DEF Last
    <3> DEFINE w == [landing[r] EXCEPT !.len = n]
    <3>3. w \in Write /\ w.at = landing[r].at /\ w.from = landing[r].from /\ w.len = n
      BY <3>2, <1>1 DEF Write
    <3> HIDE DEF w
    <3>4. QED  BY <3>1, <3>2, <3>3, <2>2, <1>2 DEF w
  <2>3. QED  BY <2>1, <2>2
<1>4. length' \in 0..Last /\ wrong' \subseteq Remote
  BY <1>3, PutType
<1>5. /\ landing' \in [Runs -> Write] /\ landing'[r] = NoWrite
      /\ \A s \in Runs : s # r => landing'[s] = landing[s]
  BY <1>1, NoWriteFacts DEF DownloadInv
<1>6. /\ lost' \in BOOLEAN /\ (lost => lost') /\ (LandFails(r) => lost')
      /\ Land(r) => lost' = lost /\ runs' = runs
  BY DEF Land, LandFails, ghosts, DownloadInv
<1> DEFINE x == [runs[r] EXCEPT !.writeError = Live(r)]
<1>7. /\ x \in Run /\ x.pc = runs[r].pc /\ x.open = runs[r].open /\ x.body = runs[r].body
      /\ x.offset = runs[r].offset /\ x.attempt = runs[r].attempt
      /\ x.writeError = Live(r)
  <2>1. Live(r) \in BOOLEAN
    BY DEF Live
  <2>2. QED  BY <2>1, <1>1 DEF Run
<1>8. GoodRun(x)
  <2>1. CASE Live(r)
    BY <2>1, <1>1, <1>7 DEF GoodRun, GoodLanding, Live, Fetched
  <2>2. CASE ~Live(r)
    <3>1. runs[r] = IdleRun /\ x.writeError = FALSE
      BY <2>2, <1>1, <1>7 DEF GoodRun, Live
    <3>4. x.cancelled = runs[r].cancelled
      BY <1>1 DEF Run
    <3> HIDE DEF x
    <3>2. x = IdleRun
      BY <3>1, <3>4, <1>7, IdleIsGood, SameRun DEF GoodRun, IdleRun
    <3>3. QED  BY <3>2, IdleIsGood
  <2>3. QED  BY <2>1, <2>2
<1> HIDE DEF x
<1>9. /\ runs' \in [Runs -> Run]
      /\ \A s \in Runs :
           /\ GoodRun(runs'[s]) /\ runs'[s].pc = runs[s].pc
           /\ runs'[s].offset = runs[s].offset /\ runs'[s].open = runs[s].open
           /\ runs'[s].body = runs[s].body
           /\ s # r => runs'[s] = runs[s]
      /\ LandFails(r) => runs'[r].writeError = Live(r)
  <2>1. CASE ~LandFails(r)
    BY <2>1, <1>6 DEF DownloadInv
  <2>2. CASE LandFails(r)
    <3>1. runs' = [runs EXCEPT ![r] = x]
      BY <2>2 DEF LandFails, x, DownloadInv
    <3>2. QED  BY <3>1, <1>7, <1>8, OneRun
  <2>3. QED  BY <2>1, <2>2
<1>10. \A s \in Runs : Live(s)' <=> Live(s)
  BY <1>9 DEF Live
<1>11. ASSUME NEW s \in Runs PROVE GoodLanding(s)'
  <2>1. GoodLanding(s) /\ (Live(s)' <=> Live(s))
    BY <1>10 DEF DownloadInv
  <2>2. CASE s = r
    BY <2>2, <1>5 DEF GoodLanding
  <2>3. CASE s # r
    <3>1. landing'[s] = landing[s] /\ runs'[s] = runs[s]
      BY <2>3, <1>5, <1>9
    <3>2. QED  BY <3>1, <2>1 DEF GoodLanding
  <2>4. QED  BY <2>2, <2>3
<1>12. ASSUME ~shared PROVE Alone'
  <2>1. Alone /\ landing[r].at <= length
    BY <1>12, <1>1 DEF DownloadInv, Alone
  <2>2. /\ wrong' = {} /\ length <= length' /\ w.at + w.len <= length'
        /\ ~overlong /\ length <= Size => length' <= Size
    BY <1>3, <2>1, PutRight DEF Alone
  <2>3. /\ length \in 0..Last
        /\ Land(r) => landing[r].at + landing[r].len <= length'
    BY <1>3, <2>2 DEF DownloadInv
  <2>4. \A s \in Runs : landing'[s] # NoWrite =>
          landing'[s] = landing[s] /\ landing[s].at \in 0..Last /\ landing[s].at <= length
    BY <2>1, <1>5 DEF Alone, DownloadInv, Write
  <2>5. ASSUME NEW s \in Runs, landing'[s] # NoWrite PROVE landing'[s].at <= length'
    <3>1. /\ landing'[s].at \in 0..Last /\ landing'[s].at <= length
          /\ length \in 0..Last
      BY <2>3, <2>4, <2>5
    <3>2. QED  BY <3>1, <2>2, <1>4 DEF Last
  <2>6. ASSUME NEW s \in Runs, runs'[s].pc \notin {"idle", "stat"} PROVE Ahead(s)'
    <3>1. Ahead(s) /\ runs[s] \in Run /\ Live(s)
      BY <2>1, <2>6, <1>9 DEF Alone, DownloadInv, Live
    <3>2. /\ runs'[s].offset = runs[s].offset /\ runs[s].offset \in 0..Last
          /\ length \in 0..Last
      BY <3>1, <1>9 DEF Run, DownloadInv
    <3>3. runs'[s].offset = 0 => \A t \in Runs : landing'[t] # NoWrite => landing'[t].at = 0
      BY <3>1, <3>2, <2>4 DEF Ahead
    <3>4. ~overlong' /\ runs'[s].offset <= Size => length' <= Size
      BY <3>1, <3>2, <2>2, <1>1 DEF Ahead
    <3>5. /\ landing'[s] = NoWrite /\ ~runs'[s].writeError => runs'[s].offset <= length'
          /\ runs'[s].writeError => lost'
      <4>1. CASE s # r
        <5>1. landing'[s] = landing[s] /\ runs'[s] = runs[s]
          BY <4>1, <1>5, <1>9
        <5>2. runs[s].writeError => lost'
          BY <3>1, <1>6 DEF Ahead
        <5>3. landing[s] = NoWrite /\ ~runs[s].writeError => runs[s].offset <= length'
          BY <3>1, <3>2, <2>2, <1>4 DEF Ahead, Last
        <5>4. QED  BY <5>1, <5>2, <5>3
      <4>2. CASE s = r /\ Land(r)
        <5>1. runs[r].offset = landing[r].at + landing[r].len
          BY <4>2, <3>1, <1>1 DEF GoodLanding
        <5>2. runs'[s].offset <= length'
          BY <5>1, <4>2, <3>2, <2>3
        <5>3. runs'[s].writeError => lost'
          BY <4>2, <3>1, <1>6 DEF Ahead
        <5>4. QED  BY <5>2, <5>3
      <4>3. CASE s = r /\ LandFails(r)
        BY <4>3, <3>1, <1>6, <1>9
      <4>4. QED  BY <4>1, <4>2, <4>3
    <3>6. QED
      BY <3>3, <3>4, <3>5 DEF Ahead
  <2>7. ASSUME complete
        PROVE  /\ \A s \in Runs : ~Live(s)'
               /\ overlong' \/ length' <= Size
               /\ lost' \/ length' >= Size
                  \/ \E s \in Runs : landing'[s].at + landing'[s].len >= Size
    <3>1. /\ \A s \in Runs : ~Live(s)
          /\ overlong \/ length <= Size
          /\ lost \/ length >= Size \/ \E s \in Runs : landing[s].at + landing[s].len >= Size
      BY <2>1, <2>7 DEF Alone
    <3>2. /\ overlong' \/ length' <= Size
          /\ length' \in 0..Last /\ length \in 0..Last
      BY <3>1, <2>2, <1>1, <1>4 DEF DownloadInv
    <3>3. CASE length >= Size
      BY <3>1, <3>2, <3>3, <2>2, <1>10 DEF Last
    <3>4. ASSUME NEW s \in Runs, landing[s].at + landing[s].len >= Size
          PROVE  lost' \/ length' >= Size \/ \E t \in Runs : landing'[t].at + landing'[t].len >= Size
      <4>1. CASE s # r
        BY <4>1, <3>4, <1>5
      <4>2. CASE s = r /\ Land(r)
        BY <4>2, <3>4, <3>2, <2>3, <1>2 DEF Last
      <4>3. CASE LandFails(r)
        BY <4>3, <1>6
      <4>4. QED  BY <4>1, <4>2, <4>3
    <3>5. CASE lost
      BY <3>1, <3>2, <3>5, <1>6, <1>10
    <3>6. QED
      BY <3>1, <3>2, <3>3, <3>4, <3>5, <1>10
  <2>8. \A s, t \in Runs : Live(s)' /\ Live(t)' => s = t
    BY <2>1, <1>10 DEF Alone
  <2>9. QED
    BY <2>2, <2>5, <2>6, <2>7, <2>8, <1>1 DEF Alone
<1>13. slot' # NoRun => Live(slot)'
  BY <1>1, <1>10 DEF DownloadInv
<1>14. ~overlong' => WithinRemote'
  <2>2. ASSUME ~overlong, NEW s \in Runs
        PROVE  InRemote(runs'[s]) /\ landing'[s].at + landing'[s].len <= Size
    <3>1. InRemote(runs[s]) /\ landing[s].at + landing[s].len <= Size
      BY <2>2, RunFacts
    <3>2. runs'[s].body = runs[s].body
      BY <1>9
    <3>3. QED  BY <3>1, <3>2, <1>5, <1>9, NoWriteFacts DEF InRemote
  <2>3. QED  BY <2>2, <1>1 DEF WithinRemote
<1>15. QED
  BY <1>1, <1>4, <1>5, <1>6, <1>9, <1>11, <1>12, <1>13, <1>14 DEF DownloadInv

-----------------------------------------------------------------------------
\* The inductive invariant.
LEMMA InitGood == Init => DownloadInv
<1> SUFFICES ASSUME Init PROVE DownloadInv
  OBVIOUS
<1>1. /\ length \in 0..Last /\ wrong = {} /\ slot = NoRun
      /\ ~complete /\ ~lost /\ ~shared
      /\ {complete, lost, shared, overlong, gaveUp} \subseteq BOOLEAN
  BY DEF Init
<1>2. /\ runs \in [Runs -> Run]
      /\ \A r \in Runs : runs[r] = IdleRun /\ runs[r].pc = "idle" /\ GoodRun(runs[r])
  BY IdleIsGood DEF Init, GoodRun
<1>3. landing \in [Runs -> Write] /\ \A r \in Runs : landing[r] = NoWrite
  BY NoWriteFacts DEF Init
<1>4. \A r \in Runs : GoodLanding(r)
  BY <1>3 DEF GoodLanding
<1>5. Alone
  BY <1>1, <1>2, <1>3 DEF Alone, Live
<1>6. WithinRemote
  BY NoWriteFacts, <1>2, <1>3, IdleIsGood DEF WithinRemote
<1>7. QED
  BY <1>1, <1>2, <1>3, <1>4, <1>5, <1>6 DEF DownloadInv

LEMMA NextGood == DownloadInv /\ [Next]_vars => DownloadInv'
<1> SUFFICES ASSUME DownloadInv, [Next]_vars PROVE DownloadInv'
  OBVIOUS
<1>1. CASE Environment
  BY <1>1, PauseGood, StopGood DEF Environment
<1>2. ASSUME NEW r \in Runs, Start(r) PROVE DownloadInv'
  BY <1>2, StartGood
<1>3. ASSUME NEW r \in Runs, RunStep(r) PROVE DownloadInv'
  BY <1>3, StatGood, MoveGood, ReceiveGood, BackoffGood, EndsGood, OpenGood, WriteChunkGood
     DEF RunStep
<1>4. ASSUME NEW r \in Runs, Disk(r) PROVE DownloadInv'
  BY <1>4, DiskGood DEF Disk
<1>5. CASE UNCHANGED vars
  <2>1. UNCHANGED <<length, wrong, runs, landing, slot, complete, lost, shared, overlong, gaveUp>>
    BY <1>5 DEF vars, file, ghosts
  <2>2. (\A r \in Runs : GoodLanding(r)') /\ (~shared => Alone')
    BY <2>1 DEF DownloadInv, GoodLanding, Alone, Ahead, Live
  <2>3. slot' # NoRun => Live(slot)'
    BY <2>1 DEF DownloadInv, Live
  <2>4. ~overlong' => WithinRemote'
    BY <2>1 DEF DownloadInv, WithinRemote
  <2>5. QED  BY <2>1, <2>2, <2>3, <2>4 DEF DownloadInv
<1>6. QED
  BY <1>1, <1>2, <1>3, <1>4, <1>5 DEF Next

\* The inductive invariant of the download: what a run and a late write rely
\* on is the length of the file.
THEOREM DownloadCorrect == Spec => []DownloadInv
BY InitGood, NextGood, PTL DEF Spec

\* Every variable holds a value of its kind, and a run that still has a chunk to
\* fetch is at most at the remote's end: prepare fails behind it, and a chunk
\* that goes behind it, which the checks let through, is the run's last.
THEOREM DownloadTypeOK == Spec => []TypeOK
<1>1. ASSUME DownloadInv PROVE TypeOK
  <2>1. \A r \in Runs :
          runs[r].pc \notin {"idle", "stat", "head", "completing"} => runs[r].offset <= Size
    BY <1>1 DEF DownloadInv, GoodRun
  <2>2. QED
    BY <1>1, <2>1 DEF DownloadInv, TypeOK
<1>2. QED  BY <1>1, DownloadCorrect, PTL

\* As long as no run starts beside a live one, what the file holds of the
\* remote's positions are the remote's units: over pauses and resumes with a
\* write still in the background, failed writes, retries, shutdowns, crashes and
\* every answer the checks let through, one that reaches behind the remote's end
\* among them.
THEOREM NothingWrongInFile == Spec => []ContentIsRight
<1>1. DownloadInv => ContentIsRight
  BY DEF DownloadInv, Alone, ContentIsRight
<1>2. QED  BY <1>1, DownloadCorrect, PTL

\* No write starts behind the end of the file.
THEOREM WritesJoin == Spec => []NoGapAhead
<1>1. ASSUME DownloadInv, ~shared, NEW r \in Runs
      PROVE  /\ landing[r] # NoWrite => landing[r].at <= length
             /\ runs[r].open /\ ~runs[r].writeError /\ landing[r] = NoWrite
                => runs[r].offset <= length
  BY <1>1, RunFacts DEF GoodRun, Ahead
<1>2. DownloadInv => NoGapAhead
  BY <1>1 DEF NoGapAhead
<1>3. QED  BY <1>2, DownloadCorrect, PTL

\* A download that was reported complete holds all of the remote when its writes
\* have landed, unless one of them failed unseen; it is longer than the remote
\* only when a range behind the remote's end was accepted.
THEOREM CompleteLands == Spec => []CompletedLandsWhole
<1>1. ASSUME DownloadInv, complete, ~shared, ~lost, AllLanded
      PROVE  length >= Size /\ wrong = {} /\ (overlong \/ length = Size)
  <2>1. Alone /\ ~(NoWrite.at + NoWrite.len >= Size) /\ length \in 0..Last
    BY <1>1 DEF DownloadInv, NoWrite
  <2>2. length >= Size
    BY <2>1, <1>1 DEF Alone, AllLanded
  <2>3. QED  BY <2>1, <2>2, <1>1 DEF Alone, Last
<1>2. DownloadInv => CompletedLandsWhole
  BY <1>1 DEF CompletedLandsWhole
<1>3. QED  BY <1>2, DownloadCorrect, PTL
-----------------------------------------------------------------------------
\* The run implements what RunGroup takes for granted of an HTTP client.

\* What RunGroup sees of a run is one of its runs.
LEMMA GroupRunType ==
  ASSUME NEW x, GoodRun(x)
  PROVE  /\ AsGroupRun(x) \in Group!Run
         /\ AsGroupRun(x).pc = GroupPc(x)
         /\ AsGroupRun(x).offset = IF GroupPc(x) = "prepare" THEN 0 ELSE x.offset
         /\ AsGroupRun(x).attempt = x.attempt /\ AsGroupRun(x).cancelled = x.cancelled
         /\ AsGroupRun(x).task = IF x.pc = "idle" THEN "none" ELSE "task"
<1>1. x \in Run /\ (x.pc = "idle" => x.offset = 0)
  BY IdleIsGood DEF GoodRun
<1> DEFINE p == GroupPc(x)
<1>2. /\ p \in {"idle", "prepare", "check", "transfer", "backoff", "completing"}
      /\ p = "prepare" <=> x.pc \in {"stat", "head"}
  BY <1>1 DEF GroupPc, Run
<1> HIDE DEF p
<1>3. x.offset \in 0..Last /\ x.attempt \in 0..MaxRetries /\ x.cancelled \in BOOLEAN
      /\ x.pc \in {"idle", "stat", "head", "check", "get", "open", "meta", "write",
                   "backoff", "completing"}
  BY <1>1 DEF Run
<1> DEFINE o == IF p = "prepare" THEN 0 ELSE x.offset
<1>4. o \in 0..Last
  BY <1>1, <1>2, <1>3 DEF Last
<1> HIDE DEF o
<1>5. AsGroupRun(x) = [task |-> IF x.pc = "idle" THEN "none" ELSE "task", pc |-> p,
                       offset |-> o, attempt |-> x.attempt, cancelled |-> x.cancelled]
  BY DEF AsGroupRun, p, o
<1>6. QED
  BY <1>2, <1>3, <1>4, <1>5 DEF Group!Run, Group!Last, Last, p, o

\* A step that changes one run changes that run only as RunGroup sees it.
LEMMA OneGroupRun ==
  ASSUME DownloadInv, NEW r \in Runs, NEW x, runs' = [runs EXCEPT ![r] = x]
  PROVE  /\ GroupRuns' = [GroupRuns EXCEPT ![r] = AsGroupRun(x)]
         /\ GroupRuns[r] = AsGroupRun(runs[r])
         /\ runs'[r] = x
BY DEF GroupRuns, DownloadInv

\* The constants of RunGroup are given such that nothing but the runs changes.
LEMMA NothingElseChanges ==
  UNCHANGED <<Group!tables, Group!control, <<>>, <<>>, <<>>, {}>>
BY DEF Group!tables, Group!control

\* Whoever sends sends to nobody, so that the channel is never in the way.
LEMMA SentToNobody ==
  ASSUME NEW type, NEW r, NEW offset
  PROVE  Group!CanSend /\ Group!Send(type, r, offset) = <<>>
BY DEF Group!CanSend, Group!Send

\* How a step of one run looks to RunGroup.
LEMMA SeenStep ==
  ASSUME DownloadInv, DownloadInv', NEW r \in Runs, NEW x, runs' = [runs EXCEPT ![r] = x]
  PROVE  /\ GroupRuns[r] \in Group!Run /\ AsGroupRun(x) \in Group!Run
         /\ GroupRuns' = [GroupRuns EXCEPT ![r] = AsGroupRun(x)]
         /\ AsGroupRun(x).pc = GroupPc(x)
         /\ AsGroupRun(x).offset = IF GroupPc(x) = "prepare" THEN 0 ELSE x.offset
         /\ AsGroupRun(x).attempt = x.attempt /\ AsGroupRun(x).cancelled = x.cancelled
         /\ AsGroupRun(x).task = IF x.pc = "idle" THEN "none" ELSE "task"
         /\ GroupRuns[r].pc = GroupPc(runs[r])
         /\ GroupRuns[r].offset = IF GroupPc(runs[r]) = "prepare" THEN 0 ELSE runs[r].offset
         /\ GroupRuns[r].attempt = runs[r].attempt
         /\ GroupRuns[r].cancelled = runs[r].cancelled
         /\ GroupRuns[r].task = IF runs[r].pc = "idle" THEN "none" ELSE "task"
<1>1. GoodRun(runs[r]) /\ GoodRun(runs'[r])
  BY DEF DownloadInv
<1>2. /\ GroupRuns' = [GroupRuns EXCEPT ![r] = AsGroupRun(x)]
      /\ GroupRuns[r] = AsGroupRun(runs[r]) /\ runs'[r] = x
  BY OneGroupRun
<1>3. GoodRun(x)
  BY <1>1, <1>2
<1>4. QED
  BY <1>1, <1>2, <1>3, GroupRunType

\* A step between two awaits of the same phase is no step of RunGroup.
LEMMA UnseenStep ==
  ASSUME DownloadInv, NEW r \in Runs, NEW x, runs' = [runs EXCEPT ![r] = x],
         GroupPc(x) = GroupPc(runs[r]), x.pc = "idle" <=> runs[r].pc = "idle",
         GroupPc(x) # "prepare" => x.offset = runs[r].offset,
         x.attempt = runs[r].attempt, x.cancelled = runs[r].cancelled
  PROVE  UNCHANGED GroupRuns
<1>1. AsGroupRun(x) = AsGroupRun(runs[r])
  BY DEF AsGroupRun
<1>2. /\ GroupRuns' = [GroupRuns EXCEPT ![r] = AsGroupRun(x)]
      /\ GroupRuns[r] = AsGroupRun(runs[r])
  BY OneGroupRun
<1>3. QED
  BY <1>1, <1>2 DEF GroupRuns

\* stat, an accepted answer, and the file that is opened and measured.
LEMMA InnerStepsUnseen ==
  ASSUME DownloadInv, NEW r \in Runs, Stat(r) \/ Receive(r) \/ Open(r) \/ Metadata(r)
  PROVE  UNCHANGED GroupRuns
<1>1. runs[r] \in Run
  BY RunFacts
<1>2. CASE Stat(r)
  <2> DEFINE x == [runs[r] EXCEPT !.pc = "head", !.offset = length]
  <2>1. runs' = [runs EXCEPT ![r] = x] /\ runs[r].pc = "stat"
    BY <1>2 DEF Stat, DownloadInv
  <2>2. x.pc = "head" /\ x.attempt = runs[r].attempt /\ x.cancelled = runs[r].cancelled
    BY <1>1 DEF Run
  <2> HIDE DEF x
  <2>3. GroupPc(x) = "prepare" /\ GroupPc(runs[r]) = "prepare"
    BY <2>1, <2>2 DEF GroupPc
  <2>4. QED  BY <2>1, <2>2, <2>3, UnseenStep
<1>3. CASE Receive(r) \/ Open(r) \/ Metadata(r)
  <2>1. PICK x : /\ runs' = [runs EXCEPT ![r] = x]
                 /\ runs[r].pc \in {"get", "open", "meta"} /\ x.pc \in {"open", "meta", "write"}
                 /\ x.offset = runs[r].offset /\ x.attempt = runs[r].attempt
                 /\ x.cancelled = runs[r].cancelled
    <3>1. CASE Receive(r)
      <4>1. PICK a : runs' = [runs EXCEPT ![r].pc = "open",
                       ![r].body = [at |-> runs[r].offset, from |-> a.start, len |-> a.len]]
        BY <3>1 DEF Receive
      <4> DEFINE b == [at |-> runs[r].offset, from |-> a.start, len |-> a.len]
                 x == [runs[r] EXCEPT !.pc = "open", !.body = b]
      <4>2. runs' = [runs EXCEPT ![r] = x]
        BY <4>1 DEF DownloadInv
      <4> HIDE DEF b
      <4>3. /\ x.pc = "open" /\ x.offset = runs[r].offset /\ x.attempt = runs[r].attempt
            /\ x.cancelled = runs[r].cancelled
        BY <1>1 DEF Run
      <4> HIDE DEF x
      <4>4. QED  BY <4>2, <4>3, <3>1 DEF Receive
    <3>2. CASE Open(r)
      <4> DEFINE p == IF runs[r].offset = 0 \/ runs[r].open THEN "write" ELSE "meta"
                 o == runs[r].offset = 0 \/ runs[r].open
                 x == [runs[r] EXCEPT !.pc = p, !.open = o]
      <4>1. runs' = [runs EXCEPT ![r] = x] /\ p \in {"write", "meta"}
        BY <3>2 DEF Open, DownloadInv
      <4> HIDE DEF p, o
      <4>2. /\ x.pc = p /\ x.offset = runs[r].offset /\ x.attempt = runs[r].attempt
            /\ x.cancelled = runs[r].cancelled
        BY <1>1 DEF Run
      <4> HIDE DEF x
      <4>3. QED  BY <4>1, <4>2, <3>2 DEF Open
    <3>3. CASE Metadata(r)
      <4> DEFINE x == [runs[r] EXCEPT !.pc = "write", !.open = TRUE]
      <4>1. runs' = [runs EXCEPT ![r] = x]
        BY <3>3 DEF Metadata, DownloadInv
      <4>2. /\ x.pc = "write" /\ x.offset = runs[r].offset /\ x.attempt = runs[r].attempt
            /\ x.cancelled = runs[r].cancelled
        BY <1>1 DEF Run
      <4> HIDE DEF x
      <4>3. QED  BY <4>1, <4>2, <3>3 DEF Metadata
    <3>4. QED  BY <1>3, <3>1, <3>2, <3>3
  <2>2. GroupPc(x) = "transfer" /\ GroupPc(runs[r]) = "transfer"
    BY <2>1 DEF GroupPc
  <2>3. QED  BY <2>1, <2>2, UnseenStep
<1>4. QED  BY <1>2, <1>3

\* So is what tokio's blocking thread does.
LEMMA DiskUnseen ==
  ASSUME DownloadInv, NEW r \in Runs, Disk(r)
  PROVE  UNCHANGED GroupRuns
<1>1. CASE UNCHANGED runs
  BY <1>1 DEF GroupRuns
<1>2. CASE LandFails(r)
  <2> DEFINE x == [runs[r] EXCEPT !.writeError = Live(r)]
  <2>1. runs' = [runs EXCEPT ![r] = x]
    BY <1>2 DEF LandFails, DownloadInv
  <2>2. x.pc = runs[r].pc /\ x.offset = runs[r].offset /\ x.attempt = runs[r].attempt
        /\ x.cancelled = runs[r].cancelled
    BY RunFacts DEF Run
  <2> HIDE DEF x
  <2>3. GroupPc(x) = GroupPc(runs[r])
    BY <2>2 DEF GroupPc
  <2>4. QED  BY <2>1, <2>2, <2>3, UnseenStep
<1>3. QED  BY <1>1, <1>2 DEF Disk, Land

LEMMA PrepareImplements ==
  ASSUME DownloadInv, DownloadInv', NEW r \in Runs, Prepare(r)
  PROVE  Group!Prepare(r)
<1> DEFINE x == [runs[r] EXCEPT !.pc = "check"]
           g == GroupRuns[r]
           h == AsGroupRun(x)
<1>1. /\ runs[r] \in Run /\ runs[r].pc = "head" /\ runs[r].offset <= Size
      /\ runs' = [runs EXCEPT ![r] = x]
  BY RunFacts DEF Prepare, DownloadInv
<1>2. /\ x.pc = "check" /\ x.offset = runs[r].offset /\ x.attempt = runs[r].attempt
      /\ x.cancelled = runs[r].cancelled
  BY <1>1 DEF Run
<1> HIDE DEF x
<1>3. GroupPc(x) = "check" /\ GroupPc(runs[r]) = "prepare"
  BY <1>1, <1>2 DEF GroupPc
<1>4. /\ g \in Group!Run /\ h \in Group!Run /\ h.task = "task" /\ g.task = "task"
      /\ h.attempt = g.attempt /\ h.cancelled = g.cancelled
      /\ g.pc = "prepare" /\ h.pc = "check" /\ h.offset = x.offset
      /\ GroupRuns' = [GroupRuns EXCEPT ![r] = h]
  BY <1>1, <1>2, <1>3, SeenStep, ZenonT(60)
<1> HIDE DEF g, h
<1>5. [g EXCEPT !.pc = "check", !.offset = h.offset] = h
  BY <1>4 DEF Group!Run
<1>6. GroupRuns' = [GroupRuns EXCEPT ![r].pc = "check", ![r].offset = x.offset]
  BY <1>4, <1>5 DEF g
<1>7. x.offset \in Group!PreparedOffsets(Group!RunKey(r), GroupRuns[r].offset)
  <2>1. x.offset \in 0..Size
    BY <1>1, <1>2 DEF Run
  <2>2. QED
    BY <1>4, <2>1 DEF g, Group!PreparedOffsets, Group!DownloadOffsets, Group!RunKey
<1>8. QED
  BY <1>4, <1>6, <1>7, NothingElseChanges DEF g, Group!Prepare

LEMMA CheckImplements ==
  ASSUME DownloadInv, DownloadInv', NEW r \in Runs, Check(r)
  PROVE  Group!Check(r)
<1> DEFINE x == [runs[r] EXCEPT !.pc = "get"]
           g == GroupRuns[r]
           h == AsGroupRun(x)
<1>1. /\ runs[r] \in Run /\ runs[r].pc = "check" /\ ~runs[r].cancelled
      /\ runs' = [runs EXCEPT ![r] = x]
  BY RunFacts DEF DownloadInv, Check
<1>2. /\ x.pc = "get" /\ x.offset = runs[r].offset
      /\ x.attempt = runs[r].attempt /\ x.cancelled = runs[r].cancelled
  BY <1>1 DEF Run
<1> HIDE DEF x
<1>3. GroupPc(x) = "transfer" /\ GroupPc(runs[r]) = "check"
  BY <1>1, <1>2 DEF GroupPc
<1>4. /\ g \in Group!Run /\ h \in Group!Run /\ h.task = g.task
      /\ h.offset = g.offset /\ h.attempt = g.attempt /\ h.cancelled = g.cancelled
      /\ g.pc = "check" /\ ~g.cancelled /\ h.pc = "transfer"
      /\ GroupRuns' = [GroupRuns EXCEPT ![r] = h]
  BY <1>1, <1>2, <1>3, SeenStep, ZenonT(60)
<1> HIDE DEF g, h
<1>5. [g EXCEPT !.pc = "transfer"] = h
  BY <1>4 DEF Group!Run
<1>6. GroupRuns' = [GroupRuns EXCEPT ![r].pc = "transfer"]
  BY <1>4, <1>5 DEF g
<1>7. QED
  BY <1>4, <1>6, NothingElseChanges DEF g, Group!Check

\* A run that is over is the idle run of RunGroup.
LEMMA EndSeen ==
  ASSUME DownloadInv, NEW r \in Runs, runs' = [runs EXCEPT ![r] = IdleRun]
  PROVE  /\ GroupRuns' = [GroupRuns EXCEPT ![r] = Group!IdleRun]
         /\ GroupRuns[r].pc = GroupPc(runs[r])
         /\ GroupRuns[r].cancelled = runs[r].cancelled
<1>1. AsGroupRun(IdleRun) = Group!IdleRun
  BY DEF AsGroupRun, GroupPc, IdleRun, Group!IdleRun
<1>2. GoodRun(runs[r])
  BY RunFacts
<1>3. QED
  BY <1>1, <1>2, OneGroupRun, GroupRunType

LEMMA ObserveCancelImplements ==
  ASSUME DownloadInv, NEW r \in Runs, ObserveCancel(r)
  PROVE  Group!ObserveCancel(r)
<1>1. runs' = [runs EXCEPT ![r] = IdleRun]
      /\ runs[r].pc \in {"check", "backoff"} /\ runs[r].cancelled
  BY DEF ObserveCancel, End, Stop
<1>2. GroupPc(runs[r]) \in {"check", "backoff"}
  BY <1>1 DEF GroupPc
<1>3. GroupRuns[r].pc \in {"check", "backoff"} /\ GroupRuns[r].cancelled
  BY <1>1, <1>2, EndSeen, Zenon
<1>4. QED
  BY <1>1, <1>3, EndSeen, NothingElseChanges, SentToNobody DEF Group!ObserveCancel

LEMMA FailImplements ==
  ASSUME DownloadInv, NEW r \in Runs, runs' = [runs EXCEPT ![r] = IdleRun],
         runs[r].pc \in {"stat", "head", "get", "open", "meta", "write"}
  PROVE  Group!Fail(r)
<1>1. GroupPc(runs[r]) \in {"prepare", "transfer"}
  BY DEF GroupPc
<1>2. GroupRuns[r].pc \in {"prepare", "transfer"}
  BY <1>1, EndSeen
<1>3. GroupRuns' = [GroupRuns EXCEPT ![r] = Group!IdleRun]
  BY EndSeen
<1>4. QED
  BY <1>2, <1>3, NothingElseChanges, SentToNobody DEF Group!Fail

LEMMA CompleteImplements ==
  ASSUME DownloadInv, NEW r \in Runs, Complete(r)
  PROVE  Group!Complete(r)
<1>1. runs' = [runs EXCEPT ![r] = IdleRun] /\ runs[r].pc = "completing"
  BY DEF Complete, End, Stop
<1>2. GroupPc(runs[r]) = "completing"
  BY <1>1 DEF GroupPc
<1>3. GroupRuns[r].pc = "completing"
  BY <1>1, <1>2, EndSeen
<1>4. QED
  BY <1>1, <1>3, EndSeen, NothingElseChanges, SentToNobody DEF Group!Complete

\* A network error is retried while attempts are left, and ends the run after.
LEMMA RequestFailsImplements ==
  ASSUME DownloadInv, DownloadInv', NEW r \in Runs, RequestFails(r)
  PROVE  Group!ScheduleRetry(r) \/ Group!Fail(r)
<1>1. CASE runs[r].attempt < MaxRetries
  <2> DEFINE x == [runs[r] EXCEPT !.pc = "backoff"]
             g == GroupRuns[r]
             h == AsGroupRun(x)
  <2>1. /\ runs[r] \in Run /\ runs[r].pc = "get"
        /\ runs' = [runs EXCEPT ![r] = x]
    BY <1>1, RunFacts DEF DownloadInv, RequestFails
  <2>2. /\ x.pc = "backoff" /\ x.offset = runs[r].offset
        /\ x.attempt = runs[r].attempt /\ x.cancelled = runs[r].cancelled
    BY <2>1 DEF Run
  <2> HIDE DEF x
  <2>3. GroupPc(x) = "backoff" /\ GroupPc(runs[r]) = "transfer"
    BY <2>1, <2>2 DEF GroupPc
  <2>4. /\ g \in Group!Run /\ h \in Group!Run /\ h.task = g.task
        /\ h.offset = g.offset /\ h.attempt = g.attempt /\ h.cancelled = g.cancelled
        /\ g.pc = "transfer" /\ g.attempt < MaxRetries /\ h.pc = "backoff"
        /\ GroupRuns' = [GroupRuns EXCEPT ![r] = h]
    BY <1>1, <2>1, <2>2, <2>3, SeenStep, ZenonT(60)
  <2> HIDE DEF g, h
  <2>5. [g EXCEPT !.pc = "backoff"] = h
    BY <2>4 DEF Group!Run
  <2>6. GroupRuns' = [GroupRuns EXCEPT ![r].pc = "backoff"]
    BY <2>4, <2>5 DEF g
  <2>7. QED
    BY <2>4, <2>6, NothingElseChanges DEF g, Group!ScheduleRetry
<1>2. CASE ~(runs[r].attempt < MaxRetries)
  <2>1. runs' = [runs EXCEPT ![r] = IdleRun] /\ runs[r].pc = "get"
    BY <1>2 DEF RequestFails, End, Stop
  <2>2. runs[r].pc \in {"stat", "head", "get", "open", "meta", "write"}
    BY <2>1
  <2>3. Group!Fail(r)
    BY <2>1, <2>2, FailImplements, Zenon
  <2>4. QED  BY <2>3
<1>3. QED
  BY <1>1, <1>2

LEMMA BackoffEndsImplements ==
  ASSUME DownloadInv, DownloadInv', NEW r \in Runs, BackoffEnds(r)
  PROVE  Group!BackoffEnds(r)
<1> DEFINE x == [runs[r] EXCEPT !.pc = "check", !.attempt = @ + 1]
           g == GroupRuns[r]
           h == AsGroupRun(x)
<1>1. /\ runs[r] \in Run /\ runs[r].pc = "backoff"
      /\ runs' = [runs EXCEPT ![r] = x]
  BY RunFacts DEF DownloadInv, BackoffEnds
<1>2. /\ x.pc = "check" /\ x.offset = runs[r].offset
      /\ x.attempt = runs[r].attempt + 1 /\ x.cancelled = runs[r].cancelled
  BY <1>1 DEF Run
<1> HIDE DEF x
<1>3. GroupPc(x) = "check" /\ GroupPc(runs[r]) = "backoff"
  BY <1>1, <1>2 DEF GroupPc
<1>4. /\ g \in Group!Run /\ h \in Group!Run /\ h.task = g.task
      /\ h.offset = g.offset /\ h.attempt = g.attempt + 1 /\ h.cancelled = g.cancelled
      /\ g.pc = "backoff" /\ h.pc = "check"
      /\ GroupRuns' = [GroupRuns EXCEPT ![r] = h]
  BY <1>1, <1>2, <1>3, SeenStep, ZenonT(60)
<1> HIDE DEF g, h
<1>5. [g EXCEPT !.pc = "check", !.attempt = g.attempt + 1] = h
  BY <1>4 DEF Group!Run
<1>6. GroupRuns' = [GroupRuns EXCEPT ![r].pc = "check", ![r].attempt = @ + 1]
  BY <1>4, <1>5 DEF g
<1>7. QED
  BY <1>4, <1>6, NothingElseChanges DEF g, Group!BackoffEnds

\* A chunk that is handed to the background write, or none left, is a chunk
\* that ends where RunGroup allows it.
LEMMA TransferImplements ==
  ASSUME DownloadInv, DownloadInv', NEW r \in Runs, NothingLeft(r) \/ WriteChunk(r)
  PROVE  Group!TransferChunk(r)
<1>1. runs[r] \in Run /\ GoodRun(runs[r]) /\ runs[r].pc \in {"get", "write"}
  BY RunFacts DEF NothingLeft, WriteChunk
<1>2. runs[r].offset \in 0..Size
  BY <1>1 DEF GoodRun, Run, Last
<1>3. PICK next, x :
        /\ next \in Group!DownloadChunkEnds(runs[r].offset)
        /\ runs' = [runs EXCEPT ![r] = x]
        /\ x.pc = IF next >= Size THEN "completing" ELSE "check"
        /\ x.offset = next /\ x.attempt = 0 /\ x.cancelled = runs[r].cancelled
  <2>1. CASE NothingLeft(r)
    <3> DEFINE x == [runs[r] EXCEPT !.pc = "completing", !.attempt = 0]
    <3>1. /\ runs' = [runs EXCEPT ![r] = x]
          /\ runs[r].offset >= Size
      BY <2>1 DEF NothingLeft, DownloadInv
    <3>2. /\ x.pc = "completing" /\ x.attempt = 0 /\ x.offset = runs[r].offset
          /\ x.cancelled = runs[r].cancelled
      BY <1>1 DEF Run
    <3> HIDE DEF x
    <3>3. runs[r].offset \in Group!DownloadChunkEnds(runs[r].offset)
      BY <3>1 DEF Group!DownloadChunkEnds
    <3>4. QED  BY <3>1, <3>2, <3>3
  <2>2. CASE WriteChunk(r)
    <3> DEFINE next == runs[r].offset + runs[r].body.len
               p == IF next >= Size THEN "completing" ELSE "check"
               x == [runs[r] EXCEPT !.pc = p, !.offset = next, !.attempt = 0,
                                    !.body = NoWrite]
    <3>1. runs' = [runs EXCEPT ![r] = x]
      BY <2>2 DEF WriteChunk, DownloadInv
    <3>2. runs[r].body.len \in 1..(Last - runs[r].offset) /\ runs[r].offset < Size
      BY <2>2, <1>1 DEF WriteChunk, GoodRun, Fetched
    <3>3. next \in Group!DownloadChunkEnds(runs[r].offset)
      BY <3>2, <1>2 DEF Group!DownloadChunkEnds, Group!Last, Last
    <3> HIDE DEF next, p
    <3>4. /\ x.pc = p /\ x.attempt = 0 /\ x.offset = next
          /\ x.cancelled = runs[r].cancelled
      BY <1>1 DEF Run
    <3> HIDE DEF x
    <3>5. QED  BY <3>1, <3>3, <3>4 DEF p
  <2>3. QED  BY <2>1, <2>2
<1> DEFINE p == IF next >= Size THEN "completing" ELSE "check"
           g == GroupRuns[r]
           h == AsGroupRun(x)
<1>4. GroupPc(runs[r]) = "transfer" /\ GroupPc(x) = p /\ p \in {"completing", "check"}
  BY <1>1, <1>3 DEF GroupPc
<1>5. x.pc = p
  BY <1>3
<1> HIDE DEF p
<1>6. /\ g \in Group!Run /\ h \in Group!Run /\ h.task = "task" /\ g.task = "task"
      /\ h.offset = next /\ h.attempt = 0 /\ h.cancelled = g.cancelled
      /\ g.pc = "transfer" /\ h.pc = p /\ g.offset = runs[r].offset
      /\ GroupRuns' = [GroupRuns EXCEPT ![r] = h]
  <2>1. runs' = [runs EXCEPT ![r] = x]
    BY <1>3
  <2>2. /\ g \in Group!Run /\ h \in Group!Run
        /\ GroupRuns' = [GroupRuns EXCEPT ![r] = h]
        /\ h.pc = GroupPc(x) /\ h.offset = IF GroupPc(x) = "prepare" THEN 0 ELSE x.offset
        /\ h.attempt = x.attempt /\ h.cancelled = x.cancelled
        /\ h.task = IF x.pc = "idle" THEN "none" ELSE "task"
        /\ g.pc = GroupPc(runs[r])
        /\ g.offset = IF GroupPc(runs[r]) = "prepare" THEN 0 ELSE runs[r].offset
        /\ g.cancelled = runs[r].cancelled
        /\ g.task = IF runs[r].pc = "idle" THEN "none" ELSE "task"
    BY <2>1, SeenStep, ZenonT(60)
  <2>3. h.task = "task" /\ g.task = "task"
    BY <1>1, <1>4, <1>5, <2>2
  <2>4. h.offset = next /\ g.offset = runs[r].offset
    BY <1>3, <1>4, <2>2
  <2>5. QED  BY <1>3, <1>4, <2>2, <2>3, <2>4
<1> HIDE DEF g, h
<1>7. [g EXCEPT !.pc = p, !.offset = next, !.attempt = 0] = h
  BY <1>6 DEF Group!Run
<1>8. GroupRuns' = [GroupRuns EXCEPT ![r].pc = IF next >= Size THEN "completing" ELSE "check",
                                     ![r].offset = next, ![r].attempt = 0]
  BY <1>6, <1>7 DEF g, p
<1>9. next \in Group!ChunkEnds(Group!RunKey(r), GroupRuns[r].offset)
  BY <1>3, <1>6 DEF g, Group!ChunkEnds, Group!RunKey
<1>10. \E n \in Group!ChunkEnds(Group!RunKey(r), GroupRuns[r].offset) :
         /\ <<>> = Group!Send("Progress", r, n)
         /\ GroupRuns' = [GroupRuns EXCEPT
                            ![r].pc = IF n >= Size THEN "completing" ELSE "check",
                            ![r].offset = n, ![r].attempt = 0]
  BY <1>8, <1>9, SentToNobody
<1>11. GroupRuns[r].pc = "transfer" /\ Group!CanSend
  BY <1>6, SentToNobody DEF g
<1>12. QED
  BY <1>10, <1>11, NothingElseChanges DEF Group!TransferChunk

LEMMA NextImplements ==
  ASSUME DownloadInv, [Next]_vars
  PROVE  [RunGroupStep]_GroupRuns
<1>1. DownloadInv'
  BY NextGood
<1>2. CASE Environment \/ \E r \in Runs : Start(r)
  BY <1>2 DEF RunGroupStep
<1>3. ASSUME NEW r \in Runs, RunStep(r) PROVE [RunGroupStep]_GroupRuns
  <2>1. CASE Stat(r) \/ Receive(r) \/ Open(r) \/ Metadata(r)
    BY <2>1, InnerStepsUnseen
  <2>2. CASE Prepare(r) \/ Check(r) \/ ObserveCancel(r) \/ NothingLeft(r)
             \/ WriteChunk(r) \/ Complete(r) \/ BackoffEnds(r) \/ RequestFails(r)
    BY <2>2, <1>1, PrepareImplements, CheckImplements, ObserveCancelImplements,
       TransferImplements, CompleteImplements, BackoffEndsImplements,
       RequestFailsImplements DEF RunGroupStep
  <2>3. CASE PrepareFails(r) \/ Refuse(r) \/ LengthMismatch(r) \/ DiskFails(r)
             \/ WriteReportsError(r)
    <3>1. /\ runs' = [runs EXCEPT ![r] = IdleRun]
          /\ runs[r].pc \in {"stat", "head", "get", "open", "meta", "write"}
      BY <2>3 DEF PrepareFails, Refuse, LengthMismatch, DiskFails, WriteReportsError, End, Stop
    <3>2. QED
      BY <3>1, FailImplements DEF RunGroupStep
  <2>4. QED
    BY <1>3, <2>1, <2>2, <2>3 DEF RunStep
<1>4. ASSUME NEW r \in Runs, Disk(r) PROVE [RunGroupStep]_GroupRuns
  BY <1>4, DiskUnseen
<1>5. CASE UNCHANGED vars
  BY <1>5 DEF vars, GroupRuns
<1>6. QED
  BY <1>2, <1>3, <1>4, <1>5 DEF Next

\* The download client keeps to what RunGroup takes for granted of an HTTP
\* client: prepare gives an offset inside the remote file, a chunk ends further
\* on, the run completes when the remote's end is reached or passed, and it
\* fails, retries and stops only where RunGroup says so.
THEOREM ClientKeepsContract == Spec => ImplementsRunGroup
<1>1. DownloadInv /\ [Next]_vars => [RunGroupStep]_GroupRuns
  BY NextImplements
<1>2. QED
  BY <1>1, DownloadCorrect, PTL DEF Spec, ImplementsRunGroup
=============================================================================
