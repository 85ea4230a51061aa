--------------------------- MODULE MeowClientProofs ---------------------------
(***************************************************************************)
(* The client, for all numbers of handles and calls and every capacity of  *)
(* the channel: one executor per handle, one close that counts, nothing    *)
(* left in an executor that was closed, no command that misses a task that *)
(* was accepted before it and is not over, and no task lost on its way to  *)
(* the scheduler.                                                          *)
(***************************************************************************)
EXTENDS MeowClient, SequenceTheorems, TLAPS

USE ClientAssumption

Busy(c) == calls[c].pc \notin {"unused", "done"}

\* What holds of each call between its steps: it keeps its handle alive, an
\* executor it names exists and is that of the handle, and the executor that
\* bears its own name is made by it and not before.
GoodCall(c) ==
  /\ Busy(c) => handles[calls[c].handle] = "live"
  /\ calls[c].pc \in {"send", "wait"} => calls[c].exec # NoExec
  /\ calls[c].pc = "look" => calls[c].kind = "close"
  /\ calls[c].pc = "wait" => calls[c].kind # "enqueue"
  /\ calls[c].pc \notin {"wait", "done"} => calls[c].answer = "none"
  /\ calls[c].pc \in {"unused", "construct", "look", "get"} => state[c] = "none"
  /\ calls[c].pc = "set" => state[c] # "none"
  /\ calls[c].exec # NoExec =>
       handles[calls[c].handle] # "unmade" /\ state[calls[c].exec] # "none"
  /\ Accepted(c) => calls[c].exec # NoExec
  /\ \A t \in Calls : calls[c].task = t => Accepted(t)

HandlesAgree ==
  /\ OneExecutorPerHandle
  /\ \A h \in Handles : executor[h] # NoExec => state[executor[h]] # "none"

\* What is in a channel was sent there, by a call that waits or is over.
GoodChannels ==
  \A e \in Calls : \A i \in 1..Len(chan[e]) :
    calls[chan[e][i]].exec = e /\ calls[chan[e][i]].pc \in {"wait", "done"}

\* The close that has set the flag and not taken it back.
Owner(c) == /\ calls[c].kind = "close" /\ calls[c].pc # "unused"
            /\ calls[c].pc = "done" => calls[c].result \in {"Ok", "dropped"}
OneOwner ==
  /\ \A c \in Calls : Owner(c) => closed
  /\ \A c, d \in Calls : Owner(c) /\ Owner(d) => c = d

\* An executor that has answered its Close is on its way out, without tasks.
ClosedForGood ==
  \A c \in Calls : calls[c].kind = "close" /\ calls[c].answer = "Ok" =>
    /\ calls[c].exec # NoExec /\ tasks[calls[c].exec] = {}
    /\ state[calls[c].exec] \in {"closing", "exited"}

\* A running executor knows the tasks it was sent, or did until they were over,
\* or has them in its channel, where no command for a task comes before it.
Known(e) == tasks[e] \cup over
Found(t, e, i) == t \in Known(e) \/ \E j \in 1..(i - 1) : chan[e][j] = t
TaskFound(d, e, i) == LET t == calls[d].task
                      IN  t # NoTask /\ calls[t].exec = e => Found(t, e, i)
AcceptedIsKnown ==
  /\ \A t \in Calls : Accepted(t) /\ state[calls[t].exec] = "running" =>
       t \in Known(calls[t].exec) \/ InChannel(t, calls[t].exec)
  /\ \A e \in Calls : state[e] = "running" =>
       \A i \in 1..Len(chan[e]) : TaskFound(chan[e][i], e, i)

ClientInv ==
  /\ TypeOK /\ \A c \in Calls : GoodCall(c)
  /\ HandlesAgree /\ GoodChannels /\ OneOwner
  /\ ClosedForGood /\ AcceptedIsKnown /\ AcceptedIsFound

-----------------------------------------------------------------------------
\* What is in a channel.
LEMMA ChannelFacts ==
  ASSUME TypeOK, GoodChannels, NEW e \in Calls
  PROVE  /\ chan[e] \in Seq(Calls) /\ Len(chan[e]) \in Nat
         /\ \A i \in 1..Len(chan[e]) :
              /\ chan[e][i] \in Calls /\ calls[chan[e][i]] \in Call
              /\ calls[chan[e][i]].exec = e /\ calls[chan[e][i]].pc \in {"wait", "done"}
<1>1. chan[e] \in Seq(Calls) /\ Len(chan[e]) \in Nat
  BY LenProperties DEF TypeOK
<1>2. ASSUME NEW i \in 1..Len(chan[e]) PROVE chan[e][i] \in Calls
  BY <1>1, ElementOfSeq
<1>3. QED  BY <1>1, <1>2 DEF TypeOK, GoodChannels

\* The task a call is about.
LEMMA TaskFacts ==
  ASSUME TypeOK, NEW d \in Calls, GoodCall(d), calls[d].task # NoTask
  PROVE  calls[d].task \in Calls /\ calls[calls[d].task].pc = "done"
         /\ calls[calls[d].task].kind = "enqueue"
BY DEF TypeOK, GoodCall, Call, Accepted, Returned, Done

\* Calls as functions of their numbers.

LEMMA OneCall ==
  ASSUME calls \in [Calls -> Call], NEW c \in Calls, NEW x \in Call,
         calls' = [calls EXCEPT ![c] = x]
  PROVE  /\ calls' \in [Calls -> Call]
         /\ \A d \in Calls : calls'[d] = IF d = c THEN x ELSE calls[d]
OBVIOUS

\* A call that begins, in its first step or refused.
LEMMA BegunType ==
  ASSUME NEW kind \in Kinds, NEW h \in Handles, NEW task \in Calls \cup {NoTask},
         NEW pc \in {"construct", "look", "get"}
  PROVE  /\ [Unused EXCEPT !.pc = "done", !.result = "ClientClosed"] \in Call
         /\ [Unused EXCEPT !.kind = kind, !.handle = h, !.task = task, !.pc = pc] \in Call
BY DEF Unused, Call, Kinds, Refused

-----------------------------------------------------------------------------
\* A call that begins: it has sent nothing, and only a close that finds the
\* flag clear sets it.
LEMMA BeginGood ==
  ASSUME ClientInv, NEW c \in Calls, NEW h \in Handles, NEW kind \in Kinds,
         NEW task \in Calls \cup {NoTask}, NEW pc \in {"construct", "look", "get"},
         Begin(c, h, kind, task, pc), task # NoTask => Accepted(task),
         pc = "look" => kind = "close",
         closed' = IF kind = "close" THEN TRUE ELSE closed
  PROVE  ClientInv'
<1> DEFINE x == IF closed THEN [Unused EXCEPT !.pc = "done", !.result = "ClientClosed"]
                ELSE [Unused EXCEPT !.kind = kind, !.handle = h, !.task = task, !.pc = pc]
<1>1. /\ calls[c].pc = "unused" /\ handles[h] = "live" /\ calls' = [calls EXCEPT ![c] = x]
      /\ UNCHANGED <<handles, executor, state, chan, tasks, over>>
  BY DEF Begin, IsNext, executorVars
<1>2. /\ x \in Call /\ x.exec = NoExec /\ x.answer = "none"
      /\ closed => x.kind = "enqueue" /\ x.pc = "done" /\ x.result = "ClientClosed"
                   /\ x.task = NoTask
      /\ ~closed => x.kind = kind /\ x.pc = pc /\ x.handle = h /\ x.task = task
                    /\ x.result = "none"
  BY BegunType DEF Unused
<1> HIDE DEF x
<1>3. /\ calls' \in [Calls -> Call]
      /\ \A d \in Calls : calls'[d] = IF d = c THEN x ELSE calls[d]
  BY <1>1, <1>2, OneCall DEF ClientInv, TypeOK
<1>4. TypeOK'
  BY <1>1, <1>3 DEF ClientInv, TypeOK
<1>5. \A d \in Calls : Accepted(d)' <=> Accepted(d)
  BY <1>1, <1>2, <1>3 DEF Accepted, Returned, Done
<1>6. ASSUME NEW d \in Calls PROVE GoodCall(d)'
  <2>1. /\ calls[d] \in Call /\ GoodCall(d) /\ calls'[d] = IF d = c THEN x ELSE calls[d]
        /\ GoodCall(c)
    BY <1>3 DEF ClientInv, TypeOK
  <2>2. CASE d = c
    BY <2>1, <2>2, <1>1, <1>2, <1>5 DEF GoodCall, Busy, Accepted, Returned, Done
  <2>3. CASE d # c
    <3>1. calls'[d] = calls[d] /\ (calls[d].task # NoTask => calls[d].task \in Calls)
      BY <2>1, <2>3 DEF Call
    <3>2. QED  BY <2>1, <3>1, <1>1, <1>5 DEF GoodCall, Busy
  <2>4. QED  BY <2>2, <2>3
<1>7. HandlesAgree' /\ GoodChannels'
  BY <1>1, <1>2, <1>3 DEF ClientInv, HandlesAgree, OneExecutorPerHandle, GoodChannels, TypeOK
<1>8. OneOwner'
  BY <1>1, <1>2, <1>3 DEF ClientInv, OneOwner, Owner
<1>9. ClosedForGood'
  BY <1>1, <1>2, <1>3 DEF ClientInv, ClosedForGood
<1>10. AcceptedIsFound'
  <2>1. ASSUME NEW d \in Calls, (calls[d].task # NoTask /\ calls[d].answer = "TaskNotFound")'
        PROVE  (calls[d].task \in over \/ calls[calls[d].task].exec # calls[d].exec)'
    <3>1. d # c /\ calls'[d] = calls[d] /\ calls[d] \in Call /\ GoodCall(d)
      BY <2>1, <1>2, <1>3 DEF ClientInv, TypeOK
    <3>2. calls[d].task \in Calls /\ calls[d].task # c
      BY <3>1, <2>1, <1>1 DEF Call, GoodCall, Accepted, Returned, Done
    <3>3. QED  BY <3>1, <3>2, <2>1, <1>3, <1>1 DEF ClientInv, AcceptedIsFound
  <2>2. QED  BY <2>1 DEF AcceptedIsFound
<1>11. AcceptedIsKnown'
  <2>1. ASSUME NEW t \in Calls, Accepted(t)', (state[calls[t].exec] = "running")'
        PROVE  (t \in Known(calls[t].exec) \/ InChannel(t, calls[t].exec))'
    <3>1. Accepted(t) /\ t # c /\ calls'[t] = calls[t]
      BY <2>1, <1>1, <1>3, <1>5 DEF Accepted, Returned, Done
    <3>2. state[calls[t].exec] = "running"
      BY <3>1, <2>1, <1>1
    <3>3. t \in Known(calls[t].exec) \/ InChannel(t, calls[t].exec)
      BY <3>1, <3>2 DEF ClientInv, AcceptedIsKnown
    <3>4. QED  BY <3>1, <3>3, <1>1 DEF InChannel, Known
  <2>2. ASSUME NEW e \in Calls, state[e] = "running", NEW i \in 1..Len(chan[e])
        PROVE  TaskFound(chan[e][i], e, i)'
    <3> DEFINE d == chan[e][i]
    <3>1. d \in Calls /\ d # c
      BY <1>1, ChannelFacts DEF ClientInv
    <3>2. calls'[d] = calls[d] /\ calls[d] \in Call /\ GoodCall(d)
      BY <3>1, <1>3 DEF ClientInv, TypeOK
    <3>3. calls[d].task # NoTask => calls[d].task \in Calls /\ calls[d].task # c
      BY <3>1, <3>2, <1>1, TaskFacts DEF ClientInv
    <3>4. TaskFound(d, e, i)
      BY <2>2 DEF ClientInv, AcceptedIsKnown
    <3> HIDE DEF d
    <3>5. d' = d
      BY <1>1 DEF d
    <3>6. QED  BY <3>1, <3>2, <3>3, <3>4, <3>5, <1>1, <1>3 DEF TaskFound, Found, Known, d
  <2>3. QED  BY <2>1, <2>2, <1>1 DEF AcceptedIsKnown
<1>12. QED
  BY <1>4, <1>6, <1>7, <1>8, <1>9, <1>10, <1>11 DEF ClientInv

-----------------------------------------------------------------------------
\* A step of a call that touches nothing but the call, its handle's OnceLock
\* and the flag: it goes on to get_exec, has found or set the handle's
\* executor, or returns.
Locked(c) == [executor EXCEPT ![calls[c].handle] = IF @ = NoExec THEN c ELSE @]
MovesTo(c, x) ==
  /\ x \in Call /\ calls' = [calls EXCEPT ![c] = x]
  /\ UNCHANGED <<handles, executorVars>> /\ Busy(c)
  /\ executor' = IF calls[c].pc = "set" THEN Locked(c) ELSE executor
  /\ x.kind = calls[c].kind /\ x.handle = calls[c].handle
  /\ x.task = calls[c].task /\ x.answer = calls[c].answer
  /\ \/ calls[c].pc = "construct" /\ x.pc = "get" /\ x.exec = calls[c].exec
     \/ /\ calls[c].pc \in {"get", "look", "set"} /\ x.pc = "send"
        /\ x.exec = executor'[x.handle] /\ x.exec # NoExec
     \/ /\ calls[c].pc # "set" /\ x.pc = "done" /\ x.exec = calls[c].exec
        /\ x.kind = "enqueue" => x.result # "Ok"
  /\ closed' = IF x.pc = "done" /\ x.kind = "close" /\ x.result \notin {"Ok", "dropped"}
               THEN FALSE ELSE closed

LEMMA MoveKeeps ==
  ASSUME ClientInv, NEW c \in Calls, NEW x, MovesTo(c, x)
  PROVE  ClientInv'
<1>1. /\ x \in Call /\ calls' = [calls EXCEPT ![c] = x] /\ x.kind = calls[c].kind
      /\ UNCHANGED <<handles, state, chan, tasks, over>>
      /\ GoodCall(c) /\ Busy(c) /\ calls[c] \in Call
  BY DEF MovesTo, executorVars, ClientInv, TypeOK
<1>2. /\ calls' \in [Calls -> Call]
      /\ \A d \in Calls : calls'[d] = IF d = c THEN x ELSE calls[d]
  BY <1>1, OneCall DEF ClientInv, TypeOK
<1> DEFINE h == calls[c].handle
<1>a. /\ executor' \in [Handles -> Calls \cup {NoExec}]
      /\ \A g \in Handles : executor'[g] = executor[g] \/ (calls[c].pc = "set" /\ g = h)
      /\ executor[h] # NoExec => executor'[h] = executor[h]
      /\ calls[c].pc = "set" => executor'[h] = executor[h] \/ executor'[h] = c
      /\ h \in Handles
  BY <1>1 DEF ClientInv, TypeOK, MovesTo, Locked, Call
<1>b. \A g \in Handles : executor'[g] # NoExec => state[executor'[g]] # "none"
  BY <1>1, <1>a DEF ClientInv, HandlesAgree, GoodCall
<1> HIDE DEF h
<1>3. TypeOK'
  BY <1>1, <1>2, <1>a DEF ClientInv, TypeOK, MovesTo
<1>4. (\A d \in Calls : Accepted(d)' <=> Accepted(d)) /\ ~Accepted(c)
  BY <1>1, <1>2 DEF Accepted, Returned, Done, MovesTo, Busy
<1>5. ASSUME NEW d \in Calls PROVE GoodCall(d)'
  <2>1. GoodCall(d) /\ calls[d] \in Call /\ calls'[d] = IF d = c THEN x ELSE calls[d]
    BY <1>2 DEF ClientInv, TypeOK
  <2>2. CASE d = c
    <3>1. handles[x.handle] = "live" /\ x.handle \in Handles /\ calls'[d] = x
      BY <2>1, <2>2, <1>1 DEF GoodCall, MovesTo, Call
    <3>2. x.exec # NoExec => state[x.exec] # "none"
      BY <3>1, <1>1, <1>b DEF GoodCall, MovesTo
    <3>3. \A t \in Calls : x.task = t => Accepted(t)'
      BY <1>1, <1>4 DEF GoodCall, MovesTo, Call
    <3>4. QED  BY <3>1, <3>2, <3>3, <2>2, <1>1, <1>4 DEF GoodCall, Busy, MovesTo
  <2>3. CASE d # c
    <3>1. calls'[d] = calls[d] /\ (calls[d].task # NoTask => calls[d].task \in Calls)
      BY <2>1, <2>3 DEF Call
    <3>2. QED  BY <2>1, <3>1, <1>1, <1>4 DEF GoodCall, Busy
  <2>4. QED  BY <2>2, <2>3
<1>6. HandlesAgree'
  <2>1. ASSUME NEW d \in Calls, (calls[d].exec # NoExec /\ handles[calls[d].handle] = "live")'
        PROVE  (calls[d].exec = executor[calls[d].handle])'
    <3>1. calls'[d].handle = calls[d].handle /\ calls[d].handle \in Handles
      BY <1>1, <1>2 DEF ClientInv, TypeOK, Call, MovesTo
    <3>2. CASE calls'[d].exec = calls[d].exec
      <4>1. calls[d].exec = executor[calls[d].handle] /\ calls[d].exec # NoExec
        BY <2>1, <3>1, <3>2, <1>1 DEF ClientInv, HandlesAgree, OneExecutorPerHandle
      <4>2. QED  BY <4>1, <3>1, <3>2, <1>a
    <3>3. CASE calls'[d].exec # calls[d].exec
      BY <3>3, <1>1, <1>2 DEF MovesTo
    <3>4. QED  BY <3>2, <3>3
  <2>2. QED  BY <2>1, <1>1, <1>b DEF HandlesAgree, OneExecutorPerHandle
<1>7. GoodChannels'
  <2>1. ASSUME NEW e \in Calls, NEW i \in 1..Len(chan[e])
        PROVE  calls'[chan[e][i]].exec = e /\ calls'[chan[e][i]].pc \in {"wait", "done"}
    BY <1>1, <1>2, ChannelFacts DEF ClientInv, MovesTo
  <2>2. QED  BY <2>1, <1>1 DEF GoodChannels
<1>8. OneOwner'
  <2>1. \A d \in Calls : Owner(d)' => Owner(d)
    BY <1>1, <1>2 DEF Owner, MovesTo, Busy
  <2>2. closed' = closed \/ (Owner(c) /\ ~Owner(c)')
    BY <1>1, <1>2 DEF Owner, MovesTo, Busy
  <2>3. QED  BY <2>1, <2>2 DEF ClientInv, OneOwner
<1>9. \A d \in Calls : calls[d].answer # "none" => calls'[d].exec = calls[d].exec
  <2>1. calls[c].answer # "none" => x.exec = calls[c].exec
    BY <1>1 DEF GoodCall, MovesTo
  <2>2. QED  BY <2>1, <1>2
<1>10. ClosedForGood'
  BY <1>1, <1>2, <1>9 DEF ClientInv, ClosedForGood, MovesTo
<1>11. AcceptedIsFound'
  <2>1. ASSUME NEW d \in Calls, (calls[d].task # NoTask /\ calls[d].answer = "TaskNotFound")'
        PROVE  (calls[d].task \in over \/ calls[calls[d].task].exec # calls[d].exec)'
    <3>1. /\ calls'[d].task = calls[d].task /\ calls'[d].answer = calls[d].answer
          /\ calls'[d].exec = calls[d].exec /\ GoodCall(d)
      BY <2>1, <1>2, <1>9 DEF ClientInv, MovesTo
    <3>2. calls[d].task \in Calls /\ calls[d].task # c
      BY <3>1, <2>1, <1>1, TaskFacts DEF ClientInv, Busy
    <3>3. QED  BY <3>1, <3>2, <2>1, <1>2, <1>1 DEF ClientInv, AcceptedIsFound
  <2>2. QED  BY <2>1 DEF AcceptedIsFound
<1>12. AcceptedIsKnown'
  <2>1. ASSUME NEW t \in Calls, Accepted(t)', (state[calls[t].exec] = "running")'
        PROVE  (t \in Known(calls[t].exec) \/ InChannel(t, calls[t].exec))'
    <3>1. Accepted(t) /\ t # c /\ calls'[t] = calls[t]
      BY <2>1, <1>2, <1>4
    <3>2. state[calls[t].exec] = "running"
      BY <3>1, <2>1, <1>1
    <3>3. t \in Known(calls[t].exec) \/ InChannel(t, calls[t].exec)
      BY <3>1, <3>2 DEF ClientInv, AcceptedIsKnown
    <3>4. QED  BY <3>1, <3>3, <1>1 DEF InChannel, Known
  <2>2. ASSUME NEW e \in Calls, state[e] = "running", NEW i \in 1..Len(chan[e])
        PROVE  TaskFound(chan[e][i], e, i)'
    <3> DEFINE d == chan[e][i]
    <3>1. d \in Calls /\ d' = d
      BY <1>1, ChannelFacts DEF ClientInv
    <3>2. calls'[d].task = calls[d].task /\ calls[d] \in Call /\ GoodCall(d)
      BY <3>1, <1>1, <1>2 DEF ClientInv, TypeOK, MovesTo
    <3>3. calls[d].task # NoTask => calls[d].task \in Calls /\ calls[d].task # c
      BY <3>1, <3>2, <1>1, TaskFacts DEF ClientInv, Busy
    <3>4. TaskFound(d, e, i)
      BY <2>2 DEF ClientInv, AcceptedIsKnown
    <3> HIDE DEF d
    <3>5. QED  BY <3>1, <3>2, <3>3, <3>4, <1>1, <1>2 DEF TaskFound, Found, Known, d
  <2>3. QED  BY <2>1, <2>2, <1>1 DEF AcceptedIsKnown
<1>13. QED
  BY <1>3, <1>5, <1>6, <1>7, <1>8, <1>10, <1>11, <1>12 DEF ClientInv

\* The calls that take such a step.
LEMMA MovesKeep ==
  ASSUME ClientInv, NEW c \in Calls,
         Construct(c) \/ Reject(c) \/ GetExec(c) \/ NothingToClose(c)
         \/ CreateExecFails(c) \/ SetExec(c) \/ SendFails(c) \/ GetAnswer(c) \/ DropFuture(c)
  PROVE  ClientInv'
<1>1. calls[c] \in Call /\ GoodCall(c)
  BY DEF ClientInv, TypeOK
<1>2. CASE Construct(c)
  <2>1. MovesTo(c, [calls[c] EXCEPT !.pc = "get"])
    BY <1>1, <1>2 DEF Construct, MovesTo, Call, Busy, clientVars, executorVars
  <2>2. QED  BY <2>1, MoveKeeps
<1>3. CASE GetExec(c)
  <2>1. executor[calls[c].handle] \in Calls
    BY <1>1, <1>3 DEF GetExec, ClientInv, TypeOK, Call
  <2>2. MovesTo(c, [calls[c] EXCEPT !.pc = "send", !.exec = executor[calls[c].handle]])
    BY <2>1, <1>1, <1>3 DEF GetExec, MovesTo, Call, Busy, clientVars, executorVars
  <2>3. QED  BY <2>2, MoveKeeps
<1>4. ASSUME NEW r \in {"Ok", "TaskNotFound", "dropped"} \cup Refused, Return(c, r),
             calls[c].pc \in {"construct", "look", "get", "send", "wait"},
             calls[c].kind = "enqueue" => r # "Ok", UNCHANGED executorVars
      PROVE  ClientInv'
  <2> DEFINE x == [calls[c] EXCEPT !.pc = "done", !.result = r]
  <2>1. x \in Call
    BY <1>1, <1>4 DEF Call, Refused
  <2>2. /\ x.kind = calls[c].kind /\ x.handle = calls[c].handle /\ x.exec = calls[c].exec
        /\ x.task = calls[c].task /\ x.answer = calls[c].answer /\ x.pc = "done" /\ x.result = r
    BY <1>1 DEF Call
  <2>3. /\ calls' = [calls EXCEPT ![c] = x] /\ UNCHANGED <<handles, executor>>
        /\ closed' = IF calls[c].kind = "close" /\ r \notin {"Ok", "dropped"}
                     THEN FALSE ELSE closed
    BY <1>1, <1>4 DEF Return, Call
  <2>4. Busy(c) /\ calls[c].pc # "set"
    BY <1>4 DEF Busy
  <2> HIDE DEF x
  <2>5. MovesTo(c, x)
    BY <2>1, <2>2, <2>3, <2>4, <1>4 DEF MovesTo
  <2>6. QED  BY <2>5, MoveKeeps
<1>5. CASE Reject(c)
  BY <1>4, <1>5 DEF Reject, Refused
<1>6. CASE NothingToClose(c)
  BY <1>1, <1>4, <1>6 DEF NothingToClose, GoodCall
<1>7. CASE CreateExecFails(c)
  BY <1>4, <1>7 DEF CreateExecFails, Refused
<1>8. CASE SendFails(c)
  BY <1>4, <1>8 DEF SendFails, Refused
<1>9. CASE GetAnswer(c)
  <2>1. calls[c].answer \in {"Ok", "TaskNotFound"} \cup Refused
    BY <1>1, <1>9 DEF GetAnswer, Call, Refused
  <2>2. QED  BY <2>1, <1>1, <1>4, <1>9 DEF GetAnswer, GoodCall
<1>10. CASE DropFuture(c)
  BY <1>4, <1>10 DEF DropFuture
<1>11. CASE SetExec(c)
  <2>1. executor' = Locked(c) /\ executor'[calls[c].handle] \in Calls
    BY <1>1, <1>11 DEF SetExec, Locked, ClientInv, TypeOK, Call
  <2>2. MovesTo(c, [calls[c] EXCEPT !.pc = "send", !.exec = executor'[calls[c].handle]])
    BY <2>1, <1>1, <1>11 DEF SetExec, MovesTo, Call, Busy
  <2>3. QED  BY <2>2, MoveKeeps
<1>12. QED
  BY <1>11, <1>2, <1>3, <1>5, <1>6, <1>7, <1>8, <1>9, <1>10

-----------------------------------------------------------------------------
\* A step of an executor changes of the calls only their answers, and only
\* those of calls that were sent.
OnlyAnswers ==
  /\ calls' \in [Calls -> Call] /\ UNCHANGED clientVars
  /\ \A d \in Calls :
       /\ calls'[d].kind = calls[d].kind /\ calls'[d].handle = calls[d].handle
       /\ calls'[d].task = calls[d].task /\ calls'[d].exec = calls[d].exec
       /\ calls'[d].pc = calls[d].pc     /\ calls'[d].result = calls[d].result
       /\ calls'[d].answer # calls[d].answer => calls[d].pc \in {"wait", "done"}

LEMMA AnswersKeep ==
  ASSUME ClientInv, OnlyAnswers, \A e \in Calls : state'[e] = "none" <=> state[e] = "none"
  PROVE  /\ \A d \in Calls : GoodCall(d)' /\ (Accepted(d)' <=> Accepted(d))
         /\ HandlesAgree' /\ OneOwner'
<1>1. /\ UNCHANGED <<handles, executor, closed>> /\ TypeOK
      /\ \A d \in Calls : calls[d] \in Call /\ GoodCall(d)
  BY DEF OnlyAnswers, clientVars, ClientInv, TypeOK
<1>2. \A d \in Calls : Accepted(d)' <=> Accepted(d)
  BY DEF OnlyAnswers, Accepted, Returned, Done
<1>3. ASSUME NEW d \in Calls PROVE GoodCall(d)'
  <2>1. /\ calls[d].exec # NoExec => calls[d].exec \in Calls
        /\ calls[d].task # NoTask => calls[d].task \in Calls
    BY <1>1 DEF Call
  <2>2. Busy(d)' = Busy(d)
    BY DEF OnlyAnswers, Busy
  <2>3. GoodCall(d)
    BY <1>1
  <2>4. /\ calls'[d].kind = calls[d].kind /\ calls'[d].handle = calls[d].handle
        /\ calls'[d].task = calls[d].task /\ calls'[d].exec = calls[d].exec
        /\ calls'[d].pc = calls[d].pc
        /\ calls'[d].answer # calls[d].answer => calls[d].pc \in {"wait", "done"}
    BY DEF OnlyAnswers
  <2>5. /\ state'[d] = "none" <=> state[d] = "none"
        /\ calls[d].exec # NoExec => (state'[calls[d].exec] = "none" <=> state[calls[d].exec] = "none")
    BY <2>1
  <2>6. calls'[d].pc \notin {"wait", "done"} => calls'[d].answer = "none"
    BY <2>3, <2>4 DEF GoodCall
  <2>7. \A t \in Calls : calls[d].task = t => Accepted(t)'
    BY <2>3, <1>2 DEF GoodCall
  <2>8. QED  BY <1>1, <1>2, <2>2, <2>3, <2>4, <2>5, <2>6, <2>7 DEF GoodCall
<1>4. HandlesAgree'
  <2>1. OneExecutorPerHandle'
    BY <1>1 DEF OnlyAnswers, ClientInv, HandlesAgree, OneExecutorPerHandle
  <2>2. ASSUME NEW h \in Handles, executor[h] # NoExec PROVE state'[executor[h]] # "none"
    <3>1. executor[h] \in Calls /\ state[executor[h]] # "none"
      BY <1>1, <2>2 DEF ClientInv, HandlesAgree, TypeOK
    <3>2. QED  BY <3>1
  <2>3. QED  BY <1>1, <2>1, <2>2 DEF HandlesAgree
<1>5. OneOwner'
  BY <1>1 DEF OnlyAnswers, ClientInv, OneOwner, Owner
<1>6. QED  BY <1>2, <1>3, <1>4, <1>5

-----------------------------------------------------------------------------
\* Handles that are cloned and dropped: a call keeps its handle alive, and no
\* call has gone through a handle before it is made.
LEMMA HandlesKeep ==
  ASSUME ClientInv, NEW h \in Handles, NEW g \in Handles, Clone(h, g) \/ DropHandle(h)
  PROVE  ClientInv'
<1>1. /\ UNCHANGED <<closed, state, chan, tasks, over, calls>> /\ TypeOK
      /\ \A d \in Calls : calls[d] \in Call /\ GoodCall(d)
      /\ handles[h] = "live"
  BY DEF Clone, DropHandle, executorVars, ClientInv, TypeOK
<1>2. \A d \in Calls : calls[d].handle \in Handles
  BY <1>1 DEF Call
<1>3. TypeOK'
  BY <1>1 DEF Clone, DropHandle, TypeOK
<1>4. \A d \in Calls : Accepted(d)' <=> Accepted(d)
  BY <1>1 DEF Accepted, Returned, Done
<1>5. \A d \in Calls :
        /\ Busy(d) => handles'[calls[d].handle] = "live"
        /\ handles[calls[d].handle] # "unmade" => handles'[calls[d].handle] # "unmade"
  <2>1. CASE Clone(h, g)
    BY <1>1, <1>2, <2>1 DEF Clone, GoodCall, TypeOK
  <2>2. CASE DropHandle(h)
    BY <1>1, <1>2, <2>2 DEF DropHandle, InProgress, Busy, GoodCall, TypeOK
  <2>3. QED  BY <2>1, <2>2
<1>6. ASSUME NEW d \in Calls PROVE GoodCall(d)'
  <2>1. GoodCall(d) /\ (calls[d].task # NoTask => calls[d].task \in Calls)
    BY <1>1 DEF Call
  <2>2. QED  BY <2>1, <1>1, <1>4, <1>5 DEF GoodCall, Busy
<1>7. HandlesAgree'
  <2>1. CASE Clone(h, g)
    <3>1. \A d \in Calls : calls[d].exec # NoExec => calls[d].handle # g
      BY <1>1, <2>1 DEF Clone, GoodCall
    <3>2. QED
      BY <1>1, <1>2, <2>1, <3>1 DEF Clone, ClientInv, HandlesAgree, OneExecutorPerHandle, TypeOK
  <2>2. CASE DropHandle(h)
    BY <1>1, <1>2, <2>2 DEF DropHandle, ClientInv, HandlesAgree, OneExecutorPerHandle, TypeOK
  <2>3. QED  BY <2>1, <2>2
<1>8. GoodChannels' /\ OneOwner' /\ ClosedForGood' /\ AcceptedIsFound'
  <2>1. GoodChannels'
    BY <1>1 DEF ClientInv, GoodChannels
  <2>2. OneOwner'
    BY <1>1 DEF ClientInv, OneOwner, Owner
  <2>3. ClosedForGood' /\ AcceptedIsFound'
    BY <1>1 DEF ClientInv, ClosedForGood, AcceptedIsFound
  <2>4. QED  BY <2>1, <2>2, <2>3
<1>9. AcceptedIsKnown'
  BY <1>1 DEF ClientInv, AcceptedIsKnown, TaskFound, Found, Known, InChannel, Accepted, Returned, Done
<1>10. QED  BY <1>3, <1>6, <1>7, <1>8, <1>9 DEF ClientInv

\* A new executor: nothing has been sent to it yet.
LEMMA CreateKeeps ==
  ASSUME ClientInv, NEW c \in Calls, CreateExec(c)
  PROVE  ClientInv'
<1> DEFINE x == [calls[c] EXCEPT !.pc = "set"]
<1>1. /\ calls' = [calls EXCEPT ![c] = x] /\ state' = [state EXCEPT ![c] = "running"]
      /\ UNCHANGED <<handles, executor, closed, chan, tasks, over>>
      /\ calls[c] \in Call /\ GoodCall(c) /\ calls[c].pc = "get" /\ TypeOK
  BY DEF CreateExec, clientVars, ClientInv, TypeOK
<1>2. /\ x \in Call /\ x.kind = calls[c].kind /\ x.handle = calls[c].handle
      /\ x.task = calls[c].task /\ x.exec = calls[c].exec /\ x.pc = "set"
      /\ x.answer = calls[c].answer
  BY <1>1 DEF Call
<1> HIDE DEF x
<1>3. /\ calls' \in [Calls -> Call]
      /\ \A d \in Calls : calls'[d] = IF d = c THEN x ELSE calls[d]
      /\ \A e \in Calls : state'[e] = IF e = c THEN "running" ELSE state[e]
  BY <1>1, <1>2, OneCall DEF TypeOK
<1>4. TypeOK'
  BY <1>1, <1>3 DEF TypeOK
<1>5. state[c] = "none" /\ \A d \in Calls : calls[d].exec # c /\ GoodCall(d) /\ calls[d] \in Call
  <2>1. state[c] = "none"
    BY <1>1 DEF GoodCall
  <2>2. QED  BY <2>1, <1>1 DEF ClientInv, GoodCall, TypeOK
<1>6. Len(chan[c]) = 0
  <2>1. Len(chan[c]) \in Nat /\ \A i \in 1..Len(chan[c]) : FALSE
    BY <1>1, <1>5, ChannelFacts DEF ClientInv
  <2>2. Len(chan[c]) \in Nat /\ (Len(chan[c]) # 0 => 1 \in 1..Len(chan[c]))
    BY <2>1
  <2>3. QED  BY <2>1, <2>2
<1>7. (\A d \in Calls : Accepted(d)' <=> Accepted(d)) /\ ~Accepted(c)
  BY <1>1, <1>2, <1>3 DEF Accepted, Returned, Done
<1>8. ASSUME NEW d \in Calls PROVE GoodCall(d)'
  <2>1. /\ GoodCall(d) /\ calls'[d].task = calls[d].task
        /\ calls[d].task # NoTask => calls[d].task \in Calls
        /\ calls[d].exec # NoExec => calls[d].exec \in Calls /\ calls[d].exec # c
    BY <1>2, <1>3, <1>5 DEF Call
  <2>2. CASE d = c
    <3>1. calls'[d] = x /\ state'[c] = "running"
      BY <2>2, <1>3
    <3>2. handles[x.handle] = "live" /\ (x.exec # NoExec => state'[x.exec] # "none")
      BY <2>1, <2>2, <1>1, <1>2, <1>3 DEF GoodCall, Busy
    <3>3. \A t \in Calls : calls[c].task = t => Accepted(t)'
      BY <2>1, <2>2, <1>7 DEF GoodCall
    <3>4. QED  BY <3>1, <3>2, <3>3, <2>2, <1>1, <1>2, <1>7 DEF GoodCall, Busy
  <2>3. CASE d # c
    BY <2>1, <2>3, <1>1, <1>3, <1>7 DEF GoodCall, Busy
  <2>4. QED  BY <2>2, <2>3
<1>9. HandlesAgree'
  <2>1. OneExecutorPerHandle'
    BY <1>1, <1>2, <1>3 DEF ClientInv, HandlesAgree, OneExecutorPerHandle
  <2>2. ASSUME NEW h \in Handles, executor[h] # NoExec PROVE state'[executor[h]] # "none"
    <3>1. executor[h] \in Calls /\ state[executor[h]] # "none"
      BY <1>1, <2>2 DEF ClientInv, HandlesAgree, TypeOK
    <3>2. QED  BY <3>1, <1>3
  <2>3. QED  BY <1>1, <2>1, <2>2 DEF HandlesAgree
<1>10. GoodChannels'
  <2>1. ASSUME NEW e \in Calls, NEW i \in 1..Len(chan[e])
        PROVE  calls'[chan[e][i]].exec = e /\ calls'[chan[e][i]].pc \in {"wait", "done"}
    BY <1>1, <1>3, ChannelFacts DEF ClientInv
  <2>2. chan' = chan
    BY <1>1
  <2>3. QED  BY <2>1, <2>2 DEF GoodChannels
<1>11. OneOwner'
  BY <1>1, <1>2, <1>3 DEF ClientInv, OneOwner, Owner
<1>12. ClosedForGood'
  <2>1. ASSUME NEW d \in Calls, (calls[d].kind = "close" /\ calls[d].answer = "Ok")'
        PROVE  (/\ calls[d].exec # NoExec /\ tasks[calls[d].exec] = {}
                /\ state[calls[d].exec] \in {"closing", "exited"})'
    <3>1. /\ calls'[d].kind = calls[d].kind /\ calls'[d].answer = calls[d].answer
          /\ calls'[d].exec = calls[d].exec
      BY <1>2, <1>3
    <3>2. calls[d].exec # NoExec => calls[d].exec \in Calls /\ calls[d].exec # c
      BY <1>5 DEF Call
    <3>3. /\ calls[d].exec # NoExec /\ tasks[calls[d].exec] = {}
          /\ state[calls[d].exec] \in {"closing", "exited"}
      BY <3>1, <2>1, <1>1 DEF ClientInv, ClosedForGood
    <3>4. QED  BY <3>1, <3>2, <3>3, <1>1, <1>3
  <2>2. QED  BY <2>1 DEF ClosedForGood
<1>13. AcceptedIsFound'
  <2>1. ASSUME NEW d \in Calls, (calls[d].task # NoTask /\ calls[d].answer = "TaskNotFound")'
        PROVE  (calls[d].task \in over \/ calls[calls[d].task].exec # calls[d].exec)'
    <3>1. /\ calls'[d].task = calls[d].task /\ calls'[d].answer = calls[d].answer
          /\ calls'[d].exec = calls[d].exec
      BY <1>2, <1>3
    <3>2. calls[d].task \in Calls /\ calls'[calls[d].task].exec = calls[calls[d].task].exec
      BY <3>1, <2>1, <1>2, <1>3, <1>5, TaskFacts, <1>1
    <3>3. over' = over
      BY <1>1
    <3>4. QED  BY <3>1, <3>2, <3>3, <2>1 DEF ClientInv, AcceptedIsFound
  <2>2. QED  BY <2>1 DEF AcceptedIsFound
<1>14. AcceptedIsKnown'
  <2>1. ASSUME NEW t \in Calls, Accepted(t)', (state[calls[t].exec] = "running")'
        PROVE  (t \in Known(calls[t].exec) \/ InChannel(t, calls[t].exec))'
    <3>1. Accepted(t) /\ calls'[t] = calls[t]
      BY <2>1, <1>3, <1>7
    <3>2. GoodCall(t) /\ calls[t] \in Call /\ calls[t].exec # c
      BY <1>5
    <3>3. calls[t].exec \in Calls
      BY <3>1, <3>2 DEF GoodCall, Call
    <3>4. QED  BY <3>1, <3>2, <3>3, <2>1, <1>1, <1>3 DEF ClientInv, AcceptedIsKnown, InChannel, Known
  <2>2. ASSUME NEW e \in Calls, state'[e] = "running", NEW i \in 1..Len(chan[e])
        PROVE  TaskFound(chan[e][i], e, i)'
    <3> DEFINE d == chan[e][i]
    <3>1. d \in Calls /\ d' = d /\ e # c
      BY <1>1, <1>6, ChannelFacts DEF ClientInv
    <3>2. calls'[d].task = calls[d].task
      BY <3>1, <1>2, <1>3
    <3>3. calls[d].task # NoTask =>
            calls[d].task \in Calls /\ calls'[calls[d].task].exec = calls[calls[d].task].exec
      BY <3>1, <1>1, <1>2, <1>3, <1>5, TaskFacts
    <3>4. TaskFound(d, e, i)
      BY <2>2, <3>1, <1>3 DEF ClientInv, AcceptedIsKnown
    <3> HIDE DEF d
    <3>5. QED  BY <3>1, <3>2, <3>3, <3>4, <1>1 DEF TaskFound, Found, Known, d
  <2>3. QED  BY <2>1, <2>2, <1>1 DEF AcceptedIsKnown
<1>15. QED
  BY <1>4, <1>8, <1>9, <1>10, <1>11, <1>12, <1>13, <1>14 DEF ClientInv

-----------------------------------------------------------------------------
\* Sequences that lose their head or get a new last element.
LEMMA AppendFacts ==
  ASSUME NEW S, NEW s \in Seq(S), NEW x \in S
  PROVE  /\ Append(s, x) \in Seq(S) /\ Len(Append(s, x)) = Len(s) + 1 /\ Len(s) \in Nat
         /\ \A i \in 1..Len(s) : Append(s, x)[i] = s[i]
         /\ Append(s, x)[Len(s) + 1] = x
BY AppendProperties, LenProperties

LEMMA TailFacts ==
  ASSUME NEW S, NEW s \in Seq(S), s # <<>>
  PROVE  /\ Head(s) = s[1] /\ Head(s) \in S /\ Len(s) \in Nat /\ Len(s) >= 1
         /\ Tail(s) \in Seq(S) /\ Len(Tail(s)) = Len(s) - 1
         /\ \A i \in 1..Len(Tail(s)) : Tail(s)[i] = s[i + 1]
<1>1. Len(s) \in Nat /\ Len(s) # 0
  BY EmptySeq, LenProperties
<1>2. QED  BY <1>1, HeadTailProperties

-----------------------------------------------------------------------------
\* A call that puts its command into the channel. What was there before keeps
\* its place.
LEMMA SendKeeps ==
  ASSUME ClientInv, NEW c \in Calls, calls[c].pc = "send", HasRoom(calls[c].exec), Put(c),
         UNCHANGED <<handles, executor, closed, state, tasks, over>>,
         NEW x \in Call, calls' = [calls EXCEPT ![c] = x],
         x.kind = calls[c].kind, x.handle = calls[c].handle, x.task = calls[c].task,
         x.exec = calls[c].exec, x.answer = calls[c].answer,
         \/ x.pc = "wait" /\ x.kind # "enqueue"
         \/ x.pc = "done" /\ x.kind = "enqueue" /\ x.result = "Ok"
  PROVE  ClientInv'
<1> DEFINE f == calls[c].exec
<1>1. /\ calls[c] \in Call /\ GoodCall(c) /\ f \in Calls /\ TypeOK
      /\ chan[f] \in Seq(Calls) /\ Len(chan[f]) < ChanCap
  <2>1. TypeOK /\ calls[c] \in Call /\ GoodCall(c)
    BY DEF ClientInv, TypeOK
  <2>2. f \in Calls
    BY <2>1 DEF GoodCall, Call
  <2>3. chan[f] \in Seq(Calls)
    BY <2>1, <2>2 DEF TypeOK
  <2>4. Len(chan[f]) < ChanCap
    BY DEF HasRoom
  <2>5. QED  BY <2>1, <2>2, <2>3, <2>4
<1>2. /\ calls' \in [Calls -> Call]
      /\ \A d \in Calls : calls'[d] = IF d = c THEN x ELSE calls[d]
  BY <1>1, OneCall DEF TypeOK
<1>3. /\ chan' \in [Calls -> Seq(Calls)] /\ Len(chan[f]) \in Nat
      /\ \A e \in Calls : e # f => chan'[e] = chan[e]
      /\ Len(chan'[f]) = Len(chan[f]) + 1 /\ chan'[f][Len(chan[f]) + 1] = c
      /\ \A i \in 1..Len(chan[f]) : chan'[f][i] = chan[f][i]
  <2>1. chan' = [chan EXCEPT ![f] = Append(chan[f], c)]
    BY DEF Put
  <2>2. Append(chan[f], c) \in Seq(Calls)
    BY <1>1, AppendFacts
  <2>3. QED  BY <1>1, <2>1, <2>2, AppendFacts DEF TypeOK
<1> HIDE DEF f
<1>a. ASSUME NEW e \in Calls
      PROVE  /\ \A i \in 1..Len(chan'[e]) :
                  \/ e = f /\ i = Len(chan[f]) + 1 /\ chan'[e][i] = c
                  \/ i \in 1..Len(chan[e]) /\ chan'[e][i] = chan[e][i]
             /\ \A i \in 1..Len(chan[e]) : i \in 1..Len(chan'[e]) /\ chan'[e][i] = chan[e][i]
             /\ Len(chan'[e]) <= ChanCap
  <2>1. CASE e = f
    <3>1. \A i \in 1..Len(chan'[f]) : i = Len(chan[f]) + 1 \/ i \in 1..Len(chan[f])
      BY <1>3
    <3>2. QED  BY <2>1, <3>1, <1>1, <1>3
  <2>2. CASE e # f
    BY <2>2, <1>1, <1>3 DEF TypeOK
  <2>3. QED  BY <2>1, <2>2
<1>4. TypeOK'
  BY <1>1, <1>2, <1>3, <1>a DEF TypeOK
<1>5. /\ \A d \in Calls : Accepted(d) => Accepted(d)'
      /\ \A d \in Calls : Accepted(d)' => Accepted(d) \/ d = c
      /\ ~Accepted(c)
  BY <1>2 DEF Accepted, Returned, Done
<1>6. ASSUME NEW d \in Calls PROVE GoodCall(d)'
  <2>1. GoodCall(d) /\ calls[d] \in Call /\ calls'[d] = IF d = c THEN x ELSE calls[d]
    BY <1>2 DEF ClientInv, TypeOK
  <2>2. CASE d = c
    BY <2>1, <2>2, <1>1, <1>5 DEF GoodCall, Busy
  <2>3. CASE d # c
    BY <2>1, <2>3, <1>5 DEF GoodCall, Busy
  <2>4. QED  BY <2>2, <2>3
<1>7. HandlesAgree'
  BY <1>2 DEF ClientInv, HandlesAgree, OneExecutorPerHandle
<1>8. GoodChannels'
  <2>1. ASSUME NEW e \in Calls, NEW i \in 1..Len(chan'[e])
        PROVE  calls'[chan'[e][i]].exec = e /\ calls'[chan'[e][i]].pc \in {"wait", "done"}
    <3>1. CASE e = f /\ chan'[e][i] = c
      BY <3>1, <1>2 DEF f
    <3>2. CASE i \in 1..Len(chan[e]) /\ chan'[e][i] = chan[e][i]
      <4>1. /\ chan[e][i] \in Calls /\ calls[chan[e][i]].exec = e
            /\ calls[chan[e][i]].pc \in {"wait", "done"}
        BY <3>2, <1>1, ChannelFacts DEF ClientInv
      <4>2. QED  BY <3>2, <4>1, <1>2
    <3>3. QED  BY <3>1, <3>2, <1>a
  <2>2. QED  BY <2>1 DEF GoodChannels
<1>9. OneOwner'
  <2>1. \A d \in Calls : Owner(d)' => Owner(d)
    BY <1>2 DEF Owner
  <2>2. QED  BY <2>1 DEF ClientInv, OneOwner
<1>10. ClosedForGood' /\ AcceptedIsFound'
  <2>1. ClosedForGood'
    BY <1>2 DEF ClientInv, ClosedForGood
  <2>2. ASSUME NEW d \in Calls, (calls[d].task # NoTask /\ calls[d].answer = "TaskNotFound")'
        PROVE  (calls[d].task \in over \/ calls[calls[d].task].exec # calls[d].exec)'
    <3>1. /\ calls'[d].task = calls[d].task /\ calls'[d].answer = calls[d].answer
          /\ calls'[d].exec = calls[d].exec
      BY <1>2
    <3>2. calls[d].task \in Calls /\ calls'[calls[d].task].exec = calls[calls[d].task].exec
      BY <3>1, <2>2, <1>1, <1>2, TaskFacts DEF ClientInv
    <3>3. QED  BY <3>1, <3>2, <2>2, <1>1 DEF ClientInv, AcceptedIsFound
  <2>3. QED  BY <2>1, <2>2 DEF AcceptedIsFound
<1>11. AcceptedIsKnown'
  <2>1. ASSUME NEW t \in Calls, Accepted(t)', (state[calls[t].exec] = "running")'
        PROVE  (t \in Known(calls[t].exec) \/ InChannel(t, calls[t].exec))'
    <3>1. calls'[t].exec = calls[t].exec /\ calls[t].exec \in Calls
      BY <2>1, <1>1, <1>2, <1>4, <1>6 DEF GoodCall, Call, TypeOK
    <3>2. CASE t = c
      <4>1. Len(chan[f]) + 1 \in 1..Len(chan'[f]) /\ chan'[f][Len(chan[f]) + 1] = t
        BY <3>2, <1>3
      <4>2. calls'[t].exec = f
        BY <3>1, <3>2 DEF f
      <4>3. QED  BY <4>1, <4>2 DEF InChannel
    <3>3. CASE t # c
      <4>1. t \in Known(calls[t].exec) \/ InChannel(t, calls[t].exec)
        BY <2>1, <3>1, <3>3, <1>5 DEF ClientInv, AcceptedIsKnown
      <4>2. calls'[t].exec = calls[t].exec /\ calls[t].exec \in Calls
        BY <3>1, <3>3, <1>2
      <4>3. InChannel(t, calls[t].exec) => InChannel(t, calls[t].exec)'
        BY <4>2, <1>a DEF InChannel
      <4>4. (t \in Known(calls[t].exec))' <=> t \in Known(calls[t].exec)
        BY <4>2 DEF Known
      <4>5. QED  BY <4>1, <4>3, <4>4
    <3>4. QED  BY <3>2, <3>3
  <2>2. ASSUME NEW e \in Calls, state[e] = "running", NEW i \in 1..Len(chan'[e])
        PROVE  TaskFound(chan[e][i], e, i)'
    <3>1. PICK d \in Calls : d = chan'[e][i]
      BY <1>3, ElementOfSeq
    <3>2. SUFFICES ASSUME NEW t \in Calls, calls[d].task = t, calls[t].exec = e
                   PROVE  t \in Known(e) \/ \E j \in 1..(i - 1) : chan'[e][j] = t
      <4>1. calls'[d].task = calls[d].task /\ GoodCall(d)
        BY <1>2 DEF ClientInv
      <4>2. calls[d].task # NoTask =>
              calls[d].task \in Calls /\ calls'[calls[d].task].exec = calls[calls[d].task].exec
        BY <4>1, <1>1, <1>2, TaskFacts
      <4>3. Known(e)' = Known(e)
        BY DEF Known
      <4>4. calls'[d].task # NoTask /\ calls'[calls'[d].task].exec = e
            => calls[d].task \in Calls /\ calls[calls[d].task].exec = e
        BY <4>1, <4>2
      <4>5. ASSUME calls'[d].task # NoTask /\ calls'[calls'[d].task].exec = e
            PROVE  calls'[d].task \in Known(e) \/ \E j \in 1..(i - 1) : chan'[e][j] = calls'[d].task
        BY <4>1, <4>4, <4>5, <3>2
      <4>6. QED  BY <3>1, <4>3, <4>5 DEF TaskFound, Found
    <3>3. CASE e = f /\ i = Len(chan[f]) + 1
      <4>1. Accepted(t)
        BY <3>2 DEF ClientInv, GoodCall
      <4>2. t \in Known(calls[t].exec) \/ InChannel(t, calls[t].exec)
        BY <4>1, <3>2, <2>2 DEF ClientInv, AcceptedIsKnown
      <4>3. t \in Known(f) \/ \E j \in 1..Len(chan[f]) : chan[f][j] = t
        BY <4>2, <3>2, <3>3 DEF InChannel
      <4>4. \A j \in 1..Len(chan[f]) : j \in 1..(i - 1) /\ chan'[e][j] = chan[f][j]
        BY <3>3, <1>3
      <4>5. QED  BY <3>3, <4>3, <4>4
    <3>4. CASE i \in 1..Len(chan[e]) /\ chan'[e][i] = chan[e][i]
      <4>1. TaskFound(d, e, i)
        BY <3>1, <3>4, <2>2 DEF ClientInv, AcceptedIsKnown
      <4>2. t \in Known(e) \/ \E j \in 1..(i - 1) : chan[e][j] = t
        BY <3>2, <4>1 DEF TaskFound, Found
      <4>3. Len(chan[e]) \in Nat
        BY <1>1, ChannelFacts DEF ClientInv
      <4>4. \A j \in 1..(i - 1) : j \in 1..Len(chan[e])
        BY <3>4, <4>3
      <4>5. \A j \in 1..(i - 1) : chan'[e][j] = chan[e][j]
        BY <4>4, <1>a
      <4>6. QED  BY <4>2, <4>5
    <3>5. QED  BY <3>3, <3>4, <1>a
  <2>3. QED  BY <2>1, <2>2 DEF AcceptedIsKnown
<1>12. QED
  BY <1>4, <1>6, <1>7, <1>8, <1>9, <1>10, <1>11 DEF ClientInv

LEMMA SendsKeep ==
  ASSUME ClientInv, NEW c \in Calls, TrySend(c) \/ Send(c)
  PROVE  ClientInv'
<1>1. calls[c] \in Call
  BY DEF ClientInv, TypeOK
<1>2. CASE Send(c)
  <2>1. [calls[c] EXCEPT !.pc = "wait"] \in Call
    BY <1>1 DEF Call
  <2>2. QED  BY <1>1, <1>2, <2>1, SendKeeps DEF Send, clientVars, Call
<1>3. CASE TrySend(c) /\ HasRoom(calls[c].exec)
  <2>1. [calls[c] EXCEPT !.pc = "done", !.result = "Ok"] \in Call
    BY <1>1 DEF Call
  <2>2. calls' = [calls EXCEPT ![c] = [calls[c] EXCEPT !.pc = "done", !.result = "Ok"]]
    BY <1>3 DEF TrySend, Return
  <2>3. UNCHANGED <<handles, executor, closed, state, tasks, over>> /\ Put(c)
    BY <1>3 DEF TrySend, Return
  <2>4. QED  BY <1>1, <1>3, <2>1, <2>2, <2>3, SendKeeps DEF TrySend, Call
<1>4. CASE TrySend(c) /\ ~HasRoom(calls[c].exec)
  <2>1. MovesTo(c, [calls[c] EXCEPT !.pc = "done", !.result = "CommandSendFailed"])
    BY <1>1, <1>4 DEF TrySend, Return, MovesTo, Call, Busy, executorVars, Refused
  <2>2. QED  BY <2>1, MoveKeeps
<1>5. QED  BY <1>2, <1>3, <1>4

-----------------------------------------------------------------------------
\* The loop takes a command. Only a task leaves the channel for the table; a
\* control command finds its task there, since nothing is left before it.
LEMMA TakeKeeps ==
  ASSUME ClientInv, NEW e \in Calls, Take(e)
  PROVE  ClientInv'
<1> DEFINE c == Head(chan[e])
<1>1. /\ TypeOK /\ state[e] = "running" /\ UNCHANGED <<handles, executor, closed>>
      /\ chan[e] \in Seq(Calls) /\ chan[e] # <<>> /\ chan' = [chan EXCEPT ![e] = Tail(chan[e])]
  BY DEF Take, ClientInv, TypeOK, clientVars
<1>2. /\ c = chan[e][1] /\ Len(chan[e]) \in Nat /\ Len(chan[e]) >= 1
      /\ Tail(chan[e]) \in Seq(Calls) /\ Len(Tail(chan[e])) = Len(chan[e]) - 1
      /\ \A i \in 1..Len(Tail(chan[e])) : Tail(chan[e])[i] = chan[e][i + 1]
  BY <1>1, TailFacts
<1>3. c \in Calls /\ calls[c] \in Call /\ calls[c].exec = e /\ calls[c].pc \in {"wait", "done"}
  <2>1. 1 \in 1..Len(chan[e])
    BY <1>2
  <2>2. /\ chan[e][1] \in Calls /\ calls[chan[e][1]] \in Call
        /\ calls[chan[e][1]].exec = e /\ calls[chan[e][1]].pc \in {"wait", "done"}
    BY <2>1, <1>1, ChannelFacts DEF ClientInv
  <2>3. QED  BY <2>2, <1>2
<1> HIDE DEF c
<1>4. \/ /\ calls[c].kind = "enqueue" /\ UNCHANGED <<state, calls>>
         /\ \/ tasks' = [tasks EXCEPT ![e] = tasks[e] \cup {c}] /\ over' = over
            \/ tasks' = tasks /\ over' = over \cup {c}
      \/ /\ calls[c].kind \in {"control", "cancel"} /\ UNCHANGED state
         /\ calls' = [calls EXCEPT ![c].answer =
              IF calls[c].task \in tasks[e] \cup {NoTask} THEN "Ok" ELSE "TaskNotFound"]
         /\ \E gone \in SUBSET tasks[e] :
              tasks' = [tasks EXCEPT ![e] = tasks[e] \ gone] /\ over' = over \cup gone
      \/ /\ calls[c].kind = "close" /\ tasks' = [tasks EXCEPT ![e] = {}]
         /\ state' = [state EXCEPT ![e] = "closing"]
         /\ calls' = [calls EXCEPT ![c].answer = "Ok"] /\ over' = over
  <2>1. CASE calls[c].kind = "enqueue" /\ Admit(e, c) /\ UNCHANGED <<state, calls>>
    BY <2>1 DEF Admit
  <2>2. CASE calls[c].kind \in {"control", "cancel"} /\ Command(e, c) /\ UNCHANGED state
    <3> DEFINE gone == IF calls[c].kind = "cancel" THEN tasks[e] \cap {calls[c].task} ELSE {}
    <3>1. gone \in SUBSET tasks[e]
      OBVIOUS
    <3>2. tasks' = [tasks EXCEPT ![e] = tasks[e] \ gone] /\ over' = over \cup gone
      BY <2>2 DEF Command
    <3> HIDE DEF gone
    <3>3. QED  BY <2>2, <3>1, <3>2 DEF Command, Answer
  <2>3. CASE /\ calls[c].kind = "close" /\ tasks' = [tasks EXCEPT ![e] = {}]
             /\ state' = [state EXCEPT ![e] = "closing"] /\ Answer(c, "Ok") /\ UNCHANGED over
    BY <2>3 DEF Answer
  <2>4. QED  BY <2>1, <2>2, <2>3 DEF Take, c
<1>5. /\ chan' \in [Calls -> Seq(Calls)]
      /\ \A d \in Calls : d # e => chan'[d] = chan[d]
      /\ Len(chan'[e]) = Len(chan[e]) - 1
      /\ \A i \in 1..Len(chan'[e]) : i + 1 \in 1..Len(chan[e]) /\ chan'[e][i] = chan[e][i + 1]
  <2>1. chan' \in [Calls -> Seq(Calls)] /\ chan'[e] = Tail(chan[e])
        /\ \A d \in Calls : d # e => chan'[d] = chan[d]
    BY <1>1, <1>2 DEF TypeOK
  <2>2. \A i \in 1..(Len(chan[e]) - 1) : i + 1 \in 1..Len(chan[e])
    BY <1>2
  <2>3. QED  BY <2>1, <2>2, <1>2
<1>6. /\ OnlyAnswers
      /\ \A d \in Calls : calls'[d].answer # calls[d].answer =>
           /\ d = c /\ calls[c].kind # "enqueue"
           /\ calls'[c].answer = "Ok" => calls[c].kind \in {"close", "control", "cancel"}
           /\ calls'[c].answer = "TaskNotFound" =>
                calls[c].kind # "close" /\ calls[c].task \notin tasks[e] \cup {NoTask}
  <2>1. /\ calls' \in [Calls -> Call]
        /\ \A d \in Calls : d # c => calls'[d] = calls[d]
        /\ calls'[c] = calls[c] \/ calls'[c] = [calls[c] EXCEPT !.answer = calls'[c].answer]
    <3>1. CASE UNCHANGED calls
      BY <3>1, <1>1, <1>3 DEF TypeOK
    <3>2. ASSUME NEW a \in {"Ok", "TaskNotFound"}, calls' = [calls EXCEPT ![c].answer = a]
          PROVE  <2>1!:
      <4>1. [calls[c] EXCEPT !.answer = a] \in Call
        BY <1>3 DEF Call
      <4>2. calls' \in [Calls -> Call] /\ calls'[c] = [calls[c] EXCEPT !.answer = a]
            /\ \A d \in Calls : d # c => calls'[d] = calls[d]
        BY <4>1, <3>2, <1>1, <1>3 DEF TypeOK
      <4>3. calls'[c].answer = a
        BY <4>2, <1>3 DEF Call
      <4>4. QED  BY <4>2, <4>3
    <3>3. QED  BY <3>1, <3>2, <1>4
  <2>2. calls'[c].kind = calls[c].kind /\ calls'[c].handle = calls[c].handle
        /\ calls'[c].task = calls[c].task /\ calls'[c].exec = calls[c].exec
        /\ calls'[c].pc = calls[c].pc     /\ calls'[c].result = calls[c].result
    BY <2>1, <1>3 DEF Call
  <2>3. OnlyAnswers
    BY <2>1, <2>2, <1>1, <1>3 DEF OnlyAnswers, clientVars
  <2>4. calls'[c].answer # calls[c].answer =>
          /\ calls[c].kind # "enqueue"
          /\ calls'[c].answer = "Ok" => calls[c].kind \in {"close", "control", "cancel"}
          /\ calls'[c].answer = "TaskNotFound" =>
               calls[c].kind # "close" /\ calls[c].task \notin tasks[e] \cup {NoTask}
    BY <1>1, <1>3, <1>4 DEF TypeOK, Call
  <2>5. QED  BY <2>1, <2>3, <2>4
<1>7. TypeOK'
  <2>1. \A d \in Calls : Len(chan'[d]) <= ChanCap
    BY <1>1, <1>2, <1>5 DEF TypeOK
  <2>2. state' \in [Calls -> {"none", "running", "closing", "exited"}]
        /\ tasks' \in [Calls -> SUBSET Calls]
    <3>1. state' \in [Calls -> {"none", "running", "closing", "exited"}]
      BY <1>1, <1>4 DEF TypeOK
    <3>2. PICK S \in SUBSET Calls : tasks' = [tasks EXCEPT ![e] = S]
      <4>1. /\ tasks[e] \in SUBSET Calls /\ tasks[e] \cup {c} \in SUBSET Calls
            /\ {} \in SUBSET Calls
            /\ \A gone \in SUBSET tasks[e] : tasks[e] \ gone \in SUBSET Calls
        BY <1>1, <1>3 DEF TypeOK
      <4>2. tasks' = tasks => tasks' = [tasks EXCEPT ![e] = tasks[e]]
        BY <1>1 DEF TypeOK
      <4>3. QED  BY <4>1, <4>2, <1>4
    <3>3. QED  BY <3>1, <3>2, <1>1 DEF TypeOK
  <2>3. over' \subseteq Calls
    BY <1>1, <1>3, <1>4 DEF TypeOK
  <2>4. QED  BY <2>1, <2>2, <2>3, <1>1, <1>5, <1>6 DEF TypeOK, OnlyAnswers
<1>8. /\ \A d \in Calls : d # e => state'[d] = state[d] /\ tasks'[d] = tasks[d]
      /\ state'[e] = "running" \/ (calls[c].kind = "close" /\ state'[e] = "closing" /\ tasks'[e] = {})
      /\ state'[e] = "running" => Known(e) \subseteq Known(e)'
      /\ state'[e] = "running" /\ calls[c].kind = "enqueue" => c \in Known(e)'
      /\ over \subseteq over'
  BY <1>1, <1>3, <1>4 DEF TypeOK, Known
<1>9. /\ \A d \in Calls : GoodCall(d)' /\ (Accepted(d)' <=> Accepted(d))
      /\ HandlesAgree' /\ OneOwner'
  <2>1. \A d \in Calls : state'[d] = "none" <=> state[d] = "none"
    BY <1>1, <1>8
  <2>2. QED  BY <2>1, <1>6, AnswersKeep
<1>10. GoodChannels'
  <2>1. ASSUME NEW f \in Calls, NEW i \in 1..Len(chan'[f])
        PROVE  calls'[chan'[f][i]].exec = f /\ calls'[chan'[f][i]].pc \in {"wait", "done"}
    <3>1. PICK j \in 1..Len(chan[f]) : chan'[f][i] = chan[f][j]
      BY <1>5
    <3>2. /\ chan[f][j] \in Calls /\ calls[chan[f][j]].exec = f
          /\ calls[chan[f][j]].pc \in {"wait", "done"}
      BY <1>1, ChannelFacts DEF ClientInv
    <3>3. QED  BY <3>1, <3>2, <1>6 DEF OnlyAnswers
  <2>2. QED  BY <2>1 DEF GoodChannels
<1>11. ClosedForGood'
  <2>1. ASSUME NEW d \in Calls, calls'[d].kind = "close", calls'[d].answer = "Ok"
        PROVE  /\ calls'[d].exec # NoExec /\ tasks'[calls'[d].exec] = {}
               /\ state'[calls'[d].exec] \in {"closing", "exited"}
    <3>1. calls'[d].exec = calls[d].exec /\ calls[d].kind = "close" /\ calls[d] \in Call
      BY <2>1, <1>1, <1>6 DEF OnlyAnswers, TypeOK
    <3>2. CASE calls[d].answer = "Ok"
      <4>1. /\ calls[d].exec # NoExec /\ tasks[calls[d].exec] = {}
            /\ state[calls[d].exec] \in {"closing", "exited"}
        BY <3>1, <3>2 DEF ClientInv, ClosedForGood
      <4>2. calls[d].exec \in Calls /\ calls[d].exec # e
        BY <4>1, <3>1, <1>1 DEF Call
      <4>3. QED  BY <4>1, <4>2, <3>1, <1>8
    <3>3. CASE calls[d].answer # "Ok"
      <4>1. d = c
        BY <3>3, <2>1, <1>6
      <4>2. state'[e] = "closing" /\ tasks'[e] = {}
        BY <4>1, <3>1, <1>1, <1>3, <1>4 DEF TypeOK
      <4>3. QED  BY <4>1, <4>2, <3>1, <1>3
    <3>4. QED  BY <3>2, <3>3
  <2>2. QED  BY <2>1 DEF ClosedForGood
<1>12. AcceptedIsFound'
  <2>1. ASSUME NEW d \in Calls, calls'[d].task # NoTask, calls'[d].answer = "TaskNotFound"
        PROVE  calls'[d].task \in over' \/ calls'[calls'[d].task].exec # calls'[d].exec
    <3>1. /\ calls'[d].exec = calls[d].exec /\ calls'[d].task = calls[d].task
          /\ calls[d].task \in Calls /\ calls'[calls[d].task].exec = calls[calls[d].task].exec
      BY <2>1, <1>1, <1>6, TaskFacts DEF OnlyAnswers, ClientInv
    <3>2. CASE calls[d].answer = "TaskNotFound"
      <4>1. over \subseteq over'
        BY <1>8
      <4>2. QED  BY <3>1, <3>2, <4>1, <2>1 DEF ClientInv, AcceptedIsFound
    <3>3. CASE calls[d].answer # "TaskNotFound"
      <4>1. d = c /\ calls[c].task \notin tasks[e]
        BY <3>3, <2>1, <1>6
      <4>2. TaskFound(c, e, 1)
        BY <1>1, <1>2 DEF ClientInv, AcceptedIsKnown
      <4>3. calls[calls[c].task].exec = e => calls[c].task \in over
        BY <4>1, <4>2, <3>1, <2>1 DEF TaskFound, Found, Known
      <4>4. QED  BY <4>1, <4>3, <3>1, <1>3, <1>8
    <3>4. QED  BY <3>2, <3>3
  <2>2. QED  BY <2>1 DEF AcceptedIsFound
<1>13. AcceptedIsKnown'
  <2> DEFINE At(f, j) == IF f = e THEN j - 1 ELSE j
  <2>1. ASSUME NEW t \in Calls, NEW f \in Calls, calls[t].kind = "enqueue", state'[f] = "running",
               NEW j \in 1..Len(chan[f]), chan[f][j] = t
        PROVE  t \in Known(f)' \/ (At(f, j) \in 1..Len(chan'[f]) /\ chan'[f][At(f, j)] = t)
    <3>1. CASE f # e
      BY <3>1, <2>1, <1>5
    <3>2. CASE f = e /\ j = 1
      BY <3>2, <2>1, <1>2, <1>8
    <3>3. CASE f = e /\ j # 1
      <4>1. j - 1 \in 1..Len(chan'[e]) /\ (j - 1) + 1 = j
        BY <3>3, <1>2, <1>5
      <4>2. QED  BY <4>1, <3>3, <2>1, <1>5
    <3>4. QED  BY <3>1, <3>2, <3>3
  <2> HIDE DEF At
  <2>2. \A f \in Calls : state'[f] = "running" => state[f] = "running" /\ Known(f) \subseteq Known(f)'
    BY <1>1, <1>8 DEF Known
  <2>3. ASSUME NEW t \in Calls, Accepted(t)', (state[calls[t].exec] = "running")'
        PROVE  (t \in Known(calls[t].exec) \/ InChannel(t, calls[t].exec))'
    <3>1. Accepted(t) /\ calls'[t].exec = calls[t].exec /\ calls[t].exec \in Calls
      BY <2>3, <1>1, <1>6, <1>9 DEF OnlyAnswers, ClientInv, GoodCall, Call, TypeOK
    <3>2. t \in Known(calls[t].exec) \/ InChannel(t, calls[t].exec)
      BY <3>1, <2>2, <2>3 DEF ClientInv, AcceptedIsKnown
    <3>3. CASE t \in Known(calls[t].exec)
      <4>1. PICK f \in Calls : f = calls[t].exec /\ f = calls'[t].exec /\ state'[f] = "running"
        BY <3>1, <2>3
      <4>2. t \in Known(f)'
        BY <3>3, <4>1, <2>2
      <4>3. QED  BY <4>1, <4>2 DEF Known
    <3>4. CASE InChannel(t, calls[t].exec)
      <4>1. PICK f \in Calls : f = calls[t].exec /\ f = calls'[t].exec /\ state'[f] = "running"
        BY <3>1, <2>3
      <4>2. PICK j \in 1..Len(chan[f]) : chan[f][j] = t
        BY <3>4, <4>1 DEF InChannel
      <4>3. t \in Known(f)' \/ (At(f, j) \in 1..Len(chan'[f]) /\ chan'[f][At(f, j)] = t)
        BY <3>1, <4>1, <4>2, <2>1 DEF Accepted
      <4>4. t \in Known(f)' \/ \E i \in 1..Len(chan'[f]) : chan'[f][i] = t
        BY <4>3
      <4>5. QED  BY <4>1, <4>4 DEF InChannel, Known
    <3>5. QED  BY <3>2, <3>3, <3>4
  <2>4. ASSUME NEW f \in Calls, state'[f] = "running", NEW i \in 1..Len(chan'[f])
        PROVE  TaskFound(chan[f][i], f, i)'
    <3>1. PICK j \in 1..Len(chan[f]) : chan'[f][i] = chan[f][j] /\ j = IF f = e THEN i + 1 ELSE i
      BY <1>5
    <3>2. PICK d \in Calls : d = chan'[f][i] /\ GoodCall(d)
      BY <1>1, <3>1, ChannelFacts DEF ClientInv
    <3>3. SUFFICES ASSUME NEW t \in Calls, calls[d].task = t, calls[t].exec = f
                   PROVE  t \in Known(f)' \/ \E k \in 1..(i - 1) : chan'[f][k] = t
      <4>1. /\ calls'[d].task = calls[d].task
            /\ calls[d].task # NoTask =>
                 calls[d].task \in Calls /\ calls'[calls[d].task].exec = calls[calls[d].task].exec
        BY <3>2, <1>1, <1>6, TaskFacts DEF OnlyAnswers
      <4>2. QED  BY <3>2, <4>1 DEF TaskFound, Found
    <3>4. t \in Known(f) \/ \E k \in 1..(j - 1) : chan[f][k] = t
      <4>1. TaskFound(d, f, j)
        BY <3>1, <3>2, <2>2, <2>4 DEF ClientInv, AcceptedIsKnown
      <4>2. QED  BY <4>1, <3>3 DEF TaskFound, Found
    <3>5. CASE t \in Known(f)
      BY <3>5, <2>2, <2>4
    <3>6. ASSUME NEW k \in 1..(j - 1), chan[f][k] = t
          PROVE  t \in Known(f)' \/ \E n \in 1..(i - 1) : chan'[f][n] = t
      <4>1. Len(chan[f]) \in Nat
        BY <1>1, ChannelFacts DEF ClientInv
      <4>2. k \in 1..Len(chan[f])
        BY <4>1
      <4>3. calls[t].kind = "enqueue"
        BY <3>2, <3>3, TaskFacts, <1>1
      <4>4. t \in Known(f)' \/ (At(f, k) \in 1..Len(chan'[f]) /\ chan'[f][At(f, k)] = t)
        BY <4>2, <4>3, <3>6, <2>1, <2>4
      <4>5. At(f, k) \in 1..Len(chan'[f]) => At(f, k) \in 1..(i - 1)
        BY <3>1, <4>2 DEF At
      <4>6. QED  BY <4>4, <4>5
    <3>7. QED  BY <3>4, <3>5, <3>6
  <2>5. QED  BY <2>3, <2>4 DEF AcceptedIsKnown
<1>14. QED
  BY <1>7, <1>9, <1>10, <1>11, <1>12, <1>13 DEF ClientInv

-----------------------------------------------------------------------------
\* The end of an executor, after Close or for want of senders.
LEMMA EndKeeps ==
  ASSUME ClientInv, NEW e \in Calls, Exit(e) \/ NoSender(e)
  PROVE  ClientInv'
<1>1. /\ TypeOK /\ state[e] \in {"closing", "running"} /\ state' = [state EXCEPT ![e] = "exited"]
      /\ UNCHANGED <<handles, executor, closed, over>>
      /\ \A d \in Calls : calls[d] \in Call /\ GoodCall(d)
  BY DEF Exit, NoSender, ClientInv, TypeOK, clientVars
<1>2. /\ chan' \in [Calls -> Seq(Calls)] /\ Len(chan'[e]) = 0
      /\ \A d \in Calls : d # e => chan'[d] = chan[d]
  <2>1. << >> \in Seq(Calls) /\ Len(<< >>) = 0
    BY EmptySeq
  <2>2. CASE Exit(e)
    BY <2>1, <2>2, <1>1 DEF Exit, TypeOK
  <2>3. CASE NoSender(e)
    BY <2>1, <2>3, <1>1 DEF NoSender, TypeOK
  <2>4. QED  BY <2>2, <2>3
<1>3. /\ tasks' \in [Calls -> SUBSET Calls] /\ tasks'[e] \subseteq tasks[e]
      /\ \A d \in Calls : d # e => tasks'[d] = tasks[d]
  BY <1>1 DEF Exit, NoSender, TypeOK
<1>4. \A d \in Calls : state'[d] = IF d = e THEN "exited" ELSE state[d]
  BY <1>1 DEF TypeOK
<1>5. /\ OnlyAnswers
      /\ \A d \in Calls : calls'[d].answer # "none" =>
           calls'[d].answer = calls[d].answer \/ calls'[d].answer = "CommandResponseFailed"
  <2>1. CASE calls' = calls
    BY <2>1, <1>1 DEF OnlyAnswers, clientVars, TypeOK
  <2>2. CASE Exit(e)
    <3>1. \A d \in Calls :
            /\ InChannel(d, e) => calls'[d] = [calls[d] EXCEPT !.answer = "CommandResponseFailed"]
            /\ ~InChannel(d, e) => calls'[d] = calls[d]
      BY <2>2 DEF Exit
    <3>2. \A d \in Calls : [calls[d] EXCEPT !.answer = "CommandResponseFailed"] \in Call
      BY <1>1 DEF Call
    <3>3. calls' \in [Calls -> Call]
      BY <2>2, <3>2, <1>1 DEF Exit
    <3>4. ASSUME NEW d \in Calls, InChannel(d, e) PROVE calls[d].pc \in {"wait", "done"}
      BY <3>4, <1>1, ChannelFacts DEF InChannel, ClientInv
    <3>5. ASSUME NEW d \in Calls
          PROVE  /\ calls'[d].kind = calls[d].kind /\ calls'[d].handle = calls[d].handle
                 /\ calls'[d].task = calls[d].task /\ calls'[d].exec = calls[d].exec
                 /\ calls'[d].pc = calls[d].pc     /\ calls'[d].result = calls[d].result
                 /\ calls'[d].answer = calls[d].answer
                    \/ (calls'[d].answer = "CommandResponseFailed" /\ InChannel(d, e))
      <4>1. CASE InChannel(d, e)
        BY <4>1, <3>1, <1>1 DEF Call
      <4>2. CASE ~InChannel(d, e)
        BY <4>2, <3>1
      <4>3. QED  BY <4>1, <4>2
    <3>6. QED  BY <3>3, <3>4, <3>5, <1>1 DEF OnlyAnswers, clientVars
  <2>3. QED  BY <2>1, <2>2 DEF NoSender, Exit
<1>6. TypeOK'
  <2>1. \A d \in Calls : Len(chan'[d]) <= ChanCap
    BY <1>1, <1>2 DEF TypeOK
  <2>2. QED  BY <2>1, <1>1, <1>2, <1>3, <1>5 DEF TypeOK, OnlyAnswers
<1>7. /\ \A d \in Calls : GoodCall(d)' /\ (Accepted(d)' <=> Accepted(d))
      /\ HandlesAgree' /\ OneOwner'
  <2>1. \A d \in Calls : state'[d] = "none" <=> state[d] = "none"
    BY <1>1, <1>4
  <2>2. QED  BY <2>1, <1>5, AnswersKeep
<1>8. GoodChannels'
  <2>1. ASSUME NEW f \in Calls, NEW i \in 1..Len(chan'[f])
        PROVE  calls'[chan'[f][i]].exec = f /\ calls'[chan'[f][i]].pc \in {"wait", "done"}
    <3>1. f # e /\ chan'[f] = chan[f]
      BY <1>2
    <3>2. /\ chan[f][i] \in Calls /\ calls[chan[f][i]].exec = f
          /\ calls[chan[f][i]].pc \in {"wait", "done"}
      BY <3>1, <1>1, ChannelFacts DEF ClientInv
    <3>3. QED  BY <3>1, <3>2, <1>5 DEF OnlyAnswers
  <2>2. QED  BY <2>1 DEF GoodChannels
<1>9. ClosedForGood'
  <2>1. ASSUME NEW d \in Calls, calls'[d].kind = "close", calls'[d].answer = "Ok"
        PROVE  /\ calls'[d].exec # NoExec /\ tasks'[calls'[d].exec] = {}
               /\ state'[calls'[d].exec] \in {"closing", "exited"}
    <3>1. /\ calls'[d].exec = calls[d].exec /\ calls[d].exec # NoExec
          /\ tasks[calls[d].exec] = {} /\ state[calls[d].exec] \in {"closing", "exited"}
      BY <2>1, <1>5 DEF OnlyAnswers, ClientInv, ClosedForGood
    <3>2. calls[d].exec \in Calls
      BY <3>1, <1>1 DEF Call
    <3>3. QED  BY <3>1, <3>2, <1>3, <1>4
  <2>2. QED  BY <2>1 DEF ClosedForGood
<1>10. AcceptedIsFound'
  <2>1. ASSUME NEW d \in Calls, calls'[d].task # NoTask, calls'[d].answer = "TaskNotFound"
        PROVE  calls'[d].task \in over' \/ calls'[calls'[d].task].exec # calls'[d].exec
    <3>1. /\ calls'[d].exec = calls[d].exec /\ calls'[d].task = calls[d].task
          /\ calls[d].task \in Calls /\ calls'[calls[d].task].exec = calls[calls[d].task].exec
          /\ calls[d].answer = "TaskNotFound"
      BY <2>1, <1>1, <1>5, TaskFacts DEF OnlyAnswers
    <3>2. QED  BY <3>1, <2>1, <1>1 DEF ClientInv, AcceptedIsFound
  <2>2. QED  BY <2>1 DEF AcceptedIsFound
<1>11. AcceptedIsKnown'
  <2>1. ASSUME NEW t \in Calls, Accepted(t)', (state[calls[t].exec] = "running")'
        PROVE  (t \in Known(calls[t].exec) \/ InChannel(t, calls[t].exec))'
    <3>1. /\ Accepted(t) /\ calls'[t].exec = calls[t].exec /\ calls[t].exec \in Calls
      BY <2>1, <1>1, <1>5, <1>7 DEF OnlyAnswers, GoodCall, Call
    <3>2. calls[t].exec # e /\ state[calls[t].exec] = "running"
      BY <3>1, <2>1, <1>4
    <3>3. t \in Known(calls[t].exec) \/ InChannel(t, calls[t].exec)
      BY <3>1, <3>2 DEF ClientInv, AcceptedIsKnown
    <3>4. QED  BY <3>1, <3>2, <3>3, <1>1, <1>2, <1>3 DEF InChannel, Known
  <2>2. ASSUME NEW f \in Calls, state'[f] = "running", NEW i \in 1..Len(chan'[f])
        PROVE  TaskFound(chan[f][i], f, i)'
    <3>1. f # e /\ chan'[f] = chan[f] /\ tasks'[f] = tasks[f] /\ state[f] = "running"
      BY <2>2, <1>2, <1>3, <1>4
    <3>2. PICK d \in Calls : d = chan[f][i] /\ GoodCall(d) /\ TaskFound(d, f, i)
      <4>1. i \in 1..Len(chan[f])
        BY <3>1
      <4>2. QED  BY <4>1, <3>1, <1>1, ChannelFacts DEF ClientInv, AcceptedIsKnown
    <3>3. /\ calls'[d].task = calls[d].task
          /\ calls[d].task # NoTask =>
               calls[d].task \in Calls /\ calls'[calls[d].task].exec = calls[calls[d].task].exec
      BY <3>2, <1>1, <1>5, TaskFacts DEF OnlyAnswers
    <3>4. QED  BY <3>1, <3>2, <3>3, <1>1 DEF TaskFound, Found, Known
  <2>3. QED  BY <2>1, <2>2 DEF AcceptedIsKnown
<1>12. QED
  BY <1>6, <1>7, <1>8, <1>9, <1>10, <1>11 DEF ClientInv

\* The end of a task: it is over from then on.
LEMMA TaskEndsKeeps ==
  ASSUME ClientInv, NEW e \in Calls, TaskEnds(e)
  PROVE  ClientInv'
<1>1. UNCHANGED <<handles, executor, closed, state, chan, calls>> /\ TypeOK
  BY DEF TaskEnds, clientVars, ClientInv
<1>2. PICK t \in tasks[e] : /\ tasks' = [tasks EXCEPT ![e] = tasks[e] \ {t}]
                           /\ over' = over \cup {t}
  BY DEF TaskEnds
<1>3. /\ tasks' \in [Calls -> SUBSET Calls] /\ over' \subseteq Calls /\ over \subseteq over'
      /\ \A d \in Calls : tasks'[d] \subseteq tasks[d] /\ Known(d) \subseteq Known(d)'
  BY <1>1, <1>2 DEF TypeOK, Known
<1>4. TypeOK'
  BY <1>1, <1>3 DEF TypeOK
<1>5. \A d \in Calls : (Accepted(d)' <=> Accepted(d)) /\ (Owner(d)' <=> Owner(d))
  BY <1>1 DEF Accepted, Returned, Done, Owner
<1>6. \A d \in Calls : GoodCall(d)'
  BY <1>1, <1>5 DEF ClientInv, GoodCall, Busy
<1>7. HandlesAgree' /\ GoodChannels' /\ OneOwner'
  BY <1>1, <1>5 DEF ClientInv, HandlesAgree, OneExecutorPerHandle, GoodChannels, OneOwner
<1>8. ClosedForGood'
  <2>1. ASSUME NEW d \in Calls, calls[d].exec # NoExec PROVE calls[d].exec \in Calls
    BY <2>1, <1>1 DEF TypeOK, Call
  <2>2. QED  BY <2>1, <1>1, <1>3 DEF ClientInv, ClosedForGood
<1>9. AcceptedIsFound'
  BY <1>1, <1>3 DEF ClientInv, AcceptedIsFound
<1>10. AcceptedIsKnown'
  <2>1. ASSUME NEW d \in Calls, Accepted(d)', (state[calls[d].exec] = "running")'
        PROVE  (d \in Known(calls[d].exec) \/ InChannel(d, calls[d].exec))'
    <3>1. Accepted(d) /\ calls[d].exec \in Calls /\ state[calls[d].exec] = "running"
      BY <2>1, <1>1, <1>5 DEF ClientInv, GoodCall, TypeOK, Call
    <3>2. QED  BY <3>1, <1>1, <1>3 DEF ClientInv, AcceptedIsKnown, InChannel
  <2>2. ASSUME NEW f \in Calls, state[f] = "running", NEW i \in 1..Len(chan[f])
        PROVE  TaskFound(chan[f][i], f, i)'
    <3>1. TaskFound(chan[f][i], f, i)
      BY <2>2 DEF ClientInv, AcceptedIsKnown
    <3>2. QED  BY <3>1, <1>1, <1>3 DEF TaskFound, Found
  <2>3. QED  BY <2>1, <2>2, <1>1 DEF AcceptedIsKnown
<1>11. QED
  BY <1>4, <1>6, <1>7, <1>8, <1>9, <1>10 DEF ClientInv

-----------------------------------------------------------------------------
\* The inductive invariant.
LEMMA ClientInvInductive ==
  /\ Init => ClientInv
  /\ ClientInv /\ [Next]_vars => ClientInv'
<1>1. ASSUME Init PROVE ClientInv
  <2>1. Unused \in Call
    BY DEF Unused, Call, Kinds
  <2>2. /\ \A c \in Calls : calls[c] = Unused /\ state[c] = "none" /\ Len(chan[c]) = 0
        /\ \A h \in Handles : executor[h] = NoExec
    BY <1>1 DEF Init
  <2>3. TypeOK
    <3>1. chan \in [Calls -> Seq(Calls)] /\ \A e \in Calls : Len(chan[e]) <= ChanCap
      BY <1>1, <2>2 DEF Init
    <3>2. handles \in [Handles -> {"unmade", "live", "dropped"}]
      BY <1>1 DEF Init
    <3>3. QED  BY <1>1, <2>1, <3>1, <3>2 DEF Init, TypeOK
  <2>4. /\ Unused.kind = "enqueue" /\ Unused.pc = "unused" /\ Unused.exec = NoExec
        /\ Unused.task = NoTask /\ Unused.answer = "none"
    BY DEF Unused
  <2>5. \A c \in Calls : ~Accepted(c) /\ ~Owner(c) /\ ~Busy(c)
    BY <2>2, <2>4 DEF Accepted, Returned, Done, Owner, Busy
  <2>6. \A c \in Calls : GoodCall(c)
    BY <2>2, <2>4, <2>5 DEF GoodCall
  <2>7. HandlesAgree /\ GoodChannels /\ ClosedForGood /\ AcceptedIsFound
    BY <2>2, <2>4 DEF HandlesAgree, OneExecutorPerHandle, GoodChannels, ClosedForGood, AcceptedIsFound
  <2>8. OneOwner /\ AcceptedIsKnown
    BY <2>2, <2>5 DEF OneOwner, AcceptedIsKnown
  <2>9. QED  BY <2>3, <2>6, <2>7, <2>8 DEF ClientInv
<1>2. ASSUME ClientInv, Next PROVE ClientInv'
  <2>1. ASSUME NEW c \in Calls, CallStep(c) PROVE ClientInv'
    BY <1>2, <2>1, MovesKeep, CreateKeeps, SendsKeep DEF CallStep
  <2>2. ASSUME NEW e \in Calls, ExecutorStep(e) PROVE ClientInv'
    BY <1>2, <2>2, TakeKeeps, EndKeeps DEF ExecutorStep
  <2>3. ASSUME NEW c \in Calls, NEW h \in Handles, Enqueue(c, h) PROVE ClientInv'
    BY <1>2, <2>3, BeginGood DEF Enqueue, Kinds
  <2>4. ASSUME NEW c \in Calls, NEW h \in Handles, Close(c, h) PROVE ClientInv'
    BY <1>2, <2>4, BeginGood DEF Close, Kinds
  <2>5. ASSUME NEW c \in Calls, NEW h \in Handles,
               NEW task \in {t \in Calls : Accepted(t)} \cup {NoTask},
               Control(c, h, task) \/ Cancel(c, h, task)
        PROVE  ClientInv'
    <3>1. task \in Calls \cup {NoTask} /\ (task # NoTask => Accepted(task))
      OBVIOUS
    <3>2. QED  BY <1>2, <2>5, <3>1, BeginGood DEF Control, Cancel, Kinds
  <2>6. ASSUME NEW c \in Calls, DropFuture(c) PROVE ClientInv'
    BY <1>2, <2>6, MovesKeep
  <2>7. ASSUME NEW h \in Handles, NEW g \in Handles, Clone(h, g) \/ DropHandle(h)
        PROVE  ClientInv'
    BY <1>2, <2>7, HandlesKeep
  <2>8. ASSUME NEW e \in Calls, TaskEnds(e) PROVE ClientInv'
    BY <1>2, <2>8, TaskEndsKeeps
  <2>9. QED
    BY <1>2, <2>1, <2>2, <2>3, <2>4, <2>5, <2>6, <2>7, <2>8 DEF Next, User, SystemStep
<1>3. ASSUME ClientInv, UNCHANGED vars PROVE ClientInv'
  <2>1. UNCHANGED <<handles, executor, closed, state, chan, tasks, over, calls>>
    BY <1>3 DEF vars
  <2>2. TypeOK' /\ HandlesAgree' /\ GoodChannels' /\ ClosedForGood' /\ AcceptedIsFound'
    BY <1>3, <2>1 DEF ClientInv, TypeOK, HandlesAgree, OneExecutorPerHandle, GoodChannels,
                      ClosedForGood, AcceptedIsFound
  <2>3. \A c \in Calls : (Accepted(c)' <=> Accepted(c)) /\ (Owner(c)' <=> Owner(c))
    BY <2>1 DEF Accepted, Returned, Done, Owner
  <2>4. \A c \in Calls : GoodCall(c)'
    BY <1>3, <2>1, <2>3 DEF ClientInv, GoodCall, Busy
  <2>5. OneOwner'
    BY <1>3, <2>1, <2>3 DEF ClientInv, OneOwner
  <2>6. AcceptedIsKnown'
    <3>1. ASSUME NEW t \in Calls, Accepted(t), (state[calls[t].exec] = "running")'
          PROVE  (t \in Known(calls[t].exec) \/ InChannel(t, calls[t].exec))'
      BY <1>3, <3>1, <2>1 DEF ClientInv, AcceptedIsKnown, Known, InChannel
    <3>2. ASSUME NEW e \in Calls, state[e] = "running", NEW i \in 1..Len(chan[e])
          PROVE  TaskFound(chan[e][i], e, i)'
      <4>1. TaskFound(chan[e][i], e, i)
        BY <1>3, <3>2 DEF ClientInv, AcceptedIsKnown
      <4>2. QED  BY <4>1, <2>1 DEF TaskFound, Found, Known
    <3>3. QED  BY <2>1, <2>3, <3>1, <3>2 DEF AcceptedIsKnown
  <2>7. QED  BY <2>2, <2>4, <2>5, <2>6 DEF ClientInv
<1>4. QED  BY <1>1, <1>2, <1>3

-----------------------------------------------------------------------------
\* The client's state is what the inductive invariant says, between any two
\* steps of its callers and its executors.
THEOREM ClientCorrect == Spec => []ClientInv
BY ClientInvInductive, PTL DEF Spec

\* Every variable keeps its type and no channel holds more than its capacity:
\* try_send and send both give up or wait when it is full.
THEOREM ClientTypeOK == Spec => []TypeOK
<1>1. ClientInv => TypeOK
  BY DEF ClientInv
<1>2. QED  BY <1>1, ClientCorrect, PTL

\* However many first calls race in get_exec, all calls through a handle use
\* the executor in its OnceLock.
THEOREM HandlesMeetOneExecutor == Spec => []OneExecutorPerHandle
<1>1. ClientInv => OneExecutorPerHandle
  BY DEF ClientInv, HandlesAgree
<1>2. QED  BY <1>1, ClientCorrect, PTL

\* At most one close ever returns Ok, and after it the flag is never clear:
\* the compare_exchange lets only one close at a time own it, and a close that
\* gives it back has not returned Ok.
THEOREM ClosesOnce == Spec => []CloseIsFinal
<1>1. ASSUME ClientInv PROVE CloseIsFinal
  <2>1. \A c \in Calls : calls[c].kind = "close" /\ Returned(c) => Owner(c)
    BY DEF Returned, Done, Owner
  <2>2. QED  BY <1>1, <2>1 DEF ClientInv, OneOwner, CloseIsFinal, ClosedOk
<1>2. QED  BY <1>1, ClientCorrect, PTL

\* An executor that has answered Close has no tasks, whatever is still sent to
\* it before its receiver is gone.
THEOREM NothingAfterClose == Spec => []ClosedExecutorIsEmpty
<1>1. ClientInv => ClosedExecutorIsEmpty
  BY DEF ClientInv, ClosedForGood, ClosedExecutorIsEmpty
<1>2. QED  BY <1>1, ClientCorrect, PTL

\* enqueue does not wait for the scheduler, yet no command for a task that it
\* has accepted can come before the task, as the channel keeps their order: an
\* executor that was sent a task finds it until the task is over, that is, was
\* dropped as a duplicate, cancelled or ended.
THEOREM CommandsFindTheirTask == Spec => []AcceptedIsFound
<1>1. ClientInv => AcceptedIsFound
  BY DEF ClientInv
<1>2. QED  BY <1>1, ClientCorrect, PTL

\* What a step may do to a channel.
LEMMA ChannelSteps ==
  ASSUME ClientInv, [Next]_vars, NEW c \in Calls, NEW e \in Calls,
         calls[c].kind = "enqueue", InChannel(c, e), ~InChannel(c, e)'
  PROVE  c \in tasks'[e] \/ (c \in over' /\ tasks[e] # {}) \/ state[e] = "closing"
<1>1. TypeOK /\ chan[e] \in Seq(Calls) /\ calls[c] \in Call
  BY DEF ClientInv, TypeOK
<1>2. chan'[e] # chan[e]
  BY DEF InChannel
<1>3. ASSUME NEW d \in Calls, CallStep(d) PROVE FALSE
  <2>1. chan' = chan \/ (TrySend(d) /\ Put(d)) \/ (Send(d) /\ Put(d))
    BY <1>3 DEF CallStep, Construct, Reject, GetExec, NothingToClose, CreateExec,
                CreateExecFails, SetExec, TrySend, Send, SendFails, GetAnswer, executorVars
  <2>2. calls[d].exec = e /\ chan' = [chan EXCEPT ![e] = Append(chan[e], d)]
    BY <2>1, <1>1, <1>2 DEF Put, TypeOK
  <2>3. chan'[e] = Append(chan[e], d)
    BY <2>2, <1>1 DEF TypeOK
  <2>4. \A i \in 1..Len(chan[e]) : i \in 1..Len(chan'[e]) /\ chan'[e][i] = chan[e][i]
    BY <2>3, <1>1, AppendFacts
  <2>5. QED  BY <2>4 DEF InChannel
<1>4. ASSUME NEW f \in Calls, ExecutorStep(f)
      PROVE  c \in tasks'[e] \/ (c \in over' /\ tasks[e] # {}) \/ state[e] = "closing"
  <2>1. CASE Take(f)
    <3>1. f = e /\ chan[e] # <<>> /\ chan' = [chan EXCEPT ![e] = Tail(chan[e])]
      BY <2>1, <1>1, <1>2 DEF Take, TypeOK
    <3>2. chan'[e] = Tail(chan[e])
      BY <3>1, <1>1 DEF TypeOK
    <3>3. PICK i \in 1..Len(chan[e]) : chan[e][i] = c
      BY DEF InChannel
    <3>4. i = 1
      <4>1. SUFFICES ASSUME i # 1 PROVE FALSE
        OBVIOUS
      <4>2. i - 1 \in 1..Len(chan'[e]) /\ chan'[e][i - 1] = c
        <5>1. /\ Len(chan[e]) \in Nat /\ Len(chan'[e]) = Len(chan[e]) - 1
              /\ \A j \in 1..Len(chan'[e]) : chan'[e][j] = chan[e][j + 1]
          BY <3>1, <3>2, <1>1, TailFacts
        <5>2. i - 1 \in 1..Len(chan'[e]) /\ (i - 1) + 1 = i
          BY <4>1, <5>1
        <5>3. QED  BY <3>3, <5>1, <5>2
      <4>3. QED  BY <4>2 DEF InChannel
    <3>5. c = Head(chan[e])
      BY <3>1, <3>3, <3>4, <1>1, TailFacts
    <3>6. Admit(e, c)
      BY <2>1, <3>1, <3>5 DEF Take
    <3>7. QED  BY <3>6, <1>1 DEF Admit, TypeOK
  <2>2. CASE Exit(f)
    BY <2>2, <1>1, <1>2 DEF Exit, TypeOK
  <2>3. CASE NoSender(f)
    BY <2>3, <1>2 DEF NoSender
  <2>4. QED  BY <1>4, <2>1, <2>2, <2>3 DEF ExecutorStep
<1>5. ASSUME User \/ UNCHANGED vars \/ \E f \in Calls : TaskEnds(f) PROVE FALSE
  <2>1. chan' = chan
    BY <1>5 DEF User, vars, Clone, DropHandle, Enqueue, Close, Control, Cancel, Begin, DropFuture,
                executorVars, TaskEnds
  <2>2. QED  BY <2>1, <1>2
<1>6. QED
  BY <1>3, <1>4, <1>5 DEF Next, SystemStep

\* A task that was submitted does not get lost in the channel: the scheduler
\* admits it, or drops it as the duplicate of a task it has, or a Close that
\* came before it has ended the loop.
THEOREM SubmittedReachesScheduler == Spec => SubmittedIsAdmitted
<1> DEFINE A == \A c, e \in Calls :
                  calls[c].kind = "enqueue" /\ InChannel(c, e) /\ ~InChannel(c, e)'
                  => \/ c \in tasks'[e]
                     \/ c \in over' /\ tasks[e] # {}
                     \/ state[e] = "closing"
<1>1. ClientInv /\ [Next]_vars => A
  BY ChannelSteps
<1>2. ClientInv /\ [Next]_vars => [A]_vars
  BY <1>1
<1> HIDE DEF A
<1>3. Spec => [][A]_vars
  BY <1>2, ClientCorrect, PTL DEF Spec
<1>4. QED  BY <1>3 DEF A, SubmittedIsAdmitted
=============================================================================
