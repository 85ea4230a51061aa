----------------------------- MODULE MeowClient -----------------------------
(***************************************************************************)
(* The client in front of the scheduler: handles that are cloned and       *)
(* dropped, calls on any thread that check the shared closed flag, create  *)
(* the handle's executor when there is none, send a command and wait for   *)
(* its answer, and executors that take commands until they are closed or   *)
(* nobody can send any more.                                               *)
(*                                                                         *)
(* An executor is named after the call that created it, a task after the   *)
(* call that submitted it. Simplifications: pause and resume of a task are *)
(* one kind of call ("control"), snapshot is one without a task; Ok stands *)
(* for every answer about a known task, InvalidTaskState too. The          *)
(* scheduler is cut down to the set of tasks it knows: a task joins it     *)
(* unless it is a duplicate of one that is there, and leaves it when it is *)
(* cancelled or ends. Which tasks are duplicates, and when one ends, is    *)
(* left open here; module Executor says it.                                *)
(***************************************************************************)
EXTENDS Naturals, FiniteSets, Sequences

CONSTANTS
  Handles,   \* the values of type MeowClient that share one closed flag
  First,     \* the handle that MeowClient::new returns
  Calls,     \* bounds the number of calls, numbered in the order they begin
  ChanCap,   \* capacity of the command channel, 256 in the code
  NoExec, NoTask

ASSUME ClientAssumption ==
  /\ IsFiniteSet(Handles) /\ IsFiniteSet(Calls) /\ Calls \subseteq Nat /\ First \in Handles
  /\ ChanCap \in Nat \ {0} /\ NoExec \notin Calls /\ NoTask \notin Calls

VARIABLES
  handles,   \* handle -> not made yet, live or dropped
  executor,  \* handle -> the executor in its OnceLock, or NoExec
  closed,    \* the AtomicBool all handles share
  state,     \* executor -> what its scheduler thread does
  chan,      \* executor -> the commands in its channel, by call
  tasks,     \* executor -> the tasks its scheduler knows, task_id_to_dedupe
  over,      \* ghost: the tasks that were duplicates, were cancelled or ended
  calls

vars == <<handles, executor, closed, state, chan, tasks, over, calls>>
clientVars   == <<handles, executor, closed>>
executorVars == <<state, chan, tasks, over>>

Kinds   == {"enqueue", "control", "cancel", "close"}
Refused == {"ClientClosed", "Rejected", "RuntimeCreationFailedError",
            "CommandSendFailed", "CommandResponseFailed"}
Call == [kind : Kinds, handle : Handles, task : Calls \cup {NoTask},
         exec : Calls \cup {NoExec},   \* the executor the call goes to
         pc : {"unused", "construct", "look", "get", "set", "send", "wait", "done"},
         answer : {"none", "Ok", "TaskNotFound", "CommandResponseFailed"},
         result : {"none", "Ok", "TaskNotFound", "dropped"} \cup Refused]
Unused == [kind |-> "enqueue", handle |-> First, task |-> NoTask, exec |-> NoExec,
           pc |-> "unused", answer |-> "none", result |-> "none"]

Init ==
  /\ handles = [h \in Handles |-> IF h = First THEN "live" ELSE "unmade"]
  /\ executor = [h \in Handles |-> NoExec]
  /\ closed = FALSE
  /\ state = [e \in Calls |-> "none"]
  /\ chan = [e \in Calls |-> <<>>]
  /\ tasks = [e \in Calls |-> {}]
  /\ over = {}
  /\ calls = [c \in Calls |-> Unused]

Done(c)     == calls[c].pc = "done"
Returned(c) == Done(c) /\ calls[c].result = "Ok"
Accepted(c) == calls[c].kind = "enqueue" /\ Returned(c)
ClosedOk    == \E c \in Calls : calls[c].kind = "close" /\ Returned(c)

InProgress(h) == \E c \in Calls : calls[c].pc \notin {"unused", "done"} /\ calls[c].handle = h

InChannel(c, e) == \E i \in 1..Len(chan[e]) : chan[e][i] = c

\* An executor can be sent commands through a handle that has it, or by the
\* call that has just created it.
Reachable(e) ==
  \/ \E h \in Handles : handles[h] = "live" /\ executor[h] = e
  \/ calls[e].pc = "set"

\* The call returns result; a close that fails takes the flag back.
Return(c, result) ==
  /\ calls' = [calls EXCEPT ![c].pc = "done", ![c].result = result]
  /\ closed' = IF calls[c].kind = "close" /\ result \notin {"Ok", "dropped"}
               THEN FALSE ELSE closed
  /\ UNCHANGED <<handles, executor>>

-----------------------------------------------------------------------------
\* Handles. derive(Clone) copies what the OnceLock holds at that moment.
Clone(h, g) ==
  /\ handles[h] = "live" /\ handles[g] = "unmade"
  /\ handles' = [handles EXCEPT ![g] = "live"]
  /\ executor' = [executor EXCEPT ![g] = executor[h]]
  /\ UNCHANGED <<closed, executorVars, calls>>

DropHandle(h) ==
  /\ handles[h] = "live" /\ ~InProgress(h)
  /\ handles' = [handles EXCEPT ![h] = "dropped"]
  /\ executor' = [executor EXCEPT ![h] = NoExec]
  /\ UNCHANGED <<closed, executorVars, calls>>

-----------------------------------------------------------------------------
\* Calls. A new one gets the next number.
IsNext(c) ==
  /\ calls[c].pc = "unused"
  /\ \A d \in Calls : d < c => calls[d].pc # "unused"

\* The first step is ensure_open, for close the compare_exchange. Of a call
\* that is refused nothing is kept.
Begin(c, h, kind, task, pc) ==
  /\ IsNext(c) /\ handles[h] = "live"
  /\ calls' = [calls EXCEPT ![c] =
       IF closed THEN [Unused EXCEPT !.pc = "done", !.result = "ClientClosed"]
       ELSE [Unused EXCEPT !.kind = kind, !.handle = h, !.task = task, !.pc = pc]]
  /\ UNCHANGED <<handles, executor, executorVars>>

Enqueue(c, h)       == Begin(c, h, "enqueue", NoTask, "construct") /\ UNCHANGED closed
Control(c, h, task) == Begin(c, h, "control", task, "get") /\ UNCHANGED closed
Cancel(c, h, task)  == Begin(c, h, "cancel", task, "get") /\ UNCHANGED closed

CloseStores(c, h) ==  \* Bug: the flag is stored, whatever it was.
  /\ IsNext(c) /\ handles[h] = "live"
  /\ calls' = [calls EXCEPT ![c] =
       [Unused EXCEPT !.kind = "close", !.handle = h, !.pc = "look"]]
  /\ closed' = TRUE
  /\ UNCHANGED <<handles, executor, executorVars>>

Close(c, h) == Begin(c, h, "close", NoTask, "look") /\ closed' = TRUE

\* enqueue rejects an empty task and awaits InnerTask::from_pounce, which
\* reads the source file of an upload.
Construct(c) ==
  /\ calls[c].pc = "construct"
  /\ calls' = [calls EXCEPT ![c].pc = "get"]
  /\ UNCHANGED <<clientVars, executorVars>>

Reject(c) ==
  /\ calls[c].pc = "construct"
  /\ Return(c, "Rejected")
  /\ UNCHANGED executorVars

\* get_exec finds an executor in the handle, or creates one: client, runtime
\* and thread, each of which may fail. close only looks.
GetExec(c) ==
  LET exec == executor[calls[c].handle]
  IN  /\ calls[c].pc \in {"get", "look"} /\ exec # NoExec
      /\ calls' = [calls EXCEPT ![c].pc = "send", ![c].exec = exec]
      /\ UNCHANGED <<clientVars, executorVars>>

NothingToClose(c) ==
  /\ calls[c].pc = "look" /\ executor[calls[c].handle] = NoExec
  /\ Return(c, "Ok")
  /\ UNCHANGED executorVars

CreateExec(c) ==
  /\ calls[c].pc = "get" /\ executor[calls[c].handle] = NoExec
  /\ state' = [state EXCEPT ![c] = "running"]
  /\ calls' = [calls EXCEPT ![c].pc = "set"]
  /\ UNCHANGED <<clientVars, chan, tasks, over>>

CreateExecFails(c) ==
  /\ calls[c].pc = "get" /\ executor[calls[c].handle] = NoExec
  /\ Return(c, "RuntimeCreationFailedError")
  /\ UNCHANGED executorVars

SetExecKeepsOwn(c) ==  \* Bug: the loser of the race goes on with its own.
  LET h == calls[c].handle
  IN  /\ calls[c].pc = "set"
      /\ executor' = [executor EXCEPT ![h] = IF @ = NoExec THEN c ELSE @]
      /\ calls' = [calls EXCEPT ![c].pc = "send", ![c].exec = c]
      /\ UNCHANGED <<handles, closed, executorVars>>

\* The first to set the OnceLock wins; the loser's executor is dropped and the
\* call goes on with the one that is there.
SetExec(c) ==
  LET h == calls[c].handle
  IN  /\ calls[c].pc = "set"
      /\ executor' = [executor EXCEPT ![h] = IF @ = NoExec THEN c ELSE @]
      /\ calls' = [calls EXCEPT ![c].pc = "send", ![c].exec = executor'[h]]
      /\ UNCHANGED <<handles, closed, executorVars>>

\* The receiver of an executor is gone when its thread has left the loop.
HasRoom(e) == state[e] # "exited" /\ Len(chan[e]) < ChanCap
Put(c)     == chan' = [chan EXCEPT ![calls[c].exec] = Append(@, c)]

TrySendUnbounded(c) ==  \* Bug: an unbounded channel, the queue has no limit.
  /\ calls[c].pc = "send" /\ calls[c].kind = "enqueue"
  /\ IF state[calls[c].exec] # "exited"
     THEN Put(c) /\ Return(c, "Ok")
     ELSE UNCHANGED chan /\ Return(c, "CommandSendFailed")
  /\ UNCHANGED <<state, tasks, over>>

\* enqueue uses try_send: it never waits, and a full channel is an error.
TrySend(c) ==
  /\ calls[c].pc = "send" /\ calls[c].kind = "enqueue"
  /\ IF HasRoom(calls[c].exec)
     THEN Put(c) /\ Return(c, "Ok")
     ELSE UNCHANGED chan /\ Return(c, "CommandSendFailed")
  /\ UNCHANGED <<state, tasks, over>>

SendInFront(c) ==  \* Bug: commands overtake the tasks that were submitted.
  /\ calls[c].pc = "send" /\ calls[c].kind # "enqueue" /\ HasRoom(calls[c].exec)
  /\ chan' = [chan EXCEPT ![calls[c].exec] = <<c>> \o @]
  /\ calls' = [calls EXCEPT ![c].pc = "wait"]
  /\ UNCHANGED <<clientVars, state, tasks, over>>

\* The other calls wait for room and then for the answer.
Send(c) ==
  /\ calls[c].pc = "send" /\ calls[c].kind # "enqueue" /\ HasRoom(calls[c].exec)
  /\ Put(c)
  /\ calls' = [calls EXCEPT ![c].pc = "wait"]
  /\ UNCHANGED <<clientVars, state, tasks, over>>

SendFails(c) ==
  /\ calls[c].pc = "send" /\ calls[c].kind # "enqueue"
  /\ state[calls[c].exec] = "exited"
  /\ Return(c, "CommandSendFailed")
  /\ UNCHANGED executorVars

GetAnswer(c) ==
  /\ calls[c].pc = "wait" /\ calls[c].answer # "none"
  /\ Return(c, calls[c].answer)
  /\ UNCHANGED executorVars

\* The caller drops the future at one of its awaits, a timeout around the call
\* for instance. What close did to the flag stays. (Before from_pounce is done
\* this is as good as a Reject.)
DropFuture(c) ==
  /\ calls[c].pc \in {"send", "wait"} /\ calls[c].kind # "enqueue"
  /\ Return(c, "dropped")
  /\ UNCHANGED executorVars

-----------------------------------------------------------------------------
\* Executors.
Answer(c, answer) == calls' = [calls EXCEPT ![c].answer = answer]

\* A task is admitted, unless its key is that of a task the scheduler has:
\* then its callbacks are told, and the task is dropped.
Admit(e, c) ==
  \/ tasks' = [tasks EXCEPT ![e] = @ \cup {c}] /\ UNCHANGED over
  \/ tasks[e] # {} /\ over' = over \cup {c} /\ UNCHANGED tasks

\* A command is answered by whether its task is known. A cancel ends the task:
\* cancel_group takes its id out of the table.
Command(e, c) ==
  LET gone == IF calls[c].kind = "cancel" THEN tasks[e] \cap {calls[c].task} ELSE {}
  IN  /\ Answer(c, IF calls[c].task \in tasks[e] \cup {NoTask} THEN "Ok" ELSE "TaskNotFound")
      /\ tasks' = [tasks EXCEPT ![e] = @ \ gone]
      /\ over' = over \cup gone

TakeGoesOn(e) ==  \* Bug: Close is answered, but the loop goes on.
  /\ state[e] = "running" /\ chan[e] # <<>>
  /\ chan' = [chan EXCEPT ![e] = Tail(@)]
  /\ LET c == Head(chan[e])
     IN  \/ calls[c].kind = "enqueue" /\ Admit(e, c) /\ UNCHANGED calls
         \/ calls[c].kind \in {"control", "cancel"} /\ Command(e, c)
         \/ /\ calls[c].kind = "close" /\ Answer(c, "Ok")
            /\ tasks' = [tasks EXCEPT ![e] = {}] /\ UNCHANGED over
  /\ UNCHANGED <<clientVars, state>>

\* The loop takes the next command. Close forgets all tasks, is answered and
\* ends the loop.
Take(e) ==
  /\ state[e] = "running" /\ chan[e] # <<>>
  /\ chan' = [chan EXCEPT ![e] = Tail(@)]
  /\ LET c == Head(chan[e])
     IN  \/ /\ calls[c].kind = "enqueue" /\ Admit(e, c)
            /\ UNCHANGED <<state, calls>>
         \/ /\ calls[c].kind \in {"control", "cancel"} /\ Command(e, c)
            /\ UNCHANGED state
         \/ /\ calls[c].kind = "close"
            /\ tasks' = [tasks EXCEPT ![e] = {}]
            /\ state' = [state EXCEPT ![e] = "closing"]
            /\ Answer(c, "Ok")
            /\ UNCHANGED over
  /\ UNCHANGED clientVars

\* The loop takes a Completed, Failed or Canceled that ends a task. The select
\* is biased: it does so when there is no command.
TaskEnds(e) ==
  /\ state[e] = "running" /\ chan[e] = <<>>
  /\ \E t \in tasks[e] :
       /\ tasks' = [tasks EXCEPT ![e] = @ \ {t}]
       /\ over' = over \cup {t}
  /\ UNCHANGED <<clientVars, state, chan, calls>>

\* After Close the receiver is dropped, and with it the commands that came
\* behind: their callers find the answer gone, a task among them is lost.
Exit(e) ==
  /\ state[e] = "closing"
  /\ state' = [state EXCEPT ![e] = "exited"]
  /\ chan' = [chan EXCEPT ![e] = <<>>]
  /\ calls' = [c \in Calls |->
       IF InChannel(c, e)
       THEN [calls[c] EXCEPT !.answer = "CommandResponseFailed"] ELSE calls[c]]
  /\ UNCHANGED <<clientVars, tasks, over>>

NoSenderAtOnce(e) ==  \* Bug: what is still in the channel is not taken.
  /\ state[e] = "running" /\ ~Reachable(e)
  /\ state' = [state EXCEPT ![e] = "exited"]
  /\ chan' = [chan EXCEPT ![e] = <<>>]
  /\ tasks' = [tasks EXCEPT ![e] = {}]
  /\ UNCHANGED <<clientVars, over, calls>>
NoSenderNever(e) == FALSE  \* Bug: the loop holds a sender of its own channel.

\* recv gives None when the channel is empty and every sender is dropped.
NoSender(e) ==
  /\ state[e] = "running" /\ chan[e] = <<>> /\ ~Reachable(e)
  /\ state' = [state EXCEPT ![e] = "exited"]
  /\ tasks' = [tasks EXCEPT ![e] = {}]
  /\ UNCHANGED <<clientVars, chan, over, calls>>

-----------------------------------------------------------------------------
CallStep(c) ==
  \/ Construct(c) \/ Reject(c)
  \/ GetExec(c) \/ NothingToClose(c)
  \/ CreateExec(c) \/ CreateExecFails(c) \/ SetExec(c)
  \/ TrySend(c) \/ Send(c) \/ SendFails(c) \/ GetAnswer(c)
ExecutorStep(e) == Take(e) \/ Exit(e) \/ NoSender(e)
User ==
  \/ \E h, g \in Handles : Clone(h, g)
  \/ \E h \in Handles : DropHandle(h)
  \/ \E c \in Calls, h \in Handles :
       \/ Enqueue(c, h) \/ Close(c, h)
       \/ \E task \in {t \in Calls : Accepted(t)} : Control(c, h, task) \/ Cancel(c, h, task)
       \/ Control(c, h, NoTask)
  \/ \E c \in Calls : DropFuture(c)

SystemStep == \E c \in Calls : CallStep(c) \/ ExecutorStep(c)

Next == User \/ SystemStep \/ \E e \in Calls : TaskEnds(e)
Spec == Init /\ [][Next]_vars

\* Futures that are not dropped are polled and the scheduler threads run: as
\* long as one of them can go on, one does. The user owes nothing, nor do the
\* tasks: a transfer may take forever.
FairSpec == Spec /\ WF_vars(SystemStep)

-----------------------------------------------------------------------------
\* Every variable holds a value of its kind, and no channel is overfull.
TypeOK ==
  /\ handles \in [Handles -> {"unmade", "live", "dropped"}]
  /\ executor \in [Handles -> Calls \cup {NoExec}]
  /\ closed \in BOOLEAN
  /\ state \in [Calls -> {"none", "running", "closing", "exited"}]
  /\ chan \in [Calls -> Seq(Calls)] /\ \A e \in Calls : Len(chan[e]) <= ChanCap
  /\ tasks \in [Calls -> SUBSET Calls] /\ over \subseteq Calls
  /\ calls \in [Calls -> Call]

\* All calls through a handle meet one executor, also when several first calls
\* race to create it: tasks accepted through a handle are where its later
\* commands look for them.
OneExecutorPerHandle ==
  \A c \in Calls : calls[c].exec # NoExec /\ handles[calls[c].handle] = "live"
    => calls[c].exec = executor[calls[c].handle]

\* After a close has returned Ok the flag stays set and no other close does:
\* a close that fails takes back only the flag it has set itself.
CloseIsFinal ==
  /\ ClosedOk => closed
  /\ \A c, d \in Calls :
       calls[c].kind = "close" /\ calls[d].kind = "close"
       /\ Returned(c) /\ Returned(d) => c = d

\* Once its Close is answered an executor knows no task and admits none.
ClosedExecutorIsEmpty ==
  \A c \in Calls : calls[c].kind = "close" /\ calls[c].answer = "Ok"
    => tasks[calls[c].exec] = {}

\* A task that was accepted before a command for it was sent is found, unless
\* it is over or the command went to another executor: enqueue does not wait
\* for the scheduler, yet a pause that follows it cannot come too early.
AcceptedIsFound ==
  \A c \in Calls : calls[c].task # NoTask /\ calls[c].answer = "TaskNotFound"
    => calls[c].task \in over \/ calls[calls[c].task].exec # calls[c].exec

\* A submitted task leaves the channel for the scheduler's table, or as a
\* duplicate of a task that is there, or because a Close came before it: none
\* is lost when the last handle is dropped.
SubmittedIsAdmitted ==
  [][\A c, e \in Calls :
       calls[c].kind = "enqueue" /\ InChannel(c, e) /\ ~InChannel(c, e)'
       => \/ c \in tasks'[e]
          \/ c \in over' /\ tasks[e] # {}
          \/ state[e] = "closing"]_vars

\* Every call comes back, whatever closes, exits or is dropped meanwhile: its
\* answer or the loss of it reaches the caller. Every command is taken or
\* dropped, and an executor that nobody can reach any more, as that of the
\* loser of the race, ends with its thread.
AtRest ==
  /\ \A c \in Calls : calls[c].pc \in {"unused", "done"}
  /\ \A e \in Calls : state[e] # "none" =>
       chan[e] = <<>> /\ (Reachable(e) \/ state[e] = "exited")
Settles == <>[]AtRest

\* After a close that returned Ok no scheduler goes on with a task (error.rs:
\* "after close no task can be submitted or controlled").
NothingRunsAfterClose == ClosedOk => \A e \in Calls : tasks[e] = {}

\* A command that finds no task is told so because the task has ended or the
\* id does not exist (error.rs), not while a scheduler is at work on it.
NotFoundMeansOver ==
  \A c \in Calls : calls[c].answer = "TaskNotFound"
    => \A e \in Calls : calls[c].task \notin tasks[e]
=============================================================================
