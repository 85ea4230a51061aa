--------------------------- MODULE LifecycleProofs ---------------------------
(***************************************************************************)
(* The executor implements TaskLifecycle, for all values of the constants: *)
(* every step of callers, scheduler and runs is, for the phases of the     *)
(* tasks, one legal move or none.                                          *)
(***************************************************************************)
EXTENDS ExecutorProofs

USE KeysAssumption, TaskIdsAssumption, RunIdsAssumption, LimitsAssumption

Leads(t) == groups[KeyOf[t]] = t

\* A task id is submitted once, and told of from then on: while its Enqueue
\* command waits nothing has been reported, and a leader has been told of.
SubmittedOnce ==
  /\ \A i \in 1..Len(cmds) : cmds[i].op = "Enqueue" =>
       cmds[i].task \in issued /\ reported[cmds[i].task].status = "None"
  /\ \A i, j \in 1..Len(cmds) :
       cmds[i].op = "Enqueue" /\ cmds[j].op = "Enqueue" /\ cmds[i].task = cmds[j].task => i = j
  /\ \A t \in TaskIds : t \notin issued => reported[t].status = "None"
  /\ \A t \in TaskIds : Leads(t) => reported[t].status # "None"

-----------------------------------------------------------------------------
\* Reports.

\* A report about a key is a report about the task that leads it.
LEMMA ReportGroupIs ==
  ASSUME TypeOK, NEW k \in Keys, NEW status, NEW transferred, NEW total,
         reported' = ReportGroup(k, status, transferred, total)
  PROVE  \A t \in TaskIds :
           IF groups[k] = t THEN reported'[t].status = status ELSE reported'[t] = reported[t]
<1>1. groups[k] \in TaskIds \cup {NoTask} /\ DOMAIN reported = TaskIds
  BY DEF TypeOK
<1>2. CASE groups[k] = NoTask
  BY <1>2 DEF ReportGroup
<1>3. CASE groups[k] \in TaskIds
  <2>1. reported' = [reported EXCEPT ![groups[k]] =
                       [status |-> status, progress |-> Progress(transferred, total)]]
    BY <1>3 DEF ReportGroup, Report
  <2>2. QED
    BY <1>1, <1>3, <2>1
<1>4. QED
  BY <1>1, <1>2, <1>3

LEMMA ReportIs ==
  ASSUME TypeOK, NEW u \in TaskIds, NEW status, NEW transferred, NEW total,
         reported' = Report(u, status, transferred, total)
  PROVE  \A t \in TaskIds :
           IF u = t THEN reported'[t].status = status ELSE reported'[t] = reported[t]
BY DEF TypeOK, Report

\* The tasks that a step may report on: leaders, and never as "None".
OnlyLeadersTold ==
  \A t \in TaskIds : reported'[t] = reported[t] \/ (Leads(t) /\ reported'[t].status # "None")

LEMMA GroupReported ==
  ASSUME TypeOK, IdsMatchGroups, NEW k \in Keys, NEW status, status # "None",
         NEW transferred, NEW total,
         reported' = ReportGroup(k, status, transferred, total)
  PROVE  OnlyLeadersTold
<1> SUFFICES ASSUME NEW t \in TaskIds
             PROVE  reported'[t] = reported[t] \/ (Leads(t) /\ reported'[t].status # "None")
  BY DEF OnlyLeadersTold
<1>1. CASE groups[k] = t
  BY <1>1, ReportGroupIs DEF IdsMatchGroups, Leads
<1>2. CASE groups[k] # t
  BY <1>2, ReportGroupIs
<1>3. QED
  BY <1>1, <1>2

-----------------------------------------------------------------------------
\* SubmittedOnce is an invariant.

\* Any step but a submission and the Enqueue that takes it.
LEMMA OnceKept ==
  ASSUME TypeOK, SubmittedOnce, issued' = issued,
         \/ cmds' = cmds \/ cmds' = <<>> \/ (cmds # <<>> /\ cmds' = Tail(cmds)),
         OnlyLeadersTold, \A t \in TaskIds : Leads(t)' => Leads(t)
  PROVE  SubmittedOnce'
<1>1. cmds \in Seq(Command) /\ issued \subseteq TaskIds /\ Len(cmds) \in Nat
  BY DEF TypeOK
<1>2. PICK n \in 0..1 : \A i \in 1..Len(cmds') :
        i + n \in 1..Len(cmds) /\ cmds'[i] = cmds[i + n]
  <2>1. CASE cmds' = cmds
    BY <2>1, <1>1
  <2>2. CASE cmds' = <<>>
    <3>1. 1..Len(cmds') = {}
      BY <2>2
    <3>2. QED  BY <3>1
  <2>3. CASE cmds # <<>> /\ cmds' = Tail(cmds)
    <3>1. Len(cmds') = Len(cmds) - 1 /\ \A i \in 1..Len(cmds') : cmds'[i] = cmds[i + 1]
      BY <2>3, <1>1
    <3>2. QED  BY <3>1, <1>1
  <2>4. QED  BY <2>1, <2>2, <2>3
<1>3. \A t \in TaskIds : reported[t].status = "None" => reported'[t].status = "None"
  BY DEF OnlyLeadersTold, SubmittedOnce
<1>4. ASSUME NEW i \in 1..Len(cmds'), cmds'[i].op = "Enqueue"
      PROVE  cmds'[i].task \in issued' /\ reported'[cmds'[i].task].status = "None"
  <2>1. i + n \in 1..Len(cmds) /\ cmds[i + n].op = "Enqueue" /\ cmds'[i].task = cmds[i + n].task
    BY <1>2, <1>4
  <2>2. cmds[i + n].task \in issued /\ reported[cmds[i + n].task].status = "None"
    BY <2>1 DEF SubmittedOnce
  <2>3. QED  BY <2>1, <2>2, <1>1, <1>3
<1>5. ASSUME NEW i \in 1..Len(cmds'), NEW j \in 1..Len(cmds'), cmds'[i].op = "Enqueue",
             cmds'[j].op = "Enqueue", cmds'[i].task = cmds'[j].task
      PROVE  i = j
  <2>1. i + n \in 1..Len(cmds) /\ cmds[i + n] = cmds'[i]
    BY <1>2, <1>5
  <2>2. j + n \in 1..Len(cmds) /\ cmds[j + n] = cmds'[j]
    BY <1>2, <1>5
  <2>3. \A a, b \in 1..Len(cmds) :
          cmds[a].op = "Enqueue" /\ cmds[b].op = "Enqueue" /\ cmds[a].task = cmds[b].task => a = b
    BY DEF SubmittedOnce
  <2>4. i + n = j + n
    BY <2>1, <2>2, <2>3, <1>5
  <2>5. QED  BY <2>4
<1>6. \A t \in TaskIds : Leads(t)' => reported'[t].status # "None"
  BY DEF OnlyLeadersTold, SubmittedOnce
<1>7. QED
  BY <1>3, <1>4, <1>5, <1>6 DEF SubmittedOnce

\* A command that is sent; an Enqueue carries an id that was not sent before.
LEMMA SendOnce ==
  ASSUME TypeOK, SubmittedOnce, NEW op, NEW t, cmds' = Append(cmds, [op |-> op, task |-> t]),
         \/ op # "Enqueue" /\ issued' = issued
         \/ op = "Enqueue" /\ t \in TaskIds \ issued /\ issued' = issued \cup {t},
         groups' = groups, reported' = reported
  PROVE  SubmittedOnce'
<1>1. cmds \in Seq(Command) /\ Len(cmds) \in Nat
  BY DEF TypeOK
<1>2. /\ Len(cmds') = Len(cmds) + 1
      /\ \A i \in 1..Len(cmds) : cmds'[i] = cmds[i]
      /\ cmds'[Len(cmds) + 1].op = op /\ cmds'[Len(cmds) + 1].task = t
  BY <1>1
<1>3. \A i \in 1..Len(cmds') : i \in 1..Len(cmds) \/ i = Len(cmds) + 1
  BY <1>1, <1>2
<1>4. \A i \in 1..Len(cmds') : cmds'[i].op = "Enqueue" =>
        cmds'[i].task \in issued' /\ reported'[cmds'[i].task].status = "None"
  BY <1>2, <1>3 DEF SubmittedOnce
<1>5. \A i \in 1..Len(cmds) : cmds[i].op = "Enqueue" => op # "Enqueue" \/ cmds[i].task # t
  BY DEF SubmittedOnce
<1>6. \A i, j \in 1..Len(cmds') :
        cmds'[i].op = "Enqueue" /\ cmds'[j].op = "Enqueue" /\ cmds'[i].task = cmds'[j].task => i = j
  BY <1>2, <1>3, <1>5 DEF SubmittedOnce
<1>7. QED
  BY <1>4, <1>6 DEF SubmittedOnce, Leads
-----------------------------------------------------------------------------
\* Phases.

phases == [t \in TaskIds |-> Phase(t)]

LEMMA PhaseIs ==
  ASSUME NEW t \in TaskIds
  PROVE  /\ ~Leads(t) => Phase(t) = IF reported[t].status = "None" THEN "new" ELSE "ended"
         /\ Leads(t) =>
              Phase(t) = IF active[KeyOf[t]] # NoRun
                         THEN IF KeyOf[t] \in pausedSet THEN "stopping" ELSE "running"
                         ELSE IF KeyOf[t] \in pausedSet THEN "paused" ELSE "waiting"
         /\ Phase(t) \notin {"new", "ended"} <=> Leads(t)
BY DEF Phase, Leads

\* A task whose key, leadership and first report stay as they are.
LEMMA PhaseSame ==
  ASSUME NEW t \in TaskIds, Leads(t)' <=> Leads(t),
         Leads(t) \/ (reported'[t].status = "None" <=> reported[t].status = "None"),
         active'[KeyOf[t]] = NoRun <=> active[KeyOf[t]] = NoRun,
         KeyOf[t] \in pausedSet' <=> KeyOf[t] \in pausedSet
  PROVE  Phase(t)' = Phase(t)
BY DEF Phase, Leads

\* A step that leaves the tables alone is none for the phases.
LEMMA Unmoved ==
  ASSUME OnlyLeadersTold, UNCHANGED <<groups, active, pausedSet>>
  PROVE  UNCHANGED phases
<1>1. ASSUME NEW t \in TaskIds PROVE Phase(t)' = Phase(t)
  BY PhaseSame DEF OnlyLeadersTold, Leads
<1>2. QED
  BY <1>1 DEF phases

\* A step that concerns the group of one key moves at most its leader.
LEMMA OthersStay ==
  ASSUME TypeOK, NEW k \in Keys, OnlyLeadersTold,
         \A u \in TaskIds : reported'[u] = reported[u] \/ groups[k] = u,
         \A j \in Keys : j # k =>
           /\ groups'[j] = groups[j] /\ (active'[j] = NoRun <=> active[j] = NoRun)
           /\ j \in pausedSet' <=> j \in pausedSet,
         groups'[k] \in {groups[k], NoTask}
  PROVE  \A u \in TaskIds : groups[k] # u => Phase(u)' = Phase(u)
<1> SUFFICES ASSUME NEW u \in TaskIds, groups[k] # u
             PROVE  Phase(u)' = Phase(u)
  OBVIOUS
<1>1. reported'[u] = reported[u]
  OBVIOUS
<1>2. CASE KeyOf[u] # k
  <2>1. KeyOf[u] \in Keys
    OBVIOUS
  <2>2. QED  BY <1>1, <1>2, <2>1, PhaseSame DEF Leads
<1>3. CASE KeyOf[u] = k
  <2>1. ~Leads(u) /\ ~Leads(u)'
    BY <1>3 DEF Leads
  <2>2. QED  BY <1>1, <2>1 DEF Phase, Leads
<1>4. QED  BY <1>2, <1>3

\* One task moves.
LEMMA MoveIs ==
  ASSUME NEW t \in TaskIds, \A u \in TaskIds : u # t => Phase(u)' = Phase(u),
         NEW from, NEW to, Phase(t) = from, Phase(t)' = to
  PROVE  Lifecycle!Move(t, from, to)
BY DEF Lifecycle!Move, phases

\* A leader whose group goes has come to its end.
LEMMA EndIs ==
  ASSUME TypeOK, NEW t \in TaskIds, Leads(t), groups'[KeyOf[t]] = NoTask,
         reported'[t].status # "None", \A u \in TaskIds : u # t => Phase(u)' = Phase(u)
  PROVE  Lifecycle!End(t)
<1>1. Phase(t) \notin {"new", "ended"} /\ Phase(t)' = "ended"
  BY DEF Phase, Leads
<1>2. QED
  BY <1>1 DEF Lifecycle!End, Lifecycle!Admitted

-----------------------------------------------------------------------------
\* The commands.

LEMMA EnqueueMoves ==
  ASSUME TypeOK, TableInv, SubmittedOnce, NEW t \in TaskIds, Enqueue(t)
  PROVE  SubmittedOnce' /\ Lifecycle!Admit(t)
<1> DEFINE k == KeyOf[t]
           status == IF active[k] = NoRun THEN "Pending" ELSE "Transmission"
<1>1. /\ k \in Keys /\ cmds # <<>> /\ Head(cmds).op = "Enqueue" /\ Head(cmds).task = t
      /\ cmds' = Tail(cmds) /\ issued' = issued
      /\ groups[k] = NoTask /\ groups' = [groups EXCEPT ![k] = t]
      /\ reported' = Report(t, status, offsets[k], InnerTotal(k))
      /\ UNCHANGED <<active, pausedSet>>
  BY DEF Enqueue, Receive
<1>2. status # "None"
  OBVIOUS
<1>3. active[k] = NoRun /\ k \notin pausedSet
  BY <1>1 DEF TableInv, Places
<1> HIDE DEF status
<1>4. reported'[t].status # "None" /\ \A u \in TaskIds : u # t => reported'[u] = reported[u]
  BY <1>1, <1>2, ReportIs
<1>5. /\ cmds \in Seq(Command) /\ Len(cmds) \in Nat /\ 1 \in 1..Len(cmds) /\ cmds[1] = Head(cmds)
      /\ Len(cmds') = Len(cmds) - 1 /\ issued \subseteq TaskIds
      /\ \A i \in 1..Len(cmds') : cmds'[i] = cmds[i + 1] /\ i + 1 \in 1..Len(cmds) /\ i + 1 # 1
  BY <1>1 DEF TypeOK
<1>6. reported[t].status = "None" /\ t \in issued
  BY <1>1, <1>5 DEF SubmittedOnce
<1>7. \A u \in TaskIds : /\ u # t => (Leads(u)' <=> Leads(u))
                         /\ KeyOf[u] = k => ~Leads(u)
  BY <1>1 DEF Leads, TypeOK
<1>8. SubmittedOnce'
  <2>1. ASSUME NEW i \in 1..Len(cmds'), cmds'[i].op = "Enqueue"
        PROVE  cmds'[i].task \in issued' /\ reported'[cmds'[i].task].status = "None"
    <3>1. /\ i + 1 \in 1..Len(cmds) /\ i + 1 # 1 /\ cmds'[i] = cmds[i + 1]
          /\ cmds[i + 1].op = "Enqueue" /\ cmds[1].op = "Enqueue" /\ cmds[1].task = t
      BY <2>1, <1>1, <1>5
    <3>2. cmds[i + 1].task # t /\ cmds[i + 1].task \in issued
          /\ reported[cmds[i + 1].task].status = "None"
      BY <3>1, <1>5 DEF SubmittedOnce
    <3>3. QED  BY <3>1, <3>2, <1>1, <1>4, <1>5
  <2>2. ASSUME NEW i \in 1..Len(cmds'), NEW j \in 1..Len(cmds'), cmds'[i].op = "Enqueue",
               cmds'[j].op = "Enqueue", cmds'[i].task = cmds'[j].task
        PROVE  i = j
    <3>1. i + 1 = j + 1
      BY <1>5, <2>2 DEF SubmittedOnce
    <3>2. QED  BY <3>1
  <2>3. \A u \in TaskIds : u \notin issued' => reported'[u].status = "None"
    BY <1>1, <1>4, <1>6 DEF SubmittedOnce
  <2>4. \A u \in TaskIds : Leads(u)' => reported'[u].status # "None"
    BY <1>4, <1>7 DEF SubmittedOnce
  <2>5. QED  BY <2>1, <2>2, <2>3, <2>4 DEF SubmittedOnce
<1>9. Phase(t) = "new" /\ Phase(t)' = "waiting"
  <2>1. ~Leads(t) /\ groups'[k] = t
    BY <1>1, <1>7 DEF TypeOK
  <2>2. QED  BY <1>1, <1>3, <1>6, <2>1 DEF Phase, Leads
<1>10. \A u \in TaskIds : u # t => Phase(u)' = Phase(u)
  BY <1>1, <1>4, <1>7, PhaseSame
<1>11. \A u \in TaskIds : KeyOf[u] = KeyOf[t] => Phase(u) \in {"new", "ended"}
  BY <1>7, PhaseIs
<1>12. \A u \in TaskIds : KeyOf[u] = KeyOf[t] => ~Lifecycle!Admitted(u)
  BY <1>11 DEF Lifecycle!Admitted
<1>13. QED
  BY <1>8, <1>9, <1>10, <1>12, MoveIs DEF Lifecycle!Admit

LEMMA PauseMoves ==
  ASSUME TypeOK, TableInv, SubmittedOnce, NEW t \in TaskIds, Pause(t)
  PROVE  SubmittedOnce' /\ (Lifecycle!Park(t) \/ Lifecycle!Stop(t) \/ UNCHANGED phases)
<1> DEFINE k == taskIdToDedupe[t]
<1>1. /\ k \in Keys /\ cmds # <<>> /\ cmds' = Tail(cmds) /\ issued' = issued
      /\ UNCHANGED <<groups, active>> /\ pausedSet' = pausedSet \cup {k}
      /\ reported' = ReportGroup(k, "Paused", offsets[k], InnerTotal(k))
  BY DEF Pause, Receive, TypeOK
<1>2. groups[k] = t /\ KeyOf[t] = k
  BY <1>1 DEF TableInv, IdsMatchGroups
<1> HIDE DEF k
<1>3. OnlyLeadersTold
  BY <1>1, GroupReported DEF TableInv
<1>4. SubmittedOnce'
  BY <1>1, <1>3, OnceKept DEF Leads
<1>5. \A u \in TaskIds : u # t => Phase(u)' = Phase(u)
  BY <1>1, <1>2, <1>3, ReportGroupIs, OthersStay
<1>6. CASE k \in pausedSet
  BY <1>1, <1>3, <1>6, <1>4, Unmoved
<1>7. CASE k \notin pausedSet
  <2>1. \/ Phase(t) = "running" /\ Phase(t)' = "stopping"
        \/ Phase(t) = "waiting" /\ Phase(t)' = "paused"
    BY <1>1, <1>2, <1>7 DEF Phase
  <2>2. QED
    BY <1>4, <1>5, <2>1, MoveIs DEF Lifecycle!Park, Lifecycle!Stop
<1>8. QED
  BY <1>6, <1>7

LEMMA ResumeMoves ==
  ASSUME TypeOK, TableInv, SubmittedOnce, NEW t \in TaskIds, Resume(t)
  PROVE  SubmittedOnce' /\ Lifecycle!Continue(t)
<1> DEFINE k == taskIdToDedupe[t]
<1>1. /\ k \in Keys /\ cmds # <<>> /\ cmds' = Tail(cmds) /\ issued' = issued
      /\ UNCHANGED <<groups, active>> /\ pausedSet' = pausedSet \ {k}
      /\ k \in pausedSet /\ active[k] = NoRun
      /\ reported' = ReportGroup(k, "Pending", offsets[k], InnerTotal(k))
  BY DEF Resume, Receive, TypeOK
<1>2. groups[k] = t /\ KeyOf[t] = k
  BY <1>1 DEF TableInv, IdsMatchGroups
<1> HIDE DEF k
<1>3. OnlyLeadersTold
  BY <1>1, GroupReported DEF TableInv
<1>4. SubmittedOnce'
  BY <1>1, <1>3, OnceKept DEF Leads
<1>5. \A u \in TaskIds : u # t => Phase(u)' = Phase(u)
  BY <1>1, <1>2, <1>3, ReportGroupIs, OthersStay
<1>6. Phase(t) = "paused" /\ Phase(t)' = "waiting"
  BY <1>1, <1>2 DEF Phase
<1>7. QED
  BY <1>4, <1>5, <1>6, MoveIs DEF Lifecycle!Continue

\* The group of a key goes.
LEMMA RemoveGroupIs ==
  ASSUME TypeOK, NEW k \in Keys, RemoveGroup(k)
  PROVE  groups'[k] = NoTask /\ \A j \in Keys : j # k => groups'[j] = groups[j]
BY DEF RemoveGroup, TypeOK

LEMMA CancelMoves ==
  ASSUME TypeOK, TableInv, SubmittedOnce, NEW t \in TaskIds, Cancel(t)
  PROVE  SubmittedOnce' /\ Lifecycle!End(t)
<1> DEFINE k == taskIdToDedupe[t]
<1>1. /\ k \in Keys /\ cmds # <<>> /\ cmds' = Tail(cmds) /\ issued' = issued
      /\ RemoveGroup(k) /\ pausedSet' = pausedSet \ {k}
      /\ active' = [active EXCEPT ![k] = NoRun]
      /\ reported' = ReportGroup(k, "Canceled", offsets[k], InnerTotal(k))
  BY DEF Cancel, Receive, TypeOK
<1>2. groups[k] = t /\ KeyOf[t] = k
  BY <1>1 DEF TableInv, IdsMatchGroups
<1> HIDE DEF k
<1>3. OnlyLeadersTold /\ reported'[t].status # "None"
  BY <1>1, <1>2, GroupReported, ReportGroupIs DEF TableInv
<1>4. groups'[k] = NoTask /\ \A j \in Keys : j # k => groups'[j] = groups[j]
  BY <1>1, RemoveGroupIs
<1>5. \A u \in TaskIds : Leads(u)' => Leads(u)
  BY <1>4 DEF Leads
<1>6. SubmittedOnce'
  BY <1>1, <1>3, <1>5, OnceKept
<1>7. \A j \in Keys : j # k => active'[j] = active[j]
  BY <1>1 DEF TypeOK
<1>8. \A u \in TaskIds : u # t => Phase(u)' = Phase(u)
  BY <1>1, <1>2, <1>3, <1>4, <1>7, ReportGroupIs, OthersStay
<1>9. QED
  BY <1>2, <1>3, <1>4, <1>6, <1>8, EndIs DEF Leads

\* Close and the loss of the last client end every task there is.
LEMMA EmptyMoves ==
  ASSUME TypeOK, SubmittedOnce, issued' = issued, cmds' = cmds \/ cmds' = <<>>,
         OnlyLeadersTold, groups' = [k \in Keys |-> NoTask]
  PROVE  SubmittedOnce' /\ Lifecycle!CloseAll
<1>1. \A t \in TaskIds : ~Leads(t)'
  BY DEF Leads
<1>2. SubmittedOnce'
  BY <1>1, OnceKept
<1>3. ASSUME NEW t \in TaskIds
      PROVE  Phase(t)' = IF Phase(t) \notin {"new", "ended"} THEN "ended" ELSE Phase(t)
  <2>1. CASE Leads(t)
    <3>1. reported'[t].status # "None"
      BY <2>1 DEF SubmittedOnce, OnlyLeadersTold
    <3>2. Phase(t)' = "ended" /\ Phase(t) \notin {"new", "ended"}
      BY <1>1, <2>1, <3>1 DEF Phase, Leads
    <3>3. QED  BY <3>2
  <2>2. CASE ~Leads(t)
    <3>1. reported'[t] = reported[t]
      BY <2>2 DEF OnlyLeadersTold
    <3>2. Phase(t)' = Phase(t) /\ Phase(t) \in {"new", "ended"}
      BY <1>1, <2>2, <3>1 DEF Phase, Leads
    <3>3. QED  BY <3>2
  <2>3. QED  BY <2>1, <2>2
<1>4. Lifecycle!CloseAll
  BY <1>3 DEF Lifecycle!CloseAll, Lifecycle!Admitted
<1>5. QED  BY <1>2, <1>4
LEMMA CommandsMove ==
  ASSUME TypeOK, TableInv, SubmittedOnce, Commands
  PROVE  SubmittedOnce' /\ [Lifecycle!Next]_phases
<1>1. ASSUME NEW t \in TaskIds, RejectDuplicate(t) PROVE SubmittedOnce' /\ UNCHANGED phases
  <2>1. /\ KeyOf[t] \in Keys /\ cmds # <<>> /\ cmds' = Tail(cmds) /\ issued' = issued
        /\ UNCHANGED <<groups, active, pausedSet>>
        /\ reported' = ReportGroup(KeyOf[t], "Failed", 0, InnerTotal(KeyOf[t]))
    BY <1>1 DEF RejectDuplicate, Receive, tables, ReportGroup
  <2>2. OnlyLeadersTold
    BY <2>1, GroupReported DEF TableInv
  <2>3. QED
    BY <2>1, <2>2, OnceKept, Unmoved DEF Leads
<1>2. ASSUME NEW t \in TaskIds, NEW op, RefuseResume(t) \/ TaskNotFound(op, t)
      PROVE  SubmittedOnce' /\ UNCHANGED phases
  <2>1. /\ cmds # <<>> /\ cmds' = Tail(cmds) /\ issued' = issued
        /\ UNCHANGED <<groups, active, pausedSet, reported>>
    BY <1>2 DEF RefuseResume, TaskNotFound, Receive, tables
  <2>2. OnlyLeadersTold
    BY <2>1 DEF OnlyLeadersTold
  <2>3. QED
    BY <2>1, <2>2, OnceKept, Unmoved DEF Leads
<1>3. ASSUME Close PROVE SubmittedOnce' /\ Lifecycle!CloseAll
  <2>1. ASSUME NEW t \in TaskIds
        PROVE  reported'[t] = reported[t] \/ (Leads(t) /\ reported'[t].status # "None")
    <3>1. CASE Leads(t)
      <4>1. reported'[t] = Report(t, "Paused", offsets[KeyOf[t]], InnerTotal(KeyOf[t]))[t]
        BY <1>3, <3>1 DEF Close, Leads
      <4>2. reported'[t].status = "Paused"
        BY <4>1 DEF Report, TypeOK
      <4>3. QED  BY <3>1, <4>2
    <3>2. CASE ~Leads(t)
      BY <1>3, <3>2 DEF Close, Leads
    <3>3. QED  BY <3>1, <3>2
  <2>2. QED
    BY <1>3, <2>1, EmptyMoves DEF Close, OnlyLeadersTold
<1>4. QED
  BY <1>1, <1>2, <1>3, EnqueueMoves, PauseMoves, ResumeMoves, CancelMoves
     DEF Commands, Lifecycle!Next, phases

-----------------------------------------------------------------------------
\* The events of the runs.

\* The last event of a run ends the task that leads its key, if there is one.
LEMMA EndTaskMoves ==
  ASSUME TypeOK, TableInv, SubmittedOnce, NEW k \in Keys, NEW status, status # "None",
         NEW transferred, NEW total, EndTask(k, status, transferred, total),
         cmds' = cmds, issued' = issued
  PROVE  SubmittedOnce' /\ (UNCHANGED phases \/ \E t \in TaskIds : Lifecycle!End(t))
<1>1. /\ RemoveGroup(k) /\ active' = [active EXCEPT ![k] = NoRun]
      /\ pausedSet' = pausedSet \ {k}
      /\ reported' = ReportGroup(k, status, transferred, total)
  BY DEF EndTask
<1>2. OnlyLeadersTold
  BY <1>1, GroupReported DEF TableInv
<1>3. groups'[k] = NoTask /\ \A j \in Keys : j # k => groups'[j] = groups[j]
  BY <1>1, RemoveGroupIs
<1>4. \A u \in TaskIds : Leads(u)' => Leads(u)
  BY <1>3 DEF Leads
<1>5. SubmittedOnce'
  BY <1>2, <1>4, OnceKept
<1>6. \A j \in Keys : j # k => active'[j] = active[j]
  BY <1>1 DEF TypeOK
<1>7. \A u \in TaskIds : groups[k] # u => Phase(u)' = Phase(u)
  BY <1>1, <1>2, <1>3, <1>6, ReportGroupIs, OthersStay
<1>8. groups[k] \in TaskIds \cup {NoTask}
  BY DEF TypeOK
<1>9. CASE groups[k] = NoTask
  BY <1>5, <1>7, <1>9 DEF phases
<1>10. CASE groups[k] \in TaskIds
  <2>1. PICK t \in TaskIds : t = groups[k] /\ KeyOf[t] = k /\ Leads(t)
    BY <1>10 DEF TableInv, IdsMatchGroups, Leads
  <2>2. reported'[t].status # "None"
    BY <1>1, <2>1, ReportGroupIs
  <2>3. QED
    BY <1>3, <1>5, <1>7, <2>1, <2>2, EndIs
<1>11. QED
  BY <1>8, <1>9, <1>10

LEMMA WorkerEventsMove ==
  ASSUME TypeOK, TableInv, SubmittedOnce, WorkerEvents
  PROVE  SubmittedOnce' /\ [Lifecycle!Next]_phases
<1> SUFFICES ASSUME NEW k \in Keys,
                    \/ OnProgress(k) \/ OnCompleted(k) \/ OnFailed(k)
                    \/ OnCanceledPaused(k) \/ OnCanceled(k)
             PROVE  SubmittedOnce' /\ [Lifecycle!Next]_phases
  BY DEF WorkerEvents
<1>1. cmds' = cmds /\ issued' = issued
  BY DEF OnProgress, OnCompleted, OnFailed, OnCanceledPaused, OnCanceled, TakeEvent
<1>2. CASE OnProgress(k)
  <2>1. OnlyLeadersTold
    BY <1>2, GroupReported DEF OnProgress, TableInv
  <2>2. UNCHANGED <<groups, active, pausedSet>>
    BY <1>2 DEF OnProgress
  <2>3. QED
    BY <1>1, <2>1, <2>2, OnceKept, Unmoved DEF Leads
<1>3. CASE OnCompleted(k) \/ OnFailed(k) \/ OnCanceled(k)
  <2>1. SubmittedOnce' /\ (UNCHANGED phases \/ \E t \in TaskIds : Lifecycle!End(t))
    BY <1>1, <1>3, EndTaskMoves DEF OnCompleted, OnFailed, OnCanceled
  <2>2. QED
    BY <2>1 DEF Lifecycle!Next, phases
<1>4. CASE OnCanceledPaused(k)
  <2>1. /\ k \in pausedSet /\ active' = [active EXCEPT ![k] = NoRun]
        /\ UNCHANGED <<groups, pausedSet, reported>>
    BY <1>4 DEF OnCanceledPaused
  <2>2. OnlyLeadersTold
    BY <2>1 DEF OnlyLeadersTold
  <2>3. SubmittedOnce'
    BY <1>1, <2>1, <2>2, OnceKept DEF Leads
  <2>4. PICK t \in TaskIds : t = groups[k] /\ KeyOf[t] = k
    <3>1. groups[k] # NoTask /\ groups[k] \in TaskIds \cup {NoTask}
      BY <2>1 DEF TableInv, Places, TypeOK
    <3>2. QED  BY <3>1 DEF TableInv, IdsMatchGroups
  <2>5. \A j \in Keys : active'[j] = IF j = k THEN NoRun ELSE active[j]
    BY <2>1 DEF TypeOK
  <2>6. \A u \in TaskIds : u # t => Phase(u)' = Phase(u)
    BY <2>1, <2>2, <2>4, <2>5, OthersStay
  <2>7. CASE active[k] = NoRun
    <3>1. active' = active
      BY <2>1, <2>7 DEF TypeOK
    <3>2. QED  BY <2>1, <2>2, <2>3, <3>1, Unmoved
  <2>8. CASE active[k] # NoRun
    <3>1. Phase(t) = "stopping" /\ Phase(t)' = "paused"
      BY <2>1, <2>4, <2>5, <2>8 DEF Phase
    <3>2. Lifecycle!Stopped(t)
      BY <2>4, <2>6, <3>1, MoveIs DEF Lifecycle!Stopped
    <3>3. QED
      BY <2>3, <2>4, <3>2 DEF Lifecycle!Next
  <2>9. QED  BY <2>7, <2>8
<1>5. QED
  BY <1>2, <1>3, <1>4

-----------------------------------------------------------------------------
\* try_start_next.

\* TaskLifecycle counts as this module does.
LEMMA SameCardinality == \A S : Lifecycle!Cardinality(S) = Cardinality(S)
BY DEF Cardinality, Lifecycle!Cardinality

\* The tasks that hold a slot of a direction are no more than its slots.
LEMMA SlotHolders ==
  ASSUME TypeOK, TableInv, NEW d \in Directions
  PROVE  /\ Cardinality(Lifecycle!SlotsIn(d)) <= Cardinality(ActiveIn(d))
         /\ Cardinality(Lifecycle!SlotsIn(d)) \in Nat
<1> DEFINE S == ActiveIn(d)
           T == Lifecycle!SlotsIn(d)
           f == [k \in S |-> groups[k]]
<1>1. \A t \in T : t \in TaskIds /\ Phase(t) \in {"running", "stopping"} /\ Direction[KeyOf[t]] = d
  BY DEF Lifecycle!SlotsIn, Lifecycle!HoldsSlot
<1>2. \A t \in T : Leads(t) /\ active[KeyOf[t]] # NoRun
  BY <1>1, PhaseIs
<1>3. \A t \in T : KeyOf[t] \in S /\ f[KeyOf[t]] = t
  BY <1>1, <1>2 DEF ActiveIn, Leads
<1>4. \A k \in S : groups[k] \in T
  <2> SUFFICES ASSUME NEW k \in S PROVE groups[k] \in T
    OBVIOUS
  <2>1. k \in Keys /\ active[k] # NoRun /\ Direction[k] = d
    BY DEF ActiveIn
  <2>2. groups[k] \in TaskIds /\ KeyOf[groups[k]] = k
    <3>1. groups[k] # NoTask /\ groups[k] \in TaskIds \cup {NoTask}
      BY <2>1 DEF TableInv, Places, TypeOK
    <3>2. QED  BY <2>1, <3>1 DEF TableInv, IdsMatchGroups
  <2>3. Phase(groups[k]) \in {"running", "stopping"}
    BY <2>1, <2>2 DEF Phase
  <2>4. QED
    BY <2>1, <2>2, <2>3 DEF Lifecycle!SlotsIn, Lifecycle!HoldsSlot
<1>5. f \in Surjection(S, T)
  BY <1>3, <1>4 DEF Surjection
<1>6. IsFiniteSet(S)
  BY ActiveInFinite
<1>7. QED
  BY <1>5, <1>6, FS_Surjection, FS_CardinalityType

LEMMA StartFrontMoves ==
  ASSUME TypeOK, TableInv, StartFront
  PROVE  OnlyLeadersTold /\ \E t \in TaskIds : Lifecycle!Start(t)
<1>1. /\ PopFront /\ active[front] = NoRun /\ groups[front] # NoTask
      /\ CanStartDirection(Direction[front])
      /\ reported' = Report(groups[front], "Transmission", offsets[front], InnerTotal(front))
      /\ UNCHANGED <<groups, pausedSet>>
  BY DEF StartFront
<1>2. PICK k \in Keys : k = front /\ k \in queuedSet
  BY <1>1, PopMirror DEF TableInv
<1>3. PICK t \in TaskIds : t = groups[k] /\ KeyOf[t] = k /\ k \notin pausedSet
  BY <1>1, <1>2 DEF TableInv, Places, TypeOK, IdsMatchGroups
<1>4. \A u \in TaskIds :
        IF t = u THEN reported'[u].status = "Transmission" ELSE reported'[u] = reported[u]
  BY <1>1, <1>2, <1>3, ReportIs
<1>5. OnlyLeadersTold
  BY <1>3, <1>4 DEF OnlyLeadersTold, Leads
<1>6. PICK r \in RunIds : active' = [active EXCEPT ![k] = r]
  BY <1>2 DEF StartFront
<1>7. r # NoRun /\ \A j \in Keys : active'[j] = IF j = k THEN r ELSE active[j]
  BY <1>6 DEF TypeOK
<1>8. Phase(t) = "waiting" /\ Phase(t)' = "running"
  BY <1>1, <1>2, <1>3, <1>7 DEF Phase
<1>9. \A u \in TaskIds : u # t => Phase(u)' = Phase(u)
  BY <1>1, <1>3, <1>4, <1>5, <1>7, OthersStay
<1>10. Cardinality(Lifecycle!SlotsIn(Direction[k])) < Limit[Direction[k]]
  <2>1. Direction[k] \in Directions
    OBVIOUS
  <2> DEFINE d == Direction[k]
  <2>2. /\ Cardinality(Lifecycle!SlotsIn(d)) <= Cardinality(ActiveIn(d))
        /\ Cardinality(Lifecycle!SlotsIn(d)) \in Nat
        /\ Cardinality(ActiveIn(d)) \in Nat /\ Limit[d] \in Nat
    BY <2>1, SlotHolders, ActiveInFinite DEF Limit
  <2>3. Cardinality(ActiveIn(d)) < Limit[d]
    BY <1>1, <1>2 DEF CanStartDirection
  <2>4. QED  BY <2>2, <2>3
<1>11. Lifecycle!Move(t, "waiting", "running")
  BY <1>8, <1>9, MoveIs
<1>12. Lifecycle!Start(t)
  BY <1>3, <1>10, <1>11, SameCardinality DEF Lifecycle!Start
<1>13. QED
  BY <1>5, <1>12

LEMMA TryStartNextMoves ==
  ASSUME TypeOK, TableInv, SubmittedOnce, TryStartNext
  PROVE  SubmittedOnce' /\ [Lifecycle!Next]_phases
<1>1. UNCHANGED <<groups, cmds, issued>>
  BY DEF TryStartNext, SkipFront, RequeueFront, StartFront, EndRound, PopFront, tables
<1>2. CASE StartFront
  <2>1. OnlyLeadersTold /\ \E t \in TaskIds : Lifecycle!Start(t)
    BY <1>2, StartFrontMoves
  <2>2. SubmittedOnce'
    BY <1>1, <2>1, OnceKept DEF Leads
  <2>3. QED
    BY <2>1, <2>2 DEF Lifecycle!Next
<1>3. CASE SkipFront \/ RequeueFront \/ EndRound
  <2>1. UNCHANGED <<active, pausedSet, reported>>
    BY <1>3 DEF SkipFront, RequeueFront, EndRound, tables
  <2>2. OnlyLeadersTold
    BY <2>1 DEF OnlyLeadersTold
  <2>3. QED
    BY <1>1, <2>1, <2>2, OnceKept, Unmoved DEF Leads
<1>4. QED
  BY <1>2, <1>3 DEF TryStartNext

-----------------------------------------------------------------------------
\* Callers only submit, and runs are seen through their events.
LEMMA CallersMove ==
  ASSUME TypeOK, SubmittedOnce, Callers
  PROVE  SubmittedOnce' /\ UNCHANGED phases
<1>1. PICK op, t :
        /\ cmds' = Append(cmds, [op |-> op, task |-> t])
        /\ \/ op # "Enqueue" /\ issued' = issued
           \/ op = "Enqueue" /\ t \in TaskIds \ issued /\ issued' = issued \cup {t}
        /\ UNCHANGED <<groups, active, pausedSet, reported>>
  BY DEF Callers, SendEnqueue, SendControl, SendClose, SendCommand, tables
<1>2. OnlyLeadersTold
  BY <1>1 DEF OnlyLeadersTold
<1>3. QED
  BY <1>1, <1>2, SendOnce, Unmoved

LEMMA StillMoves ==
  ASSUME TypeOK, SubmittedOnce, UNCHANGED <<tables, cmds, reported, issued>>
  PROVE  SubmittedOnce' /\ UNCHANGED phases
<1>1. UNCHANGED <<groups, active, pausedSet, cmds, reported, issued>>
  BY DEF tables
<1>2. OnlyLeadersTold
  BY <1>1 DEF OnlyLeadersTold
<1>3. QED
  BY <1>1, <1>2, OnceKept, Unmoved DEF Leads

LEMMA NextMoves ==
  ASSUME TypeOK, TableInv, SubmittedOnce, [Next]_vars
  PROVE  SubmittedOnce' /\ [Lifecycle!Next]_phases
<1>1. CASE Callers
  BY <1>1, CallersMove
<1>2. CASE SchedulerStep
  BY <1>2, CommandsMove, WorkerEventsMove, TryStartNextMoves DEF SchedulerStep
<1>3. CASE Disconnect
  <2>1. OnlyLeadersTold
    BY <1>3 DEF Disconnect, OnlyLeadersTold
  <2>2. SubmittedOnce' /\ Lifecycle!CloseAll
    BY <1>3, <2>1, EmptyMoves DEF Disconnect
  <2>3. QED
    BY <2>2 DEF Lifecycle!Next
<1>4. ASSUME NEW r \in RunIds, RunStep(r) PROVE SubmittedOnce' /\ UNCHANGED phases
  BY <1>4, StillMoves DEF RunStep, Prepare, Check, ObserveCancel, TransferChunk, Complete,
                          ScheduleRetry, BackoffEnds, Fail, Abort
<1>5. CASE UNCHANGED vars
  BY <1>5, StillMoves DEF vars
<1>6. CASE Terminated
  BY <1>5, <1>6 DEF Terminated
<1>7. QED
  BY <1>1, <1>2, <1>3, <1>4, <1>5, <1>6 DEF Next

LEMMA InitOnce == Init => SubmittedOnce
<1> SUFFICES ASSUME Init PROVE SubmittedOnce
  OBVIOUS
<1>1. /\ groups = [k \in Keys |-> NoTask] /\ cmds = <<>>
      /\ reported = [t \in TaskIds |-> [status |-> "None", progress |-> 0]]
  BY DEF Init
<1>2. 1..Len(cmds) = {} /\ \A t \in TaskIds : ~Leads(t) /\ reported[t].status = "None"
  BY <1>1 DEF Leads
<1>3. QED
  BY <1>2 DEF SubmittedOnce

LEMMA InitPhases == Init => Lifecycle!Init
<1> SUFFICES ASSUME Init PROVE Lifecycle!Init
  OBVIOUS
<1>1. ASSUME NEW t \in TaskIds PROVE Phase(t) = "new"
  <2>1. groups[KeyOf[t]] = NoTask /\ reported[t].status = "None"
    BY DEF Init
  <2>2. QED  BY <2>1 DEF Phase
<1>2. QED
  BY <1>1 DEF Lifecycle!Init

\* A task id is submitted once, and whoever leads a group has been told of.
THEOREM IdsAreSubmittedOnce == Spec => []SubmittedOnce
<1>1. TypeOK /\ TableInv /\ SubmittedOnce /\ [Next]_vars => SubmittedOnce'
  BY NextMoves
<1>2. QED
  BY <1>1, InitOnce, TypeCorrect, TablesCorrect, PTL DEF Spec

\* The executor keeps the promise of TaskLifecycle: one task per key between
\* its admission and its end, slots within the limit, only legal moves, over
\* every interleaving of commands, late events, scans and runs.
THEOREM LifecycleImplemented == Spec => ImplementsLifecycle
<1>1. TypeOK /\ TableInv /\ SubmittedOnce /\ [Next]_vars => [Lifecycle!Next]_phases
  BY NextMoves
<1>2. [Lifecycle!Next]_phases => [Lifecycle!Next]_([t \in TaskIds |-> Phase(t)])
  BY DEF phases
<1>3. QED
  BY <1>1, <1>2, InitPhases, IdsAreSubmittedOnce, TypeCorrect, TablesCorrect, PTL
     DEF Spec, ImplementsLifecycle, Lifecycle!Spec
=============================================================================
