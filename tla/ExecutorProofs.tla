--------------------------- MODULE ExecutorProofs ---------------------------
(***************************************************************************)
(* Safety of the executor, for all values of the constants: the tables of  *)
(* the scheduler agree, no task is lost, the limits hold, no slot is left  *)
(* idle and each direction is served first in, first out. The inductive    *)
(* invariant TableInv adds to the checked invariants what try_start_next   *)
(* has established of the part of the queue that it has examined.          *)
(***************************************************************************)
EXTENDS ExecutorTypeProofs, FiniteSetTheorems, SequenceTheorems

USE KeysAssumption, TaskIdsAssumption, RunIdsAssumption, LimitsAssumption

NoDup(q) == \A i, j \in 1..Len(q) : q[i] = q[j] => i = j
RangeOf(q) == {q[i] : i \in 1..Len(q)}

\* A waiting key is neither running nor paused; what runs or is paused has a
\* group.
Places ==
  \A k \in Keys :
    /\ k \in queuedSet => active[k] = NoRun /\ k \notin pausedSet
    /\ active[k] # NoRun \/ k \in pausedSet => groups[k] # NoTask

\* The keys that this round of try_start_next has put back have a group and
\* no slot in their direction. Between two messages that is the whole queue.
Examined ==
  \A i \in 1..Len(queued) : i > scanLeft =>
    groups[queued[i]] # NoTask /\ ~CanStartDirection(Direction[queued[i]])

TableInv ==
  /\ QueueMirror /\ IdsMatchGroups /\ NoTaskLost
  /\ Places /\ Examined /\ ActiveWithinLimit

-----------------------------------------------------------------------------
\* The queue.

\* The modelled VecDeque::retain removes exactly the key, and keeps the queue
\* free of duplicates.
LEMMA WithoutRemoves ==
  ASSUME NEW q \in Seq(Keys), NEW key \in Keys, NoDup(q)
  PROVE  /\ Without(q, key) \in Seq(Keys)
         /\ RangeOf(Without(q, key)) = RangeOf(q) \ {key}
         /\ NoDup(Without(q, key))
<1>1. CASE ~ \E i \in 1..Len(q) : q[i] = key
  BY <1>1 DEF Without, RangeOf
<1>2. CASE \E i \in 1..Len(q) : q[i] = key
  <2> DEFINE i == CHOOSE j \in 1..Len(q) : q[j] = key
             w == [j \in 1..(Len(q) - 1) |-> IF j < i THEN q[j] ELSE q[j + 1]]
  <2>1. i \in 1..Len(q) /\ q[i] = key
    BY <1>2
  <2>2. Without(q, key) = w
    BY <1>2 DEF Without
  <2> HIDE DEF i
  <2>3. Len(q) \in Nat /\ Len(q) - 1 \in Nat
    BY <2>1
  <2>4. \A j \in 1..(Len(q) - 1) : w[j] \in Keys
    BY <2>1, <2>3
  <2>5. w \in Seq(Keys) /\ Len(w) = Len(q) - 1
    BY <2>3, <2>4
  <2>6. NoDup(w)
    BY <2>1, <2>3, <2>5 DEF NoDup
  <2>7. RangeOf(w) \subseteq RangeOf(q) \ {key}
    BY <2>1, <2>3, <2>5 DEF RangeOf, NoDup
  <2>8. ASSUME NEW j \in 1..Len(q), q[j] # key
        PROVE  q[j] \in RangeOf(w)
    <3>1. CASE j < i
      BY <2>1, <2>3, <2>5, <2>8, <3>1 DEF RangeOf
    <3>2. CASE j > i
      <4>1. j - 1 \in 1..Len(w) /\ w[j - 1] = q[j]
        BY <2>1, <2>3, <2>5, <2>8, <3>2
      <4>2. QED
        BY <4>1 DEF RangeOf
    <3>3. QED
      BY <2>1, <2>3, <2>8, <3>1, <3>2
  <2> HIDE DEF w
  <2>9. RangeOf(q) \ {key} \subseteq RangeOf(w)
    BY <2>8 DEF RangeOf
  <2>10. QED
    BY <2>2, <2>5, <2>6, <2>7, <2>9
<1>3. QED
  BY <1>1, <1>2

LEMMA MirrorIs == QueueMirror <=> queuedSet = RangeOf(queued) /\ NoDup(queued)
BY DEF QueueMirror, QueuedKeys, RangeOf, NoDup

LEMMA MirrorHolds ==
  ASSUME queuedSet' = RangeOf(queued'), NoDup(queued')
  PROVE  QueueMirror'
BY DEF QueueMirror, QueuedKeys, RangeOf, NoDup

LEMMA RequeueMirror ==
  ASSUME TypeOK, QueueMirror, NEW k \in Keys, Requeue(k)
  PROVE  /\ QueueMirror'
         /\ queuedSet' \subseteq queuedSet \cup {k} /\ queuedSet \subseteq queuedSet'
         /\ k \in queuedSet' \/ active[k] # NoRun
         /\ active[k] # NoRun => queuedSet' = queuedSet
<1>1. queued \in Seq(Keys) /\ Len(queued) \in Nat
  BY DEF TypeOK
<1>2. CASE active[k] = NoRun /\ k \notin queuedSet
  <2>1. queued' = Append(queued, k) /\ queuedSet' = queuedSet \cup {k}
    BY <1>2 DEF Requeue
  <2>2. /\ Len(queued') = Len(queued) + 1 /\ queued'[Len(queued) + 1] = k
        /\ \A i \in 1..Len(queued) : queued'[i] = queued[i]
    BY <1>1, <2>1
  <2>3. \A i \in 1..Len(queued) : queued[i] # k
    BY <1>2 DEF QueueMirror, QueuedKeys
  <2>4. NoDup(queued')
    BY <1>1, <2>2, <2>3 DEF QueueMirror, NoDup
  <2>5. RangeOf(queued') = RangeOf(queued) \cup {k}
    <3>1. 1..Len(queued') = 1..Len(queued) \cup {Len(queued) + 1}
      BY <1>1, <2>2
    <3>2. QED
      BY <2>2, <3>1 DEF RangeOf
  <2>6. QueueMirror'
    <3>1. queuedSet = RangeOf(queued)
      BY MirrorIs
    <3>2. QED
      BY <2>1, <2>4, <2>5, <3>1, MirrorHolds
  <2>7. QED
    BY <1>2, <2>1, <2>6
<1>3. CASE ~(active[k] = NoRun /\ k \notin queuedSet)
  <2>1. queued' = queued /\ queuedSet' = queuedSet
    BY <1>3 DEF Requeue
  <2>2. QED
    BY <1>3, <2>1 DEF QueueMirror, QueuedKeys
<1>4. QED
  BY <1>2, <1>3

LEMMA WithoutMirror ==
  ASSUME TypeOK, QueueMirror, NEW k \in Keys,
         queued' = Without(queued, k), queuedSet' = queuedSet \ {k}
  PROVE  QueueMirror'
<1>1. queued \in Seq(Keys) /\ queuedSet = RangeOf(queued) /\ NoDup(queued)
  BY MirrorIs DEF TypeOK
<1>2. RangeOf(queued') = RangeOf(queued) \ {k} /\ NoDup(queued')
  BY <1>1, WithoutRemoves
<1>3. QED
  BY <1>1, <1>2, MirrorHolds

\* What a pop leaves.
LEMMA PopMirror ==
  ASSUME TypeOK, QueueMirror, PopFront
  PROVE  /\ Len(queued) \in Nat \ {0} /\ front \in Keys /\ front \in queuedSet
         /\ Tail(queued) \in Seq(Keys) /\ Len(Tail(queued)) = Len(queued) - 1
         /\ \A i \in 1..(Len(queued) - 1) : Tail(queued)[i] = queued[i + 1]
         /\ RangeOf(Tail(queued)) = queuedSet \ {front}
         /\ NoDup(Tail(queued))
<1>1. queued \in Seq(Keys) /\ Len(queued) \in Nat /\ scanLeft \in 0..Len(queued) /\ scanLeft > 0
  BY DEF TypeOK, PopFront
<1>2. queued # <<>> /\ Len(queued) > 0
  BY <1>1
<1>3. /\ front = queued[1] /\ front \in Keys
      /\ Tail(queued) \in Seq(Keys) /\ Len(Tail(queued)) = Len(queued) - 1
      /\ \A i \in 1..(Len(queued) - 1) : Tail(queued)[i] = queued[i + 1]
  BY <1>1, <1>2 DEF front
<1>4. front \in queuedSet
  BY <1>1, <1>2, <1>3 DEF QueueMirror, QueuedKeys
<1>5. NoDup(Tail(queued))
  BY <1>1, <1>2, <1>3 DEF NoDup, QueueMirror
<1>6. RangeOf(Tail(queued)) \subseteq queuedSet \ {front}
  <2> SUFFICES ASSUME NEW i \in 1..(Len(queued) - 1)
               PROVE  Tail(queued)[i] \in queuedSet \ {front}
    BY <1>3 DEF RangeOf
  <2>1. i + 1 \in 1..Len(queued) /\ 1 \in 1..Len(queued) /\ i + 1 # 1
    BY <1>1, <1>2
  <2>2. QED
    BY <1>3, <2>1 DEF QueueMirror, QueuedKeys
<1>7. queuedSet \ {front} \subseteq RangeOf(Tail(queued))
  <2> SUFFICES ASSUME NEW i \in 1..Len(queued), queued[i] # front
               PROVE  queued[i] \in RangeOf(Tail(queued))
    BY DEF QueueMirror, QueuedKeys
  <2>1. i - 1 \in 1..(Len(queued) - 1) /\ (i - 1) + 1 = i
    BY <1>1, <1>3
  <2>2. QED
    BY <1>3, <2>1 DEF RangeOf
<1>8. QED
  BY <1>1, <1>2, <1>3, <1>4, <1>5, <1>6, <1>7

\* A handler that ends in EnterScan leaves nothing examined.
LEMMA NothingExamined ==
  ASSUME EnterScan, queued' \in Seq(Keys)
  PROVE  Examined'
<1>1. scanLeft' = Len(queued')
  BY DEF EnterScan
<1>2. QED
  BY <1>1 DEF Examined

-----------------------------------------------------------------------------
\* The slots.

LEMMA ActiveInFinite == \A d : IsFiniteSet(ActiveIn(d)) /\ Cardinality(ActiveIn(d)) \in Nat
BY FS_Subset, FS_CardinalityType DEF ActiveIn

\* Giving back slots breaks no limit.
LEMMA FewerSlots ==
  ASSUME ActiveWithinLimit,
         \A k \in Keys : active'[k] # NoRun => active[k] # NoRun
  PROVE  ActiveWithinLimit'
<1> SUFFICES ASSUME NEW d \in Directions
             PROVE  Cardinality(ActiveIn(d)') <= Limit[d]
  BY DEF ActiveWithinLimit, Limit
<1>1. ActiveIn(d)' \subseteq ActiveIn(d)
  BY DEF ActiveIn
<1>2. Cardinality(ActiveIn(d)') <= Cardinality(ActiveIn(d)) /\ Cardinality(ActiveIn(d)') \in Nat
  BY <1>1, ActiveInFinite, FS_Subset, FS_CardinalityType
<1>3. Cardinality(ActiveIn(d)) <= Limit[d] /\ Limit[d] \in Nat
  BY DEF ActiveWithinLimit, Limit
<1>4. QED
  BY <1>2, <1>3, ActiveInFinite

-----------------------------------------------------------------------------
\* The handlers of the scheduler, one lemma for each.

LEMMA EnqueueInv ==
  ASSUME TypeOK, TypeOK', TableInv, NEW t \in TaskIds, Enqueue(t)
  PROVE  TableInv'
<1> DEFINE k == KeyOf[t]
<1>1. /\ k \in Keys /\ groups[k] = NoTask /\ groups' = [groups EXCEPT ![k] = t]
      /\ taskIdToDedupe' = [taskIdToDedupe EXCEPT ![t] = k]
      /\ Requeue(k) /\ EnterScan /\ pausedSet' = pausedSet /\ active' = active
  BY DEF Enqueue
<1>2. active[k] = NoRun /\ k \notin pausedSet
  BY <1>1 DEF TableInv, Places
<1>3. /\ QueueMirror' /\ queuedSet' \subseteq queuedSet \cup {k}
      /\ queuedSet \subseteq queuedSet' /\ k \in queuedSet'
  BY <1>1, <1>2, RequeueMirror DEF TableInv
<1>4. /\ \A j \in Keys : groups'[j] = IF j = k THEN t ELSE groups[j]
      /\ \A u \in TaskIds : taskIdToDedupe'[u] = IF u = t THEN k ELSE taskIdToDedupe[u]
      /\ t # NoTask
  BY <1>1 DEF TypeOK
<1>5. IdsMatchGroups'
  <2>1. ASSUME NEW u \in TaskIds
        PROVE  taskIdToDedupe'[u] = (IF groups'[KeyOf[u]] = u THEN KeyOf[u] ELSE NoKey)
    <3>1. CASE u = t
      BY <1>1, <1>4, <3>1
    <3>2. CASE u # t
      <4>1. taskIdToDedupe[u] = (IF groups[KeyOf[u]] = u THEN KeyOf[u] ELSE NoKey)
        BY DEF TableInv, IdsMatchGroups
      <4>2. KeyOf[u] \in Keys /\ u # NoTask
        OBVIOUS
      <4>3. QED
        BY <1>1, <1>4, <3>2, <4>1, <4>2
    <3>3. QED
      BY <3>1, <3>2
  <2>2. \A j \in Keys : groups'[j] # NoTask => KeyOf[groups'[j]] = j
    BY <1>4 DEF TableInv, IdsMatchGroups
  <2>3. QED
    BY <2>1, <2>2 DEF IdsMatchGroups
<1>9. NoTaskLost' /\ Places'
  BY <1>1, <1>2, <1>3, <1>4 DEF TableInv, NoTaskLost, Places
<1>6. Examined'
  BY <1>1, NothingExamined DEF TypeOK
<1>7. ActiveWithinLimit'
  BY <1>1, FewerSlots DEF TableInv
<1>8. QED
  BY <1>3, <1>5, <1>6, <1>7, <1>9 DEF TableInv

LEMMA PauseInv ==
  ASSUME TypeOK, TypeOK', TableInv, NEW t \in TaskIds, Pause(t)
  PROVE  TableInv'
<1> DEFINE k == taskIdToDedupe[t]
<1>1. /\ k \in Keys /\ groups' = groups /\ taskIdToDedupe' = taskIdToDedupe
      /\ queued' = Without(queued, k) /\ queuedSet' = queuedSet \ {k}
      /\ pausedSet' = pausedSet \cup {k} /\ active' = active /\ EnterScan
  BY DEF Pause, TypeOK
<1>2. groups[k] = t
  BY <1>1 DEF TableInv, IdsMatchGroups
<1>3. QueueMirror'
  BY <1>1, WithoutMirror DEF TableInv
<1>4. IdsMatchGroups' /\ NoTaskLost' /\ Places'
  BY <1>1, <1>2 DEF TableInv, IdsMatchGroups, NoTaskLost, Places
<1>5. Examined'
  BY <1>1, NothingExamined DEF TypeOK
<1>6. ActiveWithinLimit'
  BY <1>1, FewerSlots DEF TableInv
<1>7. QED
  BY <1>3, <1>4, <1>5, <1>6 DEF TableInv

LEMMA ResumeInv ==
  ASSUME TypeOK, TypeOK', TableInv, NEW t \in TaskIds, Resume(t)
  PROVE  TableInv'
<1> DEFINE k == taskIdToDedupe[t]
<1>1. /\ k \in Keys /\ k \in pausedSet /\ active[k] = NoRun
      /\ groups' = groups /\ taskIdToDedupe' = taskIdToDedupe
      /\ pausedSet' = pausedSet \ {k} /\ active' = active /\ EnterScan
  BY DEF Resume, TypeOK
<1>2. groups[k] # NoTask
  BY <1>1 DEF TableInv, Places
<1>3. Requeue(k)
  BY <1>2 DEF Resume
<1>4. /\ QueueMirror' /\ queuedSet' \subseteq queuedSet \cup {k}
      /\ queuedSet \subseteq queuedSet' /\ k \in queuedSet'
  BY <1>1, <1>3, RequeueMirror DEF TableInv
<1>5. IdsMatchGroups' /\ NoTaskLost' /\ Places'
  BY <1>1, <1>2, <1>4 DEF TableInv, IdsMatchGroups, NoTaskLost, Places
<1>6. Examined'
  BY <1>1, NothingExamined DEF TypeOK
<1>7. ActiveWithinLimit'
  BY <1>1, FewerSlots DEF TableInv
<1>8. QED
  BY <1>4, <1>5, <1>6, <1>7 DEF TableInv

\* A group and the id that controls it go together.
LEMMA RemoveGroupIds ==
  ASSUME TypeOK, IdsMatchGroups, NEW k \in Keys, RemoveGroup(k)
  PROVE  IdsMatchGroups'
BY DEF TypeOK, IdsMatchGroups, RemoveGroup

LEMMA CancelInv ==
  ASSUME TypeOK, TypeOK', TableInv, NEW t \in TaskIds, Cancel(t)
  PROVE  TableInv'
<1> DEFINE k == taskIdToDedupe[t]
<1>1. /\ k \in Keys /\ RemoveGroup(k)
      /\ queued' = Without(queued, k) /\ queuedSet' = queuedSet \ {k}
      /\ pausedSet' = pausedSet \ {k} /\ active' = [active EXCEPT ![k] = NoRun]
      /\ EnterScan
  BY DEF Cancel, TypeOK
<1>2. QueueMirror'
  BY <1>1, WithoutMirror DEF TableInv
<1>3. IdsMatchGroups'
  BY <1>1, RemoveGroupIds DEF TableInv
<1>4. NoTaskLost' /\ Places'
  <2>1. \A j \in Keys : j # k =>
          /\ groups'[j] = groups[j] /\ active'[j] = active[j]
          /\ j \in queuedSet' <=> j \in queuedSet
          /\ j \in pausedSet' <=> j \in pausedSet
    BY <1>1 DEF RemoveGroup, TypeOK
  <2>2. /\ groups'[k] = NoTask /\ active'[k] = NoRun
        /\ k \notin queuedSet' /\ k \notin pausedSet'
    BY <1>1 DEF RemoveGroup, TypeOK
  <2>3. NoTaskLost'
    BY <2>1, <2>2 DEF TableInv, NoTaskLost
  <2>4. QED  BY <2>1, <2>2, <2>3 DEF TableInv, Places
<1>5. Examined'
  BY <1>1, NothingExamined DEF TypeOK
<1>6. ActiveWithinLimit'
  BY <1>1, FewerSlots DEF TableInv, TypeOK
<1>7. QED
  BY <1>2, <1>3, <1>4, <1>5, <1>6 DEF TableInv

\* A message that leaves the tables alone only starts a new scan.
LEMMA RescanInv ==
  ASSUME TypeOK, TypeOK', TableInv, UNCHANGED tables, EnterScan
  PROVE  TableInv'
<1>1. QueueMirror' /\ IdsMatchGroups' /\ NoTaskLost' /\ Places'
  BY DEF tables, TableInv, QueueMirror, QueuedKeys, IdsMatchGroups, NoTaskLost, Places
<1>2. Examined'
  BY NothingExamined DEF TypeOK
<1>3. ActiveWithinLimit'
  BY FewerSlots DEF tables, TableInv
<1>4. QED
  BY <1>1, <1>2, <1>3 DEF TableInv

\* Close and the loss of the last client empty the tables.
LEMMA EmptyInv ==
  ASSUME TableInv, groups' = [k \in Keys |-> NoTask],
         taskIdToDedupe' = [t \in TaskIds |-> NoKey],
         queued' = <<>>, queuedSet' = {}, pausedSet' = {},
         active' = [k \in Keys |-> NoRun]
  PROVE  TableInv'
<1>1. IdsMatchGroups' /\ NoTaskLost' /\ Places'
  BY DEF IdsMatchGroups, NoTaskLost, Places
<1>2. Len(queued') = 0
  OBVIOUS
<1>3. Examined' /\ QueueMirror'
  BY <1>2 DEF Examined, QueueMirror, QueuedKeys
<1>4. ActiveWithinLimit'
  BY FewerSlots DEF TableInv
<1>5. QED
  BY <1>1, <1>3, <1>4 DEF TableInv

\* A task that ends frees its slot; its key may still wait in the queue, for
\* this scan to drop.
LEMMA EndTaskInv ==
  ASSUME TypeOK, TypeOK', TableInv, NEW k \in Keys, NEW status, NEW transferred, NEW total,
         EndTask(k, status, transferred, total), EnterScan
  PROVE  TableInv'
<1>1. /\ RemoveGroup(k) /\ active' = [active EXCEPT ![k] = NoRun]
      /\ pausedSet' = pausedSet \ {k} /\ queued' = queued /\ queuedSet' = queuedSet
  BY DEF EndTask
<1>2. QueueMirror'
  BY <1>1 DEF TableInv, QueueMirror, QueuedKeys
<1>3. IdsMatchGroups'
  BY <1>1, RemoveGroupIds DEF TableInv
<1>4. NoTaskLost' /\ Places'
  BY <1>1 DEF TableInv, NoTaskLost, Places, RemoveGroup, TypeOK
<1>5. Examined'
  BY NothingExamined DEF TypeOK
<1>6. ActiveWithinLimit'
  BY <1>1, FewerSlots DEF TableInv, TypeOK
<1>7. QED
  BY <1>2, <1>3, <1>4, <1>5, <1>6 DEF TableInv

LEMMA WorkerEventsInv ==
  ASSUME TypeOK, TypeOK', TableInv, WorkerEvents
  PROVE  TableInv'
<1> SUFFICES ASSUME NEW k \in Keys,
                    \/ OnProgress(k) \/ OnCompleted(k) \/ OnFailed(k)
                    \/ OnCanceledPaused(k) \/ OnCanceled(k)
             PROVE  TableInv'
  BY DEF WorkerEvents
<1>1. CASE OnProgress(k)
  <2>1. /\ UNCHANGED <<groups, taskIdToDedupe, queued, queuedSet, pausedSet, active>>
        /\ EnterScan
    BY <1>1 DEF OnProgress
  <2>2. QueueMirror' /\ IdsMatchGroups' /\ NoTaskLost' /\ Places'
    BY <2>1 DEF TableInv, QueueMirror, QueuedKeys, IdsMatchGroups, NoTaskLost, Places
  <2>3. Examined' /\ ActiveWithinLimit'
    BY <2>1, NothingExamined, FewerSlots DEF TypeOK, TableInv
  <2>4. QED
    BY <2>2, <2>3 DEF TableInv
<1>2. CASE OnCompleted(k) \/ OnFailed(k) \/ OnCanceled(k)
  BY <1>2, EndTaskInv DEF OnCompleted, OnFailed, OnCanceled
<1>3. CASE OnCanceledPaused(k)
  <2>1. /\ UNCHANGED <<groups, taskIdToDedupe, queued, queuedSet, pausedSet>>
        /\ active' = [active EXCEPT ![k] = NoRun] /\ k \in pausedSet /\ EnterScan
    BY <1>3 DEF OnCanceledPaused
  <2>2. \A j \in Keys : active'[j] = IF j = k THEN NoRun ELSE active[j]
    BY <2>1 DEF TypeOK
  <2>5. QueueMirror' /\ IdsMatchGroups'
    BY <2>1 DEF TableInv, QueueMirror, QueuedKeys, IdsMatchGroups
  <2>6. NoTaskLost' /\ Places'
    BY <2>1, <2>2 DEF TableInv, NoTaskLost, Places
  <2>3. Examined' /\ ActiveWithinLimit'
    BY <2>1, <2>2, NothingExamined, FewerSlots DEF TypeOK, TableInv
  <2>4. QED
    BY <2>3, <2>5, <2>6 DEF TableInv
<1>4. QED
  BY <1>1, <1>2, <1>3

LEMMA CommandsInv ==
  ASSUME TypeOK, TypeOK', TableInv, Commands
  PROVE  TableInv'
<1>1. ASSUME NEW t \in TaskIds, RejectDuplicate(t) PROVE TableInv'
  BY <1>1 DEF RejectDuplicate, tables, control, TableInv, QueueMirror, QueuedKeys,
              IdsMatchGroups, NoTaskLost, Places, Examined, ActiveWithinLimit, ActiveIn,
              CanStartDirection
<1>2. ASSUME NEW t \in TaskIds, NEW op, RefuseResume(t) \/ TaskNotFound(op, t) PROVE TableInv'
  BY <1>2, RescanInv DEF RefuseResume, TaskNotFound
<1>3. ASSUME Close PROVE TableInv'
  BY <1>3, EmptyInv DEF Close
<1>4. QED
  BY <1>1, <1>2, <1>3, EnqueueInv, PauseInv, ResumeInv, CancelInv DEF Commands

\* Whether a direction has a free slot depends on the slots only.
LEMMA SameSlots ==
  ASSUME active' = active, NEW d
  PROVE  CanStartDirection(d)' <=> CanStartDirection(d)
<1>1. ActiveIn(d)' = ActiveIn(d)
  BY DEF ActiveIn
<1>2. QED
  BY <1>1 DEF CanStartDirection

LEMMA SameTables ==
  ASSUME QueueMirror, IdsMatchGroups, NoTaskLost, Places, ActiveWithinLimit,
         UNCHANGED <<groups, taskIdToDedupe, queued, queuedSet, pausedSet, active>>
  PROVE  QueueMirror' /\ IdsMatchGroups' /\ NoTaskLost' /\ Places' /\ ActiveWithinLimit'
<1>1. \A d : ActiveIn(d)' = ActiveIn(d)
  BY DEF ActiveIn
<1>2. ActiveWithinLimit'
  BY <1>1 DEF ActiveWithinLimit, Limit
<1>3. QED
  BY <1>2 DEF QueueMirror, QueuedKeys, IdsMatchGroups, NoTaskLost, Places

\* What one iteration has to show: a key beyond scanLeft was there before, or
\* it was examined just now.
LEMMA ExaminedStep ==
  ASSUME TypeOK, TypeOK', Examined, groups' = groups,
         \A d \in Directions : ~CanStartDirection(d) => ~CanStartDirection(d)',
         \A i \in 1..Len(queued') : i > scanLeft' =>
           \/ \E j \in 1..Len(queued) : j > scanLeft /\ queued'[i] = queued[j]
           \/ groups[queued'[i]] # NoTask /\ ~CanStartDirection(Direction[queued'[i]])
  PROVE  Examined'
<1> SUFFICES ASSUME NEW i \in 1..Len(queued'), i > scanLeft'
             PROVE  groups'[queued'[i]] # NoTask /\ ~CanStartDirection(Direction[queued[i]])'
  BY DEF Examined
<1> DEFINE d == Direction[queued'[i]]
<1>1. queued'[i] \in Keys /\ d \in Directions
  <2>1. queued' \in Seq(Keys)
    BY DEF TypeOK
  <2>2. queued'[i] \in Keys
    BY <2>1
  <2>3. QED
    BY <2>2
<1>2. groups[queued'[i]] # NoTask /\ ~CanStartDirection(d)
  <2>1. CASE \E j \in 1..Len(queued) : j > scanLeft /\ queued'[i] = queued[j]
    <3>1. PICK j \in 1..Len(queued) : j > scanLeft /\ queued'[i] = queued[j]
      BY <2>1
    <3>2. groups[queued[j]] # NoTask /\ ~CanStartDirection(Direction[queued[j]])
      BY <3>1 DEF Examined
    <3>3. QED
      BY <3>1, <3>2
  <2>2. QED
    BY <2>1
<1> HIDE DEF d
<1>3. Cardinality({k \in Keys : active'[k] # NoRun /\ Direction[k] = d}) >= Limit[d]
      \/ ~(Cardinality({k \in Keys : active'[k] # NoRun /\ Direction[k] = d}) < Limit[d])
  BY <1>1, <1>2 DEF CanStartDirection, ActiveIn
<1>4. QED
  BY <1>2, <1>3 DEF d, CanStartDirection, ActiveIn

\* One iteration of try_start_next examines the front key.
LEMMA TryStartNextInv ==
  ASSUME TypeOK, TypeOK', TableInv, TryStartNext
  PROVE  TableInv'
<1>1. QueueMirror /\ IdsMatchGroups /\ NoTaskLost /\ Places /\ Examined /\ ActiveWithinLimit
  BY DEF TableInv
<1>2. scanLeft \in Nat
  BY DEF TypeOK
<1>3. CASE SkipFront
  <2>1. /\ PopFront /\ ~(active[front] = NoRun /\ groups[front] # NoTask)
        /\ queued' = Tail(queued) /\ queuedSet' = queuedSet \ {front}
        /\ UNCHANGED <<groups, taskIdToDedupe, pausedSet, active>>
        /\ scanLeft' = scanLeft - 1
    BY <1>3 DEF SkipFront, PopFront
  <2>2. QueueMirror'
    BY <1>1, <2>1, PopMirror, MirrorHolds
  <2>3. IdsMatchGroups' /\ NoTaskLost' /\ Places'
    BY <1>1, <2>1, PopMirror DEF IdsMatchGroups, NoTaskLost, Places
  <2>4. Examined'
    <3>1. ASSUME NEW i \in 1..Len(queued'), i > scanLeft'
          PROVE  \E j \in 1..Len(queued) : j > scanLeft /\ queued'[i] = queued[j]
      <4>1. /\ i + 1 \in 1..Len(queued) /\ i + 1 > scanLeft
            /\ queued'[i] = queued[i + 1]
        BY <1>1, <1>2, <2>1, <3>1, PopMirror
      <4>2. QED
        BY <4>1
    <3>2. QED
      BY <1>1, <2>1, <3>1, SameSlots, ExaminedStep
  <2>5. ActiveWithinLimit'
    BY <1>1, <2>1, FewerSlots
  <2>6. QED
    BY <2>2, <2>3, <2>4, <2>5 DEF TableInv
<1>4. CASE RequeueFront
  <2>1. /\ PopFront /\ groups[front] # NoTask /\ ~CanStartDirection(Direction[front])
        /\ queued' = Append(Tail(queued), front) /\ queuedSet' = queuedSet \cup {front}
        /\ UNCHANGED <<groups, taskIdToDedupe, pausedSet, active>>
        /\ scanLeft' = scanLeft - 1
    BY <1>4 DEF RequeueFront, PopFront
  <2>2. /\ Len(queued) \in Nat \ {0} /\ Len(queued') = Len(queued)
        /\ queued'[Len(queued)] = front
        /\ \A i \in 1..(Len(queued) - 1) :
             queued'[i] = Tail(queued)[i] /\ queued'[i] = queued[i + 1]
    BY <1>1, <2>1, PopMirror
  <2>3. queuedSet' = queuedSet
    BY <1>1, <2>1, PopMirror
  <2>4. QueueMirror'
    <3> DEFINE n == Len(queued)
               q == queued'
               b == Tail(queued)
    <3>5. /\ n \in Nat \ {0} /\ Len(q) = n /\ q[n] = front /\ Len(b) = n - 1
          /\ \A i \in 1..(n - 1) : q[i] = b[i]
          /\ NoDup(b)
      BY <1>1, <2>1, <2>2, PopMirror
    <3> HIDE DEF n, q, b
    <3>1. \A i \in 1..(n - 1) : b[i] # front
      BY <1>1, <2>1, <3>5, PopMirror DEF RangeOf, b
    <3>2. NoDup(queued')
      <4>1. NoDup(q)
        BY <3>1, <3>5 DEF NoDup
      <4>2. QED
        BY <4>1 DEF q
    <3>3. RangeOf(queued') = RangeOf(Tail(queued)) \cup {front}
      <4>1. 1..n = 1..(n - 1) \cup {n}
        BY <3>5
      <4>2. RangeOf(q) = RangeOf(b) \cup {front}
        BY <3>5, <4>1 DEF RangeOf
      <4>3. QED
        BY <4>2 DEF q, b
    <3>4. QED
      BY <1>1, <2>1, <2>3, <3>2, <3>3, PopMirror, MirrorHolds
  <2>5. IdsMatchGroups' /\ NoTaskLost' /\ Places'
    BY <1>1, <2>1, <2>3 DEF IdsMatchGroups, NoTaskLost, Places
  <2>6. Examined'
    <3>1. ASSUME NEW i \in 1..Len(queued'), i > scanLeft'
          PROVE  \/ \E j \in 1..Len(queued) : j > scanLeft /\ queued'[i] = queued[j]
                 \/ queued'[i] = front
      <4>1. CASE i = Len(queued)
        BY <2>2, <4>1
      <4>2. CASE i # Len(queued)
        <5>1. i \in 1..(Len(queued) - 1)
          BY <2>2, <4>2
        <5>2. i + 1 \in 1..Len(queued) /\ i + 1 > scanLeft /\ queued'[i] = queued[i + 1]
          BY <1>2, <2>1, <2>2, <3>1, <5>1
        <5>3. QED
          BY <5>2
      <4>3. QED
        BY <4>1, <4>2
    <3>2. QED
      BY <1>1, <2>1, <3>1, SameSlots, ExaminedStep
  <2>7. ActiveWithinLimit'
    BY <1>1, <2>1, FewerSlots
  <2>8. QED
    BY <2>4, <2>5, <2>6, <2>7 DEF TableInv
<1>5. CASE StartFront
  <2>1. PICK r \in RunIds : active' = [active EXCEPT ![front] = r]
    BY <1>5 DEF StartFront
  <2>2. /\ PopFront /\ active[front] = NoRun /\ groups[front] # NoTask
        /\ CanStartDirection(Direction[front])
        /\ queued' = Tail(queued) /\ queuedSet' = queuedSet \ {front}
        /\ UNCHANGED <<groups, taskIdToDedupe, pausedSet>> /\ scanLeft' = scanLeft - 1
    BY <1>5 DEF StartFront, PopFront
  <2>3. front \in Keys /\ \A k \in Keys : active'[k] = IF k = front THEN r ELSE active[k]
    BY <1>1, <2>1, <2>2, PopMirror DEF TypeOK
  <2>4. r # NoRun
    OBVIOUS
  <2>5. QueueMirror'
    BY <1>1, <2>2, PopMirror, MirrorHolds
  <2>6. IdsMatchGroups' /\ NoTaskLost' /\ Places'
    BY <1>1, <2>2, <2>3, <2>4 DEF IdsMatchGroups, NoTaskLost, Places
  <2>7. \A d \in Directions :
          ActiveIn(d)' = IF d = Direction[front] THEN ActiveIn(d) \cup {front} ELSE ActiveIn(d)
    BY <2>3, <2>4 DEF ActiveIn
  <2>8. Examined'
    <3>1. ASSUME NEW i \in 1..Len(queued'), i > scanLeft'
          PROVE  \E j \in 1..Len(queued) : j > scanLeft /\ queued'[i] = queued[j]
      <4>1. /\ i + 1 \in 1..Len(queued) /\ i + 1 > scanLeft
            /\ queued'[i] = queued[i + 1]
        BY <1>1, <1>2, <2>2, <3>1, PopMirror
      <4>2. QED
        BY <4>1
    <3>2. ASSUME NEW d \in Directions, ~CanStartDirection(d)
          PROVE  ~CanStartDirection(d)'
      <4>1. d # Direction[front]
        BY <2>2, <3>2
      <4>2. ActiveIn(d)' = ActiveIn(d)
        BY <2>7, <4>1
      <4>3. QED
        BY <3>2, <4>2 DEF CanStartDirection
    <3>3. QED
      BY <1>1, <2>2, <3>1, <3>2, ExaminedStep
  <2>9. ActiveWithinLimit'
    <3> SUFFICES ASSUME NEW d \in Directions
                 PROVE  Cardinality(ActiveIn(d)') <= Limit[d]
      BY DEF ActiveWithinLimit, Limit
    <3>1. CASE d # Direction[front]
      BY <1>1, <2>7, <3>1 DEF ActiveWithinLimit
    <3>2. CASE d = Direction[front]
      <4>1. front \notin ActiveIn(d)
        BY <2>2 DEF ActiveIn
      <4>2. Cardinality(ActiveIn(d) \cup {front}) = Cardinality(ActiveIn(d)) + 1
        BY <4>1, ActiveInFinite, FS_AddElement
      <4>3. Cardinality(ActiveIn(d)) < Limit[d]
        BY <2>2, <3>2 DEF CanStartDirection
      <4>4. Limit[d] \in Nat
        BY DEF Limit
      <4>5. Cardinality(ActiveIn(d)) \in Nat
        BY ActiveInFinite
      <4>6. ActiveIn(d)' = ActiveIn(d) \cup {front}
        BY <2>7, <3>2
      <4>7. QED
        BY <4>2, <4>3, <4>4, <4>5, <4>6
    <3>3. QED
      BY <3>1, <3>2
  <2>10. QED
    BY <2>5, <2>6, <2>8, <2>9 DEF TableInv
<1>6. CASE EndRound
  <2>1. UNCHANGED <<groups, taskIdToDedupe, queued, queuedSet, pausedSet, active>>
    BY <1>6 DEF EndRound, tables
  <2>5. \A i \in 1..Len(queued') : i > scanLeft' => i > scanLeft /\ queued'[i] = queued[i]
    BY <1>6, <2>1 DEF EndRound, TypeOK
  <2>2. QueueMirror' /\ IdsMatchGroups' /\ NoTaskLost' /\ Places' /\ ActiveWithinLimit'
    BY <1>1, <2>1, SameTables
  <2>3. Examined'
    BY <1>1, <2>1, <2>5, SameSlots, ExaminedStep
  <2>4. QED
    BY <2>2, <2>3 DEF TableInv
<1>7. QED
  BY <1>3, <1>4, <1>5, <1>6 DEF TryStartNext

\* Callers and runs touch neither the tables nor the scan.
LEMMA OthersInv ==
  ASSUME TypeOK, TypeOK', TableInv, UNCHANGED <<tables, control>>
  PROVE  TableInv'
<1>1. /\ UNCHANGED <<groups, taskIdToDedupe, queued, queuedSet, pausedSet, active>>
      /\ scanLeft' = scanLeft
  BY DEF tables, control
<1>2. QueueMirror' /\ IdsMatchGroups' /\ NoTaskLost' /\ Places' /\ ActiveWithinLimit'
  BY <1>1, SameTables DEF TableInv
<1>3. Examined'
  BY <1>1, SameSlots, ExaminedStep DEF TableInv
<1>4. QED
  BY <1>2, <1>3 DEF TableInv

LEMMA TableInvInductive ==
  ASSUME TypeOK, TypeOK', TableInv, [Next]_vars
  PROVE  TableInv'
<1>1. CASE Callers
  BY <1>1, OthersInv DEF Callers, SendEnqueue, SendControl, SendClose, SendCommand
<1>2. CASE Disconnect
  BY <1>2, EmptyInv DEF Disconnect
<1>3. ASSUME NEW r \in RunIds, RunStep(r) PROVE TableInv'
  BY <1>3, OthersInv DEF RunStep, Prepare, Check, ObserveCancel, TransferChunk, Complete,
                         ScheduleRetry, BackoffEnds, Fail, Abort
<1>4. CASE UNCHANGED vars
  BY <1>4, OthersInv DEF vars
<1>5. CASE Terminated
  BY <1>4, <1>5 DEF Terminated
<1>6. QED
  BY <1>1, <1>2, <1>3, <1>4, <1>5, CommandsInv, WorkerEventsInv, TryStartNextInv
     DEF Next, SchedulerStep

LEMMA TableInvInit == Init => TableInv
<1> SUFFICES ASSUME Init PROVE TableInv
  OBVIOUS
<1>1. /\ groups = [k \in Keys |-> NoTask] /\ taskIdToDedupe = [t \in TaskIds |-> NoKey]
      /\ queued = <<>> /\ queuedSet = {} /\ pausedSet = {} /\ active = [k \in Keys |-> NoRun]
  BY DEF Init
<1>2. IdsMatchGroups /\ NoTaskLost /\ Places
  BY <1>1 DEF IdsMatchGroups, NoTaskLost, Places
<1>3. Len(queued) = 0
  BY <1>1
<1>4. QueueMirror /\ Examined
  BY <1>1, <1>3 DEF QueueMirror, QueuedKeys, Examined
<1>5. ActiveWithinLimit
  <2>1. \A d : ActiveIn(d) = {}
    BY <1>1 DEF ActiveIn
  <2>2. \A d \in Directions : Limit[d] \in Nat
    BY DEF Limit
  <2>3. Cardinality({}) = 0
    BY FS_EmptySet
  <2>4. QED
    BY <2>1, <2>2, <2>3 DEF ActiveWithinLimit
<1>6. QED
  BY <1>2, <1>4, <1>5 DEF TableInv

\* The inductive invariant of the tables, from which the theorems follow.
THEOREM TablesCorrect == Spec => []TableInv
<1>1. TypeOK /\ TypeOK' /\ TableInv /\ [Next]_vars => TableInv'
  BY TableInvInductive
<1>2. QED
  BY <1>1, TableInvInit, TypeCorrect, PTL DEF Spec

\* The queue and its mirror never drift apart, whatever pause, cancel, resume
\* and try_start_next do to them in turn.
THEOREM QueueStaysMirrored == Spec => []QueueMirror
<1>1. TableInv => QueueMirror
  BY DEF TableInv
<1>2. QED
  BY <1>1, TablesCorrect, PTL

\* A task id controls a group exactly while it leads it: a leader can always
\* be paused, resumed and cancelled, and nobody else can.
THEOREM IdsStayMatched == Spec => []IdsMatchGroups
<1>1. TableInv => IdsMatchGroups
  BY DEF TableInv
<1>2. QED
  BY <1>1, TablesCorrect, PTL

\* No sequence of commands, late worker events and scans loses a task.
THEOREM NoTaskIsLost == Spec => []NoTaskLost
<1>1. TableInv => NoTaskLost
  BY DEF TableInv
<1>2. QED
  BY <1>1, TablesCorrect, PTL

\* A key is in one place, and between two messages what waits has a group.
THEOREM PlacesExclusive == Spec => []PlacesAreExclusive
<1>1. TypeOK /\ TableInv => PlacesAreExclusive
  <2> SUFFICES ASSUME TypeOK, TableInv, NEW k \in Keys, pc = "select", k \in queuedSet
               PROVE  groups[k] # NoTask
    BY DEF TableInv, Places, PlacesAreExclusive
  <2>1. PICK i \in 1..Len(queued) : queued[i] = k
    BY DEF TableInv, QueueMirror, QueuedKeys
  <2>2. scanLeft = 0 /\ i > scanLeft
    BY DEF TypeOK
  <2>3. QED
    BY <2>1, <2>2 DEF TableInv, Examined
<1>2. QED
  BY <1>1, TypeCorrect, TablesCorrect, PTL

\* The slots given out never exceed the configured concurrency.
THEOREM LimitsHold == Spec => []ActiveWithinLimit
<1>1. TableInv => ActiveWithinLimit
  BY DEF TableInv
<1>2. QED
  BY <1>1, TablesCorrect, PTL

\* While the scheduler waits for a message no slot is free that a waiting key
\* could take.
THEOREM NoIdleSlot == Spec => []WorkConserving
<1>1. TypeOK /\ TableInv => WorkConserving
  <2> SUFFICES ASSUME TypeOK, TableInv, NEW k \in queuedSet, pc = "select"
               PROVE  ~CanStartDirection(Direction[k])
    BY DEF WorkConserving
  <2>1. PICK i \in 1..Len(queued) : queued[i] = k
    BY DEF TableInv, QueueMirror, QueuedKeys
  <2>2. scanLeft = 0 /\ i > scanLeft
    BY DEF TypeOK
  <2>3. QED
    BY <2>1, <2>2 DEF TableInv, Examined
<1>2. QED
  BY <1>1, TypeCorrect, TablesCorrect, PTL

-----------------------------------------------------------------------------
\* The order in which the waiting keys are looked at.

Rotated(q, m) == SubSeq(q, m + 1, Len(q)) \o SubSeq(q, 1, m)

\* The keys behind the first m come first, then the first m.
LEMMA RotatedIs ==
  ASSUME NEW q \in Seq(Keys), NEW m \in 0..Len(q)
  PROVE  /\ Len(Rotated(q, m)) = Len(q) /\ Len(q) \in Nat
         /\ \A i \in 1..Len(q) :
              Rotated(q, m)[i] = IF i <= Len(q) - m THEN q[i + m] ELSE q[i - (Len(q) - m)]
<1> DEFINE back == SubSeq(q, m + 1, Len(q))
           first == SubSeq(q, 1, m)
<1>1. /\ back \in Seq(Keys) /\ Len(back) = Len(q) - m
      /\ \A i \in 1..(Len(q) - m) : back[i] = q[i + m]
  OBVIOUS
<1>2. first \in Seq(Keys) /\ Len(first) = m /\ \A i \in 1..m : first[i] = q[i]
  OBVIOUS
<1> HIDE DEF back, first
<1>3. /\ Len(back \o first) = Len(back) + Len(first)
      /\ \A i \in 1..(Len(back) + Len(first)) :
           (back \o first)[i] = IF i <= Len(back) THEN back[i] ELSE first[i - Len(back)]
  <2>1. back \in Seq(Keys) /\ first \in Seq(Keys)
    BY <1>1, <1>2
  <2>2. QED
    BY ONLY <2>1, ConcatProperties, Zenon
<1>4. Len(back) + Len(first) = Len(q) /\ Len(q) \in Nat
  BY <1>1, <1>2
<1> DEFINE w == back \o first
<1>5. Len(w) = Len(q)
  BY <1>3, <1>4
<1>6. \A i \in 1..Len(q) :
        w[i] = IF i <= Len(q) - m THEN back[i] ELSE first[i - (Len(q) - m)]
  BY <1>1, <1>3, <1>4
<1> HIDE DEF w
<1>7. \A i \in 1..Len(q) :
        w[i] = IF i <= Len(q) - m THEN q[i + m] ELSE q[i - (Len(q) - m)]
  BY <1>1, <1>2, <1>4, <1>6
<1>8. Rotated(q, m) = w
  BY DEF Rotated, w, back, first
<1>9. QED
  BY <1>4, <1>5, <1>7, <1>8

\* A queue from which nothing, or everything, has been examined.
LEMMA RotatedSame ==
  ASSUME NEW q \in Seq(Keys), NEW m, m = 0 \/ m = Len(q), NEW a, NEW b
  PROVE  Before(Rotated(q, m), a, b) <=> Before(q, a, b)
<1>1. m \in 0..Len(q) /\ Len(q) \in Nat
  OBVIOUS
<1>2. Len(Rotated(q, m)) = Len(q) /\ \A i \in 1..Len(q) : Rotated(q, m)[i] = q[i]
  BY <1>1, RotatedIs
<1>3. QED  BY <1>2 DEF Before

\* Dropping one key leaves the others in their order.
LEMMA DroppedKeepsOrder ==
  ASSUME NEW w, NEW v, Len(w) \in Nat, NEW p \in 1..Len(w), Len(v) = Len(w) - 1,
         \A j \in 1..(Len(w) - 1) : v[j] = IF j < p THEN w[j] ELSE w[j + 1],
         NEW a, NEW b, a # w[p], b # w[p], Before(w, a, b)
  PROVE  Before(v, a, b)
<1>1. PICK i \in 1..Len(w), j \in 1..Len(w) : i < j /\ w[i] = a /\ w[j] = b
  BY DEF Before
<1>2. i # p /\ j # p
  BY <1>1
<1> DEFINE at(n) == IF n < p THEN n ELSE n - 1
<1>3. at(i) \in 1..Len(v) /\ at(j) \in 1..Len(v) /\ at(i) < at(j)
  BY <1>1, <1>2
<1>4. v[at(i)] = a /\ v[at(j)] = b
  BY <1>1, <1>2
<1>5. QED  BY <1>3, <1>4 DEF Before

LEMMA WithoutKeepsOrder ==
  ASSUME NEW q \in Seq(Keys), NEW k \in Keys, NEW a, NEW b, a # k, b # k, Before(q, a, b)
  PROVE  Before(Without(q, k), a, b)
<1>1. CASE ~ \E i \in 1..Len(q) : q[i] = k
  BY <1>1 DEF Without
<1>2. CASE \E i \in 1..Len(q) : q[i] = k
  <2> DEFINE p == CHOOSE j \in 1..Len(q) : q[j] = k
             w == [j \in 1..(Len(q) - 1) |-> IF j < p THEN q[j] ELSE q[j + 1]]
  <2>1. p \in 1..Len(q) /\ q[p] = k
    BY <1>2
  <2>2. Without(q, k) = w
    BY <1>2 DEF Without
  <2> HIDE DEF p
  <2>3. Len(q) \in Nat /\ Len(q) - 1 \in Nat
    BY <2>1
  <2>4. w \in Seq(Keys) /\ Len(w) = Len(q) - 1
    <3>1. \A j \in 1..(Len(q) - 1) : w[j] \in Keys
      BY <2>1, <2>3
    <3>2. QED  BY <2>3, <3>1
  <2>5. \A j \in 1..(Len(q) - 1) : w[j] = IF j < p THEN q[j] ELSE q[j + 1]
    OBVIOUS
  <2> HIDE DEF w
  <2>6. QED
    BY <2>1, <2>2, <2>3, <2>4, <2>5, DroppedKeepsOrder
<1>3. QED  BY <1>1, <1>2

LEMMA AppendKeepsOrder ==
  ASSUME NEW q \in Seq(Keys), NEW k \in Keys, NEW a, NEW b
  PROVE  /\ Before(q, a, b) => Before(Append(q, k), a, b)
         /\ a \in RangeOf(q) => Before(Append(q, k), a, k)
<1>1. /\ Len(q) \in Nat /\ Len(Append(q, k)) = Len(q) + 1
      /\ \A i \in 1..Len(q) : Append(q, k)[i] = q[i]
      /\ Append(q, k)[Len(q) + 1] = k
  OBVIOUS
<1>2. /\ \A i \in 1..Len(q) : i \in 1..(Len(q) + 1) /\ i < Len(q) + 1
      /\ Len(q) + 1 \in 1..(Len(q) + 1)
  BY <1>1
<1> DEFINE w == Append(q, k)
<1> HIDE DEF w
<1>3. Before(q, a, b) => Before(w, a, b)
  BY <1>1, <1>2 DEF Before, w
<1>4. a \in RangeOf(q) => Before(w, a, k)
  BY <1>1, <1>2 DEF Before, RangeOf, w
<1>5. QED  BY <1>3, <1>4 DEF w

\* The three parts of ServedInOrder, for the step at hand.
KeepsOrder ==
  \A a, b \in Keys :
    Before(WaitingOrder, a, b) /\ {a, b} \subseteq queuedSet' => Before(WaitingOrder', a, b)
NewGoLast ==
  \A a, b \in Keys :
    a \in queuedSet \cap queuedSet' /\ b \in queuedSet' \ queuedSet
      => Before(WaitingOrder', a, b)
OlderFirst ==
  \A a, b \in Keys :
    /\ Before(WaitingOrder, a, b) /\ Direction[a] = Direction[b] /\ active[b] = NoRun
    => active'[b] = NoRun
InOrder == KeepsOrder /\ NewGoLast /\ OlderFirst

\* The order, as the queue stands between two messages.
LEMMA OrderIs ==
  ASSUME TypeOK, NEW a, NEW b, scanLeft = 0 \/ scanLeft = Len(queued)
  PROVE  Before(WaitingOrder, a, b) <=> Before(queued, a, b)
BY RotatedSame DEF TypeOK, WaitingOrder, Rotated

LEMMA OrderIsNext ==
  ASSUME TypeOK', NEW a, NEW b, scanLeft' = 0 \/ scanLeft' = Len(queued')
  PROVE  Before(WaitingOrder', a, b) <=> Before(queued', a, b)
BY RotatedSame DEF TypeOK, WaitingOrder, Rotated

\* A step that changes the queue only between two messages.
LEMMA HandlerInOrder ==
  ASSUME TypeOK, TypeOK', QueueMirror, scanLeft = 0,
         scanLeft' = 0 \/ scanLeft' = Len(queued'), NEW k \in Keys,
         \/ queued' = queued /\ queuedSet' = queuedSet
         \/ queued' = Append(queued, k) /\ queuedSet' = queuedSet \cup {k}
         \/ queued' = Without(queued, k) /\ queuedSet' = queuedSet \ {k}
         \/ queuedSet' = {},
         \A j \in Keys : active'[j] = active[j] \/ active'[j] = NoRun
  PROVE  InOrder
<1>1. queued \in Seq(Keys) /\ queuedSet = RangeOf(queued)
  BY MirrorIs DEF TypeOK
<1>2. \A a, b \in Keys : /\ Before(WaitingOrder, a, b) <=> Before(queued, a, b)
                         /\ Before(WaitingOrder', a, b) <=> Before(queued', a, b)
  BY OrderIs, OrderIsNext
<1>3. KeepsOrder
  <2>1. ASSUME NEW a \in Keys, NEW b \in Keys, Before(queued, a, b), {a, b} \subseteq queuedSet'
        PROVE  Before(queued', a, b)
    <3>1. CASE queued' = queued
      BY <2>1, <3>1
    <3>2. CASE queued' = Append(queued, k)
      BY <1>1, <2>1, <3>2, AppendKeepsOrder
    <3>3. CASE queued' = Without(queued, k) /\ queuedSet' = queuedSet \ {k}
      BY <1>1, <2>1, <3>3, WithoutKeepsOrder
    <3>4. CASE queuedSet' = {}
      BY <2>1, <3>4
    <3>5. QED  BY <3>1, <3>2, <3>3, <3>4
  <2>2. QED  BY <1>2, <2>1 DEF KeepsOrder
<1>4. NewGoLast
  <2>1. ASSUME NEW a \in Keys, NEW b \in Keys, a \in queuedSet, b \in queuedSet' \ queuedSet
        PROVE  Before(queued', a, b)
    <3>1. queued' = Append(queued, k) /\ b = k
      BY <2>1
    <3>2. QED  BY <1>1, <2>1, <3>1, AppendKeepsOrder
  <2>2. QED  BY <1>2, <2>1 DEF NewGoLast
<1>5. OlderFirst
  BY DEF OlderFirst
<1>6. QED  BY <1>3, <1>4, <1>5 DEF InOrder

LEMMA CommandsInOrder ==
  ASSUME TypeOK, TypeOK', TableInv, Commands
  PROVE  InOrder
<1>1. QueueMirror /\ scanLeft = 0
  BY DEF TableInv, TypeOK, Commands, RejectDuplicate, Enqueue, Pause, Resume, RefuseResume,
     Cancel, TaskNotFound, Close, Receive
<1>2. ASSUME NEW t \in TaskIds, RejectDuplicate(t) PROVE InOrder
  BY <1>1, <1>2, HandlerInOrder DEF RejectDuplicate, tables, control
<1>3. ASSUME NEW t \in TaskIds, NEW op, RefuseResume(t) \/ TaskNotFound(op, t) PROVE InOrder
  BY <1>1, <1>3, HandlerInOrder DEF RefuseResume, TaskNotFound, tables, EnterScan
<1>4. ASSUME NEW t \in TaskIds, Enqueue(t) \/ Resume(t) PROVE InOrder
  <2>1. /\ active' = active /\ scanLeft' = Len(queued')
        /\ \E k \in Keys : Requeue(k) \/ UNCHANGED <<queued, queuedSet>>
    BY <1>4 DEF Enqueue, Resume, EnterScan, TypeOK
  <2>2. QED  BY <1>1, <2>1, HandlerInOrder DEF Requeue
<1>5. ASSUME NEW t \in TaskIds, Pause(t) \/ Cancel(t) PROVE InOrder
  <2>1. PICK k \in Keys :
          /\ scanLeft' = Len(queued')
          /\ queued' = Without(queued, k) /\ queuedSet' = queuedSet \ {k}
          /\ active' = active \/ active' = [active EXCEPT ![k] = NoRun]
    BY <1>5 DEF Pause, Cancel, EnterScan, TypeOK
  <2>2. \A j \in Keys : active'[j] = active[j] \/ active'[j] = NoRun
    BY <2>1 DEF TypeOK
  <2>3. QED  BY <1>1, <2>1, <2>2, HandlerInOrder
<1>6. ASSUME Close PROVE InOrder
  <2>1. queuedSet' = {} /\ active' = [k \in Keys |-> NoRun] /\ scanLeft' = 0
    BY <1>6 DEF Close
  <2>2. QED  BY <2>1 DEF InOrder, KeepsOrder, NewGoLast, OlderFirst
<1>7. QED
  BY <1>2, <1>3, <1>4, <1>5, <1>6 DEF Commands

LEMMA WorkerEventsInOrder ==
  ASSUME TypeOK, TypeOK', TableInv, WorkerEvents
  PROVE  InOrder
<1>1. PICK k \in Keys :
        /\ pc = "select" /\ UNCHANGED <<queued, queuedSet>> /\ scanLeft' = Len(queued')
        /\ active' = active \/ active' = [active EXCEPT ![k] = NoRun]
  BY DEF WorkerEvents, OnProgress, OnCompleted, OnFailed, OnCanceledPaused, OnCanceled, EndTask,
     TakeEvent, EnterScan
<1>2. scanLeft = 0 /\ \A j \in Keys : active'[j] = active[j] \/ active'[j] = NoRun
  BY <1>1 DEF TypeOK
<1>3. QED  BY <1>1, <1>2, HandlerInOrder DEF TableInv

LEMMA StillInOrder ==
  ASSUME UNCHANGED <<queued, queuedSet, active, scanLeft>>
  PROVE  InOrder
BY DEF InOrder, KeepsOrder, NewGoLast, OlderFirst, WaitingOrder

\* The front key is the first of those that this round has not looked at: the
\* keys put back come before it.
LEMMA FrontIs ==
  ASSUME TypeOK, QueueMirror, PopFront
  PROVE  /\ queued \in Seq(Keys) /\ Len(queued) \in Nat
         /\ scanLeft \in 1..Len(queued) /\ scanLeft' = scanLeft - 1
         /\ Len(queued) - scanLeft + 1 \in 1..Len(queued)
         /\ Len(WaitingOrder) = Len(queued)
         /\ \A i \in 1..Len(queued) :
              WaitingOrder[i] = IF i <= Len(queued) - scanLeft THEN queued[i + scanLeft]
                                ELSE queued[i - (Len(queued) - scanLeft)]
         /\ WaitingOrder[Len(queued) - scanLeft + 1] = front
<1>1. /\ queued \in Seq(Keys) /\ Len(queued) \in Nat
      /\ scanLeft \in 1..Len(queued) /\ scanLeft' = scanLeft - 1
  BY DEF TypeOK, PopFront
<1>2. WaitingOrder = Rotated(queued, scanLeft)
  BY DEF WaitingOrder, Rotated
<1>3. /\ Len(WaitingOrder) = Len(queued)
      /\ \A i \in 1..Len(queued) :
           WaitingOrder[i] = IF i <= Len(queued) - scanLeft THEN queued[i + scanLeft]
                             ELSE queued[i - (Len(queued) - scanLeft)]
  BY <1>1, <1>2, RotatedIs
<1> DEFINE p == Len(queued) - scanLeft + 1
<1>4. p \in 1..Len(queued) /\ ~(p <= Len(queued) - scanLeft)
      /\ p - (Len(queued) - scanLeft) = 1
  BY <1>1
<1>5. front = queued[1]
  BY <1>1 DEF front
<1>6. QED  BY <1>1, <1>3, <1>4, <1>5

\* The front key leaves the queue.
LEMMA PopKeepsOrder ==
  ASSUME TypeOK, TypeOK', QueueMirror, PopFront,
         queued' = Tail(queued), queuedSet' = queuedSet \ {front}
  PROVE  KeepsOrder /\ NewGoLast
<1> DEFINE n == Len(queued)
           m == scanLeft
           p == n - m + 1
           w == WaitingOrder
<1>1. /\ n \in Nat /\ m \in 1..n /\ scanLeft' = m - 1 /\ p \in 1..n /\ Len(w) = n /\ w[p] = front
      /\ \A i \in 1..n : w[i] = IF i <= n - m THEN queued[i + m] ELSE queued[i - (n - m)]
  BY FrontIs
<1>2. /\ Tail(queued) \in Seq(Keys) /\ Len(Tail(queued)) = n - 1
      /\ \A i \in 1..(n - 1) : Tail(queued)[i] = queued[i + 1]
  BY PopMirror
<1> DEFINE v == Rotated(Tail(queued), m - 1)
<1> HIDE DEF w
<1>3. m - 1 \in 0..(n - 1) /\ (n - 1) - (m - 1) = n - m
  BY <1>1
<1>4. /\ Len(v) = n - 1
      /\ \A i \in 1..(n - 1) :
           v[i] = IF i <= n - m THEN Tail(queued)[i + (m - 1)] ELSE Tail(queued)[i - (n - m)]
  <2> DEFINE q == Tail(queued)
  <2>1. q \in Seq(Keys) /\ Len(q) = n - 1 /\ m - 1 \in 0..Len(q)
    BY <1>2, <1>3
  <2> HIDE DEF q
  <2>2. /\ Len(Rotated(q, m - 1)) = Len(q)
        /\ \A i \in 1..Len(q) :
             Rotated(q, m - 1)[i] = IF i <= Len(q) - (m - 1) THEN q[i + (m - 1)]
                                    ELSE q[i - (Len(q) - (m - 1))]
    BY <2>1, RotatedIs
  <2>3. Len(q) - (m - 1) = n - m
    BY <1>3, <2>1
  <2>4. /\ Len(Rotated(q, m - 1)) = n - 1
        /\ \A i \in 1..(n - 1) :
             Rotated(q, m - 1)[i] = IF i <= n - m THEN q[i + (m - 1)] ELSE q[i - (n - m)]
    BY <2>1, <2>2, <2>3
  <2>5. QED  BY <2>4 DEF q
<1> HIDE DEF v
<1>5. \A i \in 1..(n - 1) : v[i] = IF i < p THEN w[i] ELSE w[i + 1]
  <2> SUFFICES ASSUME NEW i \in 1..(n - 1)
               PROVE  v[i] = IF i < p THEN w[i] ELSE w[i + 1]
    OBVIOUS
  <2>1. CASE i < p
    <3>1. /\ i <= n - m /\ i + (m - 1) \in 1..(n - 1) /\ i + (m - 1) + 1 = i + m
          /\ i \in 1..n
      BY <1>1, <2>1
    <3>2. v[i] = queued[i + m]
      BY <1>2, <1>4, <3>1
    <3>3. QED  BY <1>1, <2>1, <3>1, <3>2
  <2>2. CASE ~(i < p)
    <3>1. /\ ~(i <= n - m) /\ i - (n - m) \in 1..(n - 1) /\ i + 1 \in 1..n
          /\ ~(i + 1 <= n - m) /\ i + 1 - (n - m) = i - (n - m) + 1
      BY <1>1, <2>2
    <3>2. v[i] = queued[i - (n - m) + 1]
      BY <1>2, <1>4, <3>1
    <3>3. w[i + 1] = queued[i - (n - m) + 1]
      BY <1>1, <3>1
    <3>4. QED  BY <2>2, <3>2, <3>3
  <2>3. QED  BY <2>1, <2>2
<1>6. \A a, b : a # front /\ b # front /\ Before(w, a, b) => Before(v, a, b)
  <2> SUFFICES ASSUME NEW a, NEW b, a # front, b # front, Before(w, a, b)
               PROVE  Before(v, a, b)
    OBVIOUS
  <2>1. /\ Len(w) \in Nat /\ p \in 1..Len(w) /\ Len(v) = Len(w) - 1 /\ a # w[p] /\ b # w[p]
        /\ \A i \in 1..(Len(w) - 1) : v[i] = IF i < p THEN w[i] ELSE w[i + 1]
    BY <1>1, <1>4, <1>5
  <2> HIDE DEF p
  <2>2. QED  BY <2>1, DroppedKeepsOrder
<1>7. WaitingOrder' = v
  BY <1>1 DEF v, WaitingOrder, Rotated
<1>8. QED  BY <1>6, <1>7 DEF KeepsOrder, NewGoLast, w

\* The front key goes to the end of the queue, which is its place among those
\* that were looked at: nothing moves.
LEMMA PutBackKeepsOrder ==
  ASSUME TypeOK, TypeOK', QueueMirror, PopFront, RequeueFront
  PROVE  InOrder
<1> DEFINE n == Len(queued)
           m == scanLeft
           w == WaitingOrder
           q == Append(Tail(queued), front)
           v == Rotated(q, m - 1)
<1>1. /\ n \in Nat /\ m \in 1..n /\ scanLeft' = m - 1 /\ Len(w) = n
      /\ \A i \in 1..n : w[i] = IF i <= n - m THEN queued[i + m] ELSE queued[i - (n - m)]
      /\ n - m + 1 \in 1..n /\ w[n - m + 1] = front
  BY FrontIs
<1>2. /\ Tail(queued) \in Seq(Keys) /\ Len(Tail(queued)) = n - 1 /\ front \in Keys
      /\ front \in queuedSet /\ \A i \in 1..(n - 1) : Tail(queued)[i] = queued[i + 1]
  BY PopMirror
<1> HIDE DEF w
<1>3. /\ q \in Seq(Keys) /\ Len(q) = n /\ q[n] = front
      /\ \A i \in 1..(n - 1) : q[i] = queued[i + 1]
  BY <1>1, <1>2
<1>4. queued' = q /\ queuedSet' = queuedSet /\ active' = active
  BY <1>2 DEF RequeueFront
<1> HIDE DEF q
<1>5. m - 1 \in 0..n
  BY <1>1
<1>6. /\ Len(v) = n
      /\ \A i \in 1..n :
           v[i] = IF i <= n - (m - 1) THEN q[i + (m - 1)] ELSE q[i - (n - (m - 1))]
  BY <1>3, <1>5, RotatedIs
<1> HIDE DEF v
<1>7. \A i \in 1..n : v[i] = w[i]
  <2> SUFFICES ASSUME NEW i \in 1..n PROVE v[i] = w[i]
    OBVIOUS
  <2>1. CASE i <= n - m
    <3>1. i <= n - (m - 1) /\ i + (m - 1) \in 1..(n - 1) /\ i + (m - 1) + 1 = i + m
      BY <1>1, <2>1
    <3>2. v[i] = q[i + (m - 1)]
      BY <1>6, <3>1
    <3>4. v[i] = queued[i + m]
      BY <1>3, <3>1, <3>2
    <3>5. QED  BY <1>1, <2>1, <3>4
  <2>2. CASE i = n - m + 1
    <3>1. i <= n - (m - 1) /\ i + (m - 1) = n
      BY <1>1, <2>2
    <3>2. v[i] = q[n]
      BY <1>6, <3>1
    <3>3. QED  BY <1>1, <1>3, <2>2, <3>2
  <2>3. CASE i > n - m + 1
    <3>1. /\ ~(i <= n - (m - 1)) /\ ~(i <= n - m)
          /\ i - (n - (m - 1)) \in 1..(n - 1) /\ i - (n - (m - 1)) + 1 = i - (n - m)
      BY <1>1, <2>3
    <3>2. v[i] = queued[i - (n - m)]
      BY <1>3, <1>6, <3>1
    <3>3. w[i] = queued[i - (n - m)]
      BY <1>1, <3>1
    <3>4. QED  BY <3>2, <3>3
  <2>4. n - m \in Int /\ i \in Int
    BY <1>1
  <2> HIDE DEF n, m
  <2>5. i <= n - m \/ i = n - m + 1 \/ i > n - m + 1
    BY <2>4
  <2>6. QED  BY <2>1, <2>2, <2>3, <2>5
<1>8. \A a, b : Before(w, a, b) => Before(v, a, b)
  BY <1>1, <1>6, <1>7 DEF Before
<1>9. WaitingOrder' = v
  BY <1>1, <1>4 DEF v, WaitingOrder, Rotated
<1>10. KeepsOrder
  BY <1>8, <1>9 DEF KeepsOrder, w
<1>11. QED  BY <1>4, <1>10 DEF InOrder, NewGoLast, OlderFirst

\* Whoever waits before the front key has been put back in this round, so its
\* direction is full: it is not the front key's that has a free slot.
LEMMA StartFrontInOrder ==
  ASSUME TypeOK, TypeOK', TableInv, StartFront
  PROVE  InOrder
<1>1. /\ PopFront /\ queued' = Tail(queued) /\ queuedSet' = queuedSet \ {front}
      /\ CanStartDirection(Direction[front])
      /\ \E r \in RunIds : active' = [active EXCEPT ![front] = r]
  BY DEF StartFront
<1>2. KeepsOrder /\ NewGoLast
  BY <1>1, PopKeepsOrder DEF TableInv
<1>3. \A b \in Keys : b # front => active'[b] = active[b]
  BY <1>1 DEF TypeOK
<1>4. ASSUME NEW a \in Keys, Before(WaitingOrder, a, front) PROVE Direction[a] # Direction[front]
  <2> DEFINE n == Len(queued)
             m == scanLeft
             p == n - m + 1
             w == WaitingOrder
  <2>1. /\ n \in Nat /\ m \in 1..n /\ p \in 1..n /\ Len(w) = n /\ w[p] = front
        /\ \A i \in 1..n : w[i] = IF i <= n - m THEN queued[i + m] ELSE queued[i - (n - m)]
    BY <1>1, FrontIs DEF TableInv
  <2> HIDE DEF w
  <2>2. PICK i \in 1..n, j \in 1..n : i < j /\ w[i] = a /\ w[j] = front
    BY <1>4, <2>1 DEF Before, w
  <2>3. j = p
    <3>1. /\ 1 \in 1..n /\ front = queued[1]
      BY <1>1, <2>1 DEF front, TypeOK
    <3>2. CASE j <= n - m
      <4>1. j + m \in 1..n /\ queued[j + m] = front /\ j + m # 1
        BY <2>1, <2>2, <3>2
      <4>2. QED  BY <3>1, <4>1 DEF TableInv, QueueMirror
    <3>3. CASE ~(j <= n - m)
      <4>1. j - (n - m) \in 1..n /\ queued[j - (n - m)] = front
        BY <2>1, <2>2, <3>3
      <4>2. j - (n - m) = 1
        BY <3>1, <4>1 DEF TableInv, QueueMirror
      <4>3. QED  BY <2>1, <4>2
    <3>4. QED  BY <3>2, <3>3
  <2>4. i + m \in 1..n /\ i + m > m /\ queued[i + m] = a
    BY <2>1, <2>2, <2>3
  <2>5. ~CanStartDirection(Direction[a])
    BY <2>4 DEF TableInv, Examined
  <2>6. QED  BY <1>1, <2>5
<1>5. OlderFirst
  BY <1>3, <1>4 DEF OlderFirst
<1>6. QED  BY <1>2, <1>5 DEF InOrder

LEMMA NextInOrder ==
  ASSUME TypeOK, TypeOK', TableInv, [Next]_vars
  PROVE  InOrder
<1>1. CASE Callers
  BY <1>1, StillInOrder
     DEF Callers, SendEnqueue, SendControl, SendClose, SendCommand, tables, control
<1>2. CASE Disconnect
  <2>1. queuedSet' = {} /\ active' = [k \in Keys |-> NoRun]
    BY <1>2 DEF Disconnect
  <2>2. QED  BY <2>1 DEF InOrder, KeepsOrder, NewGoLast, OlderFirst
<1>3. ASSUME NEW r \in RunIds, RunStep(r) PROVE InOrder
  <2>1. UNCHANGED <<tables, control>>
    BY <1>3 DEF RunStep, Prepare, Check, ObserveCancel, TransferChunk, Complete, ScheduleRetry,
       BackoffEnds, Fail, Abort
  <2>2. QED  BY <2>1, StillInOrder DEF tables, control
<1>4. CASE UNCHANGED vars
  BY <1>4, StillInOrder DEF vars, tables, control
<1>5. CASE Terminated
  BY <1>4, <1>5 DEF Terminated
<1>6. CASE SkipFront
  <2>1. KeepsOrder /\ NewGoLast /\ active' = active
    BY <1>6, PopKeepsOrder DEF SkipFront, TableInv
  <2>2. QED  BY <2>1 DEF InOrder, OlderFirst
<1>7. CASE RequeueFront
  BY <1>7, PutBackKeepsOrder DEF RequeueFront, TableInv
<1>8. CASE EndRound
  <2>1. /\ UNCHANGED <<queued, queuedSet, active>> /\ scanLeft = 0
        /\ scanLeft' = 0 \/ scanLeft' = Len(queued')
    BY <1>8 DEF EndRound, tables
  <2>2. \A a, b : Before(WaitingOrder, a, b) <=> Before(WaitingOrder', a, b)
    BY <2>1, OrderIs, OrderIsNext
  <2>3. QED  BY <2>1, <2>2 DEF InOrder, KeepsOrder, NewGoLast, OlderFirst
<1>9. CASE TryStartNext
  BY <1>6, <1>7, <1>8, <1>9, StartFrontInOrder DEF TryStartNext
<1>10. QED
  BY <1>1, <1>2, <1>3, <1>4, <1>5, <1>9, CommandsInOrder, WorkerEventsInOrder
     DEF Next, SchedulerStep

\* First in, first out per direction: the queue is turned over again and
\* again, keys are put in and taken out of its middle, and yet no key is
\* started while an older one of its direction waits.
THEOREM ServedFirstInFirstOut == Spec => ServedInOrder
<1> DEFINE P == \A a, b \in Keys :
                  /\ Before(WaitingOrder, a, b) /\ {a, b} \subseteq queuedSet'
                     => Before(WaitingOrder', a, b)
                  /\ a \in queuedSet \cap queuedSet' /\ b \in queuedSet' \ queuedSet
                     => Before(WaitingOrder', a, b)
                  /\ Before(WaitingOrder, a, b) /\ Direction[a] = Direction[b]
                     /\ active[b] = NoRun => active'[b] = NoRun
<1>1. ASSUME InOrder PROVE P
  BY <1>1 DEF InOrder, KeepsOrder, NewGoLast, OlderFirst
<1>2. TypeOK /\ TypeOK' /\ TableInv /\ [Next]_vars => [P]_vars
  BY <1>1, NextInOrder
<1>3. QED
  BY <1>2, TypeCorrect, TablesCorrect, PTL DEF Spec, ServedInOrder
=============================================================================
