--------------------------- MODULE TaskLifecycle ---------------------------
(***************************************************************************)
(* What the executor promises of its tasks, without queues, channels or    *)
(* runs: the phases a task goes through, at most one task per dedupe key   *)
(* between admission and its end, and a limit on the tasks that hold a     *)
(* slot in each direction.                                                 *)
(***************************************************************************)
EXTENDS Naturals, FiniteSets

CONSTANTS Tasks, Keys, KeyOf, Direction, Limit
VARIABLE phase

Phases == {"new", "waiting", "running", "stopping", "paused", "ended"}
Admitted(t)  == phase[t] \notin {"new", "ended"}
HoldsSlot(t) == phase[t] \in {"running", "stopping"}
SlotsIn(d)   == {t \in Tasks : HoldsSlot(t) /\ Direction[KeyOf[t]] = d}

Init == phase = [t \in Tasks |-> "new"]

Move(t, from, to) == phase[t] = from /\ phase' = [phase EXCEPT ![t] = to]

\* A task is admitted only while no other task with its key is.
Admit(t) == /\ \A u \in Tasks : KeyOf[u] = KeyOf[t] => ~Admitted(u)
            /\ Move(t, "new", "waiting")
Start(t) == /\ Cardinality(SlotsIn(Direction[KeyOf[t]])) < Limit[Direction[KeyOf[t]]]
            /\ Move(t, "waiting", "running")
Park(t)     == Move(t, "waiting", "paused")
Stop(t)     == Move(t, "running", "stopping")
Stopped(t)  == Move(t, "stopping", "paused")
Continue(t) == Move(t, "paused", "waiting")
End(t)      == Admitted(t) /\ phase' = [phase EXCEPT ![t] = "ended"]
CloseAll    == phase' = [t \in Tasks |-> IF Admitted(t) THEN "ended" ELSE phase[t]]

Next == \/ CloseAll
        \/ \E t \in Tasks : \/ Admit(t) \/ Start(t) \/ Park(t) \/ Stop(t)
                            \/ Stopped(t) \/ Continue(t) \/ End(t)
Spec == Init /\ [][Next]_phase
=============================================================================
