----------------------------- MODULE MCExecutor -----------------------------
(***************************************************************************)
(* Small instances of the executor for TLC: u* are upload keys and d*      *)
(* download keys. RunIds is {1, 2, 3} everywhere: a run that was cancelled *)
(* may live beside those that hold the slots.                              *)
(***************************************************************************)
EXTENDS Executor

CONSTANTS t1, t2, t3, u1, u2, u3, d1

DirectionOf == [k \in Keys |-> IF k \in {u1, u2, u3} THEN "Upload" ELSE "Download"]

\* Every task has a key of its own.
DistinctKeys == [t \in TaskIds |-> CASE t = t1 -> u1 [] t = t2 -> u2 [] t = t3 -> d1]
ThreeUploads == [t \in TaskIds |-> CASE t = t1 -> u1 [] t = t2 -> u2 [] t = t3 -> u3]
\* Two tasks share a key: the second is a duplicate while the first is
\* admitted, and its successor afterwards.
SharedKey == [t \in TaskIds |-> CASE t \in {t1, t2} -> u1 [] t = t3 -> u2]
SharedDownload == [t \in TaskIds |-> CASE t \in {t1, t2} -> d1 [] t = t3 -> u1]
=============================================================================
