------------------------------ MODULE MCWorkerRun ------------------------------
(* Small instances of WorkerRun for TLC. *)
EXTENDS WorkerRun, TLC

CONSTANTS x1, x2, r1, r2, p1, p2

PositionDef == [x \in Routes |-> IF x = x1 THEN 0 ELSE 1]
WeightDef == [x \in Routes |-> 1]
OneProc == [r \in Runs |-> p1]

Says(words, status, after) == [words |-> words, status |-> status, after |-> after]
\* One failure of each kind of consequence: retried without a cooldown, retried after one, another
\* route, the end of the run, cancelled.
AllKinds == {Says({"rate"}, 429, 0), Says({"network"}, 0, 0), Says({"quota"}, 0, 0),
             Says({"protocol"}, 0, 0), Says({"abort"}, 0, 0)}
FewKinds == {Says({"rate"}, 429, 0)}
===============================================================================
