----------------------------- MODULE MCMissionHost -----------------------------
(* Small instances of MissionHost for TLC. *)
EXTENDS MissionHost, TLC

CONSTANTS m1, a1, a2, a3, v1, v2, h1, h2, j1, j2

OneTask == {1}
TwoTasks == {1, 2}
TaskMissionDef == [t \in Tasks |-> m1]
\* Task 1 is an implementation, task 2 an investigation of another identity.
TaskClassDef == [t \in Tasks |-> IF t = 1 THEN "implementation" ELSE "investigation"]
TaskKeyDef == [t \in Tasks |-> t]

OneHost == [j \in Jobs |-> h1]
OwnHost == [j \in Jobs |-> IF j = j1 THEN h1 ELSE h2]
BossOnly == [j \in Jobs |-> {"boss"}]
BossAndManual == [j \in Jobs |-> IF j = j1 THEN {"boss"} ELSE {"task", "verify", "loop", "cancel"}]

BossAndVerify == [j \in Jobs |-> IF j = j1 THEN {"boss"} ELSE {"verify"}]

Symmetric == Permutations(Attempts) \cup Permutations(Verifications)
===============================================================================
