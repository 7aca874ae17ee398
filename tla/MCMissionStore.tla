---------------------------- MODULE MCMissionStore ----------------------------
(* Small instances of MissionStore for TLC. *)
EXTENDS MissionStore, TLC

CONSTANTS m1, a1, a2, a3, v1, v2, o1, o2

TwoTasks == {1, 2}
OneTask == {1}
TaskMissionDef == [t \in Tasks |-> m1]
\* Task 1 is an implementation, task 2 an investigation of its own identity.
TaskClassDef == [t \in Tasks |-> IF t = 1 THEN "implementation" ELSE "investigation"]
TaskKeyDef == [t \in Tasks |-> t]

\* Leases and time matter to attempts, and reviews and a second task to quality: a behaviour that
\* has gone into the one is not followed into the other.
Leased ==
    \/ now > 1 \/ \E m \in Missions : lease[m] # NoLease
    \/ \E a \in Attempts : attempt[a].owner # NoId
Reviewed ==
    \/ \E v \in Verifications : verification[v] # NoVerification
    \/ task[2] # NoTask
LeasesOrReviews == ~(Leased /\ Reviewed)

\* States that differ only in what nothing reads are one: how an attempt failed, in which way a task
\* waits for its next attempt, and which quality short of passed it has.
Failed(status) == IF status \in AttemptEnd \ {"succeeded"} THEN "failed" ELSE status
Waiting(status) == IF status \in {"pending", "planned", "interrupted", "blocked"} THEN "pending" ELSE status
NotPassed(status) == IF status \in QualityStatus \ {"passed"} THEN "unverified" ELSE status
WhatMatters ==
    <<mission, lease, verification, granted, now,
      [t \in Tasks |-> [task[t] EXCEPT !.status = Waiting(@)]],
      [a \in Attempts |-> [attempt[a] EXCEPT !.status = Failed(@)]],
      [t \in Tasks |-> [quality[t] EXCEPT !.status = NotPassed(@)]]>>

Symmetric == Permutations(Attempts) \cup Permutations(Verifications)
===============================================================================
