------------------------------ MODULE StorageLock ------------------------------
(***************************************************************************)
(* withStorageLock: the lock file .config.lock that makes processes change *)
(* the configuration one after another.  The file is created with O_EXCL   *)
(* and then stamped with the pid of its creator.  A process that finds it  *)
(* old, and its pid missing or dead, removes it and tries again.           *)
(*                                                                         *)
(* Each file operation is a step: other processes come between the stat,   *)
(* the read and the unlink.  Time is counted in ticks from the creation of *)
(* the file and from the start of each wait, and no further than matters.  *)
(***************************************************************************)
EXTENDS Naturals, FiniteSets

CONSTANTS
    Procs,          \* processes, each under a pid of its own
    Nobody,         \* the creator of a lock file that does not exist
    WaitLimit,      \* timeoutMs: how long a process waits for the lock
    StaleAge,       \* staleMs: a lock file older than this may be abandoned
    FaultKinds,     \* what may go wrong: "crash", "stamp" (a failed open or write), "slow"
    MaxFaults       \* bound: how many things go wrong

ASSUME NobodyIsNoProc == Nobody \notin Procs
ASSUME LockLimits     == WaitLimit \in Nat /\ StaleAge \in Nat /\ MaxFaults \in Nat

VARIABLES
    lock,           \* the lock file: creator, whether stamped, age
    pc,             \* where each process is in withStorageLock
    waited,         \* how long it has been waiting
    alive,          \* the processes that run
    faults          \* faults so far

lockVars == <<lock, pc, waited, alive, faults>>

-------------------------------------------------------------------------------
NoLock == [by |-> Nobody, stamped |-> FALSE, age |-> 0]
Trying == {"opening", "checking", "reading", "removing", "waiting"}
LockPoint == Trying \cup {"idle", "stamping", "in"}

Move(p, from, to) == pc[p] = from /\ pc' = [pc EXCEPT ![p] = to]
Fault(kind) == kind \in FaultKinds /\ faults < MaxFaults /\ faults' = faults + 1

\* A process that believes it has the lock, and one whose lock file is still its own.
Holds(p) == pc[p] \in {"stamping", "in"}
Owns(p) == lock.by = p

-------------------------------------------------------------------------------
Ask(p) ==
    /\ p \in alive /\ Move(p, "idle", "opening")
    /\ waited' = [waited EXCEPT ![p] = 0]
    /\ UNCHANGED <<lock, alive, faults>>

\* open(O_CREAT | O_EXCL)
Create(p) ==
    /\ lock = NoLock /\ Move(p, "opening", "stamping")
    /\ lock' = [by |-> p, stamped |-> FALSE, age |-> 0]
    /\ UNCHANGED <<waited, alive, faults>>

Exists(p) ==
    /\ lock # NoLock /\ Move(p, "opening", "checking")
    /\ UNCHANGED <<lock, waited, alive, faults>>

\* The pid goes into the file p has open, which may be unlinked by now.
Stamp(p) ==
    /\ Move(p, "stamping", "in")
    /\ lock' = IF Owns(p) THEN [by |-> p, stamped |-> TRUE, age |-> 0] ELSE lock
    /\ UNCHANGED <<waited, alive, faults>>

\* An error of open or writeFile; the file, if created, stays behind.
AcquireFails(p) ==
    /\ Fault("stamp")
    /\ \E from \in {"opening", "stamping"} : Move(p, from, "idle")
    /\ UNCHANGED <<lock, waited, alive>>

Check_AnyAge(p) ==
    /\ Move(p, "checking", IF lock # NoLock THEN "reading" ELSE "waiting")
    /\ UNCHANGED <<lock, waited, alive, faults>>

\* stat: only an old file is looked into.
Check(p) ==
    /\ Move(p, "checking", IF lock.age > StaleAge THEN "reading" ELSE "waiting")
    /\ UNCHANGED <<lock, waited, alive, faults>>

\* Abandoned unless the file names a live process; a file that is gone or not
\* yet stamped counts as abandoned too.
Abandoned == ~(lock.stamped /\ lock.by \in alive)
Read(p) ==
    /\ Move(p, "reading", IF Abandoned THEN "removing" ELSE "waiting")
    /\ UNCHANGED <<lock, waited, alive, faults>>

\* unlink removes whatever lock file there is now.
Remove(p) ==
    /\ Move(p, "removing", "opening")
    /\ lock' = NoLock
    /\ UNCHANGED <<waited, alive, faults>>

Wait_Forever(p) ==
    /\ Move(p, "waiting", "opening")
    /\ UNCHANGED <<lock, waited, alive, faults>>
Wait(p) ==
    /\ Move(p, "waiting", IF waited[p] >= WaitLimit THEN "idle" ELSE "opening")
    /\ UNCHANGED <<lock, waited, alive, faults>>

\* The finally block: unlink, whoever's the file is.
Release(p) ==
    /\ Move(p, "in", "idle")
    /\ lock' = NoLock
    /\ UNCHANGED <<waited, alive, faults>>

Crash(p) ==
    /\ Fault("crash")
    /\ p \in alive
    /\ alive' = alive \ {p}
    /\ pc' = [pc EXCEPT ![p] = "idle"]
    /\ waited' = [waited EXCEPT ![p] = 0]
    /\ UNCHANGED lock

\* A live process that lets its lock file grow old counts as a fault: staleMs is
\* chosen so that it does not happen.
Tick ==
    /\ IF lock.age = StaleAge /\ \E p \in Procs : Holds(p) /\ Owns(p) THEN Fault("slow") ELSE UNCHANGED faults
    /\ lock' = IF lock = NoLock \/ lock.age > StaleAge THEN lock ELSE [lock EXCEPT !.age = @ + 1]
    /\ waited' = [p \in Procs |-> IF pc[p] \in Trying /\ waited[p] < WaitLimit
                                   THEN waited[p] + 1 ELSE waited[p]]
    /\ UNCHANGED <<pc, alive>>

\* The steps towards the lock, all of them between Ask and the operation.
Acquire(p) ==
    \/ Create(p) \/ Exists(p) \/ Stamp(p) \/ AcquireFails(p)
    \/ Check(p) \/ Read(p) \/ Remove(p) \/ Wait(p)

LockInit ==
    /\ lock = NoLock
    /\ pc = [p \in Procs |-> "idle"]
    /\ waited = [p \in Procs |-> 0]
    /\ alive = Procs
    /\ faults = 0

LockNext ==
    \/ \E p \in Procs : Ask(p) \/ Acquire(p) \/ Release(p) \/ Crash(p)
    \/ Tick

LockSpec == LockInit /\ [][LockNext]_lockVars

\* Node runs a process that is not blocked, and time passes.
FairLockSpec ==
    /\ LockSpec
    /\ \A p \in Procs : WF_lockVars(Acquire(p)) /\ WF_lockVars(Release(p))
    /\ WF_lockVars(Tick)

-------------------------------------------------------------------------------
LockTypeOK ==
    /\ lock \in [by : Procs \cup {Nobody}, stamped : BOOLEAN, age : 0..StaleAge + 1]
    /\ lock.by = Nobody => lock = NoLock
    /\ pc \in [Procs -> LockPoint]
    /\ waited \in [Procs -> 0..WaitLimit]
    /\ alive \subseteq Procs
    /\ \A p \in Procs \ alive : pc[p] = "idle"
    /\ faults \in 0..MaxFaults

\* "Serialize configuration mutations across independent Node processes": no two
\* processes are inside the operation at the same time.
MutualExclusion == \A p, q \in Procs : pc[p] = "in" /\ pc[q] = "in" => p = q

\* A process between its stat and its unlink removes whatever file there is by then; at
\* most one process is there.
SoleTaker == \A p, q \in Procs : {pc[p], pc[q]} \subseteq {"reading", "removing"} => p = q

\* staleMs is chosen so that no live process keeps the lock longer.
HeldIsFresh == \A p \in Procs : Holds(p) /\ Owns(p) => lock.age <= StaleAge

\* The takeover of a stale lock file (history.ts:124) breaks the exclusion only by two
\* processes taking over at once: as long as they do not, and no holder outlasts staleMs, no
\* two are ever inside, whoever crashes with the lock or fails to stamp it, and however often
\* it is taken over.
TakeoverExcludes == [](SoleTaker /\ HeldIsFresh) => []MutualExclusion

\* Every process that asks for the lock gets in or gives up ("lock-timeout"),
\* whoever crashed before.
RequestsEnd == \A p \in Procs : (pc[p] = "opening") ~> (pc[p] \in {"in", "idle"})
===============================================================================
