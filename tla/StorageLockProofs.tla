--------------------------- MODULE StorageLockProofs ---------------------------
(* The lock file, for any number of processes and any limits: its type, and  *)
(* when it excludes.                                                         *)
EXTENDS StorageLock, TLAPS

-------------------------------------------------------------------------------
LEMMA LockInitTypeOK == LockInit => LockTypeOK
  BY LockLimits, NobodyIsNoProc DEF LockInit, LockTypeOK, NoLock, LockPoint, Trying

\* What the steps of one process, and of the clock, do to the lock's state.
LEMMA LockStepTypeOK ==
  ASSUME LockTypeOK,
         \/ \E p \in Procs : Ask(p) \/ Acquire(p) \/ Release(p) \/ Crash(p)
         \/ Tick
         \/ UNCHANGED lockVars
  PROVE  LockTypeOK'
  <1> USE LockLimits, NobodyIsNoProc DEF LockTypeOK, NoLock
  <1>1. ASSUME NEW p \in Procs, Ask(p) PROVE LockTypeOK'
    BY <1>1 DEF Ask, Move, LockPoint, Trying
  <1>2. ASSUME NEW p \in Procs, Acquire(p) PROVE LockTypeOK'
    <2> USE DEF Move, LockPoint, Trying
    <2>1. CASE Create(p)
      <3>1. lock' \in [by : Procs \cup {Nobody}, stamped : BOOLEAN, age : 0..StaleAge + 1]
            /\ lock'.by # Nobody
        BY <2>1 DEF Create
      <3>2. p \in alive
        BY <2>1 DEF Create
      <3>3. pc' \in [Procs -> LockPoint] /\ \A q \in Procs \ alive : pc'[q] = "idle"
        BY <2>1, <3>2 DEF Create
      <3>4. UNCHANGED <<waited, alive, faults>>
        BY <2>1 DEF Create
      <3>5. QED BY <3>1, <3>3, <3>4
    <2>2. CASE Exists(p) BY <2>2 DEF Exists
    <2>3. CASE Stamp(p)
      <3>1. lock' \in [by : Procs \cup {Nobody}, stamped : BOOLEAN, age : 0..StaleAge + 1]
            /\ (lock'.by = Nobody => lock' = NoLock)
        <4>1. CASE Owns(p) BY <2>3, <4>1 DEF Stamp
        <4>2. CASE ~Owns(p) BY <2>3, <4>2 DEF Stamp
        <4>3. QED BY <4>1, <4>2
      <3>2. pc' \in [Procs -> LockPoint] /\ \A q \in Procs \ alive : pc'[q] = "idle"
        BY <2>3 DEF Stamp
      <3>3. UNCHANGED <<waited, alive, faults>>
        BY <2>3 DEF Stamp
      <3>4. QED BY <3>1, <3>2, <3>3
    <2>4. CASE AcquireFails(p) BY <2>4 DEF AcquireFails, Fault
    <2>5. CASE Check(p)  BY <2>5 DEF Check
    <2>6. CASE Read(p)   BY <2>6 DEF Read
    <2>7. CASE Remove(p) BY <2>7 DEF Remove
    <2>8. CASE Wait(p)   BY <2>8 DEF Wait
    <2>9. QED BY <1>2, <2>1, <2>2, <2>3, <2>4, <2>5, <2>6, <2>7, <2>8 DEF Acquire
  <1>3. ASSUME NEW p \in Procs, Release(p) PROVE LockTypeOK'
    BY <1>3 DEF Release, Move, LockPoint
  <1>4. ASSUME NEW p \in Procs, Crash(p) PROVE LockTypeOK'
    BY <1>4 DEF Crash, Fault, LockPoint
  <1>5. CASE Tick
    <2>1. lock' \in [by : Procs \cup {Nobody}, stamped : BOOLEAN, age : 0..StaleAge + 1]
          /\ (lock'.by = Nobody => lock' = NoLock)
      <3>1. CASE lock = NoLock \/ lock.age > StaleAge
        BY <1>5, <3>1 DEF Tick
      <3>2. CASE ~(lock = NoLock \/ lock.age > StaleAge)
        <4>1. lock' = [lock EXCEPT !.age = @ + 1]
          BY <1>5, <3>2 DEF Tick
        <4>2. lock.by # Nobody /\ lock.age + 1 \in 0..StaleAge + 1
          BY <3>2
        <4>3. QED BY <4>1, <4>2
      <3>3. QED BY <3>1, <3>2
    <2>2. waited' \in [Procs -> 0..WaitLimit]
      BY <1>5 DEF Tick
    <2>3. faults' \in 0..MaxFaults
      BY <1>5 DEF Tick, Fault
    <2>4. QED BY <1>5, <2>1, <2>2, <2>3 DEF Tick
  <1>6. CASE UNCHANGED lockVars
    BY <1>6 DEF lockVars
  <1>7. QED BY <1>1, <1>2, <1>3, <1>4, <1>5, <1>6

\* The lock's state is well typed, and a process that is dead is nowhere in it.
THEOREM LockTypeCorrect == LockSpec => []LockTypeOK
  <1>1. LockTypeOK /\ [LockNext]_lockVars => LockTypeOK'
    BY LockStepTypeOK DEF LockNext
  <1>2. QED BY LockInitTypeOK, <1>1, PTL DEF LockSpec

-------------------------------------------------------------------------------
\* A holder's lock file is its own and fresh, and only a stale one is being taken over.
FreshWhileHeld ==
    /\ \A p \in Procs : Holds(p) => Owns(p) /\ lock.age <= StaleAge
    /\ \A p \in Procs : pc[p] \in {"reading", "removing"} => lock.age > StaleAge

LEMMA StepKeepsFresh ==
  LockTypeOK /\ FreshWhileHeld /\ SoleTaker /\ HeldIsFresh' /\ [LockNext]_lockVars => FreshWhileHeld'
  <1> SUFFICES ASSUME LockTypeOK, FreshWhileHeld, SoleTaker, HeldIsFresh', [LockNext]_lockVars
               PROVE  FreshWhileHeld'
    OBVIOUS
  <1> USE LockLimits, NobodyIsNoProc DEF FreshWhileHeld, LockTypeOK, Holds, Owns, NoLock
  <1>1. ASSUME NEW p \in Procs, Ask(p) PROVE FreshWhileHeld'
    BY <1>1 DEF Ask, Move
  <1>2. ASSUME NEW p \in Procs, Acquire(p) PROVE FreshWhileHeld'
    <2> USE DEF Move
    <2>1. CASE Create(p)       BY <2>1 DEF Create
    <2>2. CASE Exists(p)       BY <2>2 DEF Exists
    <2>3. CASE Stamp(p)        BY <2>3 DEF Stamp
    <2>4. CASE AcquireFails(p) BY <2>4 DEF AcquireFails
    <2>5. CASE Check(p)
      <3>1. CASE lock.age > StaleAge BY <2>5, <3>1 DEF Check
      <3>2. CASE ~(lock.age > StaleAge) BY <2>5, <3>2 DEF Check
      <3>3. QED BY <3>1, <3>2
    <2>6. CASE Read(p)         BY <2>6 DEF Read
    <2>7. CASE Remove(p)
      <3>1. \A q \in Procs : ~Holds(q)
        BY <2>7 DEF Remove
      <3>2. \A q \in Procs \ {p} : pc[q] \notin {"reading", "removing"}
        BY <2>7 DEF Remove, SoleTaker
      <3>3. QED BY <2>7, <3>1, <3>2 DEF Remove
    <2>8. CASE Wait(p)         BY <2>8 DEF Wait
    <2>9. QED BY <1>2, <2>1, <2>2, <2>3, <2>4, <2>5, <2>6, <2>7, <2>8 DEF Acquire
  <1>3. ASSUME NEW p \in Procs, Release(p) PROVE FreshWhileHeld'
    <2>1. \A q \in Procs \ {p} : ~Holds(q)
      BY <1>3 DEF Release, Move
    <2>2. \A q \in Procs : pc[q] \notin {"reading", "removing"}
      BY <1>3 DEF Release, Move
    <2>3. QED BY <1>3, <2>1, <2>2 DEF Release, Move
  <1>4. ASSUME NEW p \in Procs, Crash(p) PROVE FreshWhileHeld'
    BY <1>4 DEF Crash
  <1>5. CASE Tick
    <2>1. UNCHANGED pc /\ lock.age \in Nat
      BY <1>5 DEF Tick
    <2>2. CASE lock = NoLock \/ lock.age > StaleAge
      BY <1>5, <2>1, <2>2 DEF Tick
    <2>3. CASE ~(lock = NoLock \/ lock.age > StaleAge)
      <3>1. lock' = [lock EXCEPT !.age = @ + 1]
        BY <1>5, <2>3 DEF Tick
      <3>2. lock'.by = lock.by /\ lock'.age = lock.age + 1
        BY <3>1
      <3>3. (\E q \in Procs : Holds(q) /\ Owns(q)) => lock'.age <= StaleAge
        BY <2>1, <3>2 DEF HeldIsFresh
      <3>4. QED BY <2>1, <2>3, <3>2, <3>3
    <2>4. QED BY <2>2, <2>3
  <1>6. CASE UNCHANGED lockVars
    BY <1>6 DEF lockVars
  <1>7. QED BY <1>1, <1>2, <1>3, <1>4, <1>5, <1>6 DEF LockNext

\* The takeover of a stale lock file breaks the exclusion only where two processes take over
\* at once or a holder outlasts staleMs, whichever processes crash or fail to stamp their file and however many stale
\* files are taken over (history.ts:124; "Serialize configuration mutations", history.ts:80).
THEOREM SoleTakerExcludes == LockSpec => TakeoverExcludes
  <1>1. LockInit => FreshWhileHeld
    BY LockLimits DEF LockInit, FreshWhileHeld, Holds, NoLock
  <1>2. FreshWhileHeld => MutualExclusion
    BY DEF FreshWhileHeld, MutualExclusion, Holds, Owns
  <1>3. QED BY LockTypeCorrect, StepKeepsFresh, <1>1, <1>2, PTL DEF LockSpec, TakeoverExcludes
===============================================================================
