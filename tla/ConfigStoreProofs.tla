---------------------------- MODULE ConfigStoreProofs ---------------------------
(* The configuration store, for any number of processes, configurations,     *)
(* generations, faults and damages.                                          *)
EXTENDS ConfigStore, StorageLockProofs, FiniteSetTheorems

-------------------------------------------------------------------------------
(* The store moves the lock only as StorageLock says, so what is proved of   *)
(* the lock holds under the store.                                           *)

LEMMA StepIsLockStep == [StoreNext]_configVars => [LockNext]_lockVars
  <1> SUFFICES ASSUME [StoreNext]_configVars PROVE [LockNext]_lockVars
    OBVIOUS
  <1>1. ASSUME NEW p \in Procs, Asks(p) PROVE Ask(p)
    BY <1>1 DEF Asks, Begin
  <1>2. ASSUME NEW p \in Procs, Approach(p) PROVE Acquire(p)
    BY <1>2 DEF Approach
  <1>3. ASSUME NEW p \in Procs, Changes(p) PROVE UNCHANGED lockVars
    BY <1>3 DEF Changes, ReadToWrite, ReadToRestore, ReadToRecover, HasRead, Number, Keep, Activate,
                Prune, PruneEnds, Stops
  <1>4. ASSUME NEW p \in Procs, Leave(p) PROVE Release(p)
    BY <1>4 DEF Leave
  <1>5. ASSUME NEW p \in Procs, Dies(p) PROVE Crash(p)
    BY <1>5 DEF Dies
  <1>6. ASSUME NEW g \in Gens, DamageSnapshot(g) PROVE UNCHANGED lockVars
    BY <1>6 DEF DamageSnapshot
  <1>7. DamageActive => UNCHANGED lockVars
    BY DEF DamageActive
  <1>8. TimePasses => Tick
    BY DEF TimePasses
  <1>9. UNCHANGED configVars => UNCHANGED lockVars
    BY DEF configVars
  <1>10. QED BY <1>1, <1>2, <1>3, <1>4, <1>5, <1>6, <1>7, <1>8, <1>9 DEF StoreNext, LockNext

\* Every operation of the store takes and leaves the lock by the protocol of
\* withStorageLock, and nothing else touches the lock file.
THEOREM StoreUsesLock == StoreSpec => LockSpec
  <1>1. StoreInit => LockInit
    BY DEF StoreInit
  <1>2. QED BY <1>1, StepIsLockStep, PTL DEF StoreSpec, LockSpec

-------------------------------------------------------------------------------
LEMMA StoreInitTypeOK == StoreInit => StoreTypeOK
  <1> SUFFICES ASSUME StoreInit PROVE StoreTypeOK
    OBVIOUS
  <1>1. LockTypeOK
    BY LockInitTypeOK DEF StoreInit
  <1>2. NoOp \in OpRow
    BY DEF NoOp, OpRow, Missing, StoredValue, OpKind
  <1>3. QED BY <1>1, <1>2, ConfigLimits DEF StoreInit, StoreTypeOK, StoredValue, Missing

\* A step that touches only the row of one process leaves a well-typed table, if
\* the new row is well typed.
LEMMA RowTypeOK ==
  ASSUME op \in [Procs -> OpRow], NEW p \in Procs, NEW r \in OpRow, op' = [op EXCEPT ![p] = r]
  PROVE  op' \in [Procs -> OpRow]
  OBVIOUS

LEMMA NoOpType ==
  /\ NoOp \in OpRow
  /\ \A k \in OpKind \cup {"none"}, s \in {"prune", "done"} : [NoOp EXCEPT !.kind = k, !.step = s] \in OpRow
  BY DEF NoOp, OpRow, Missing, StoredValue, OpKind

LEMMA StoreStepTypeOK == StoreTypeOK /\ [StoreNext]_configVars => StoreTypeOK'
  <1> SUFFICES ASSUME StoreTypeOK, [StoreNext]_configVars PROVE StoreTypeOK'
    OBVIOUS
  <1> USE ConfigLimits, ConfigValues
  <1>0. LockTypeOK'
    BY StepIsLockStep, LockStepTypeOK DEF StoreTypeOK, LockNext
  <1> DEFINE Files == /\ active \in StoredValue
                      /\ history \in [Gens -> Configs \cup {NoConfig, Unreadable}]
                      /\ log \in [Gens -> Configs \cup {NoConfig}]
                      /\ lost \in 0..MaxLost /\ spoiled \in 0..MaxSpoiled
             Ops == op \in [Procs -> OpRow]
  <1>a. Files /\ Ops
    BY DEF StoreTypeOK
  <1>b. Files' /\ Ops' => StoreTypeOK'
    BY <1>0 DEF StoreTypeOK
  <1>c. UNCHANGED <<active, history, log, lost, spoiled>> => Files'
    BY <1>a
  <1>1. ASSUME NEW p \in Procs, Asks(p) PROVE Files' /\ Ops'
    <2>1. ASSUME NEW kind \in OpKind, NEW e \in Gens \cup {0, AnyGen}, NEW c \in Configs \cup {NoConfig},
                 NEW t \in Gens \cup {0}, Begin(p, kind, e, c, t)
          PROVE  Files' /\ Ops'
      <3> DEFINE r == [NoOp EXCEPT !.kind = kind, !.step = "read", !.expected = e, !.config = c, !.target = t]
      <3>1. r \in OpRow
        BY DEF NoOp, OpRow, Missing, StoredValue, OpKind
      <3>2. op' = [op EXCEPT ![p] = r]
        BY <2>1 DEF Begin
      <3> HIDE DEF r
      <3>3. Ops'
        BY <1>a, <3>1, <3>2
      <3>4. QED BY <1>c, <2>1, <3>3 DEF Begin
    <2>2. active.gen \in Gens \cup {0}
      BY <1>a DEF StoredValue
    <2>3. QED BY <1>1, <2>1, <2>2 DEF Asks, OpKind, Readable
  <1>2. ASSUME NEW p \in Procs, Approach(p) PROVE Files' /\ Ops'
    BY <1>a, <1>c, <1>2, NoOpType DEF Approach, Refused
  <1>3. ASSUME NEW p \in Procs, Changes(p) PROVE Files' /\ Ops'
    <2>0. op[p] \in OpRow
      BY <1>a
    <2>1. ASSUME NEW c \in Configs \cup {NoConfig}, NEW t \in Gens \cup {0}, HasRead(p, c, t)
          PROVE  Files' /\ Ops'
      <3> DEFINE r == [op[p] EXCEPT !.step = "number", !.base = active, !.config = c, !.target = t]
      <3>1. r \in OpRow
        BY <1>a, <2>0 DEF OpRow
      <3>2. op' = [op EXCEPT ![p] = r]
        BY <1>a, <2>1 DEF HasRead
      <3> HIDE DEF r
      <3>3. Ops'
        BY <1>a, <3>1, <3>2
      <3>4. QED BY <1>c, <2>1, <3>3 DEF HasRead
    <2>2. ASSUME ReadToWrite(p) PROVE Files' /\ Ops'
      BY <2>0, <2>1, <2>2 DEF ReadToWrite, OpRow
    <2>3. ASSUME ReadToRestore(p) PROVE Files' /\ Ops'
      BY <2>0, <2>1, <2>3 DEF ReadToRestore, OpRow, Readable
    <2>4. ASSUME NEW g \in Gens, ReadToRecover(p, g) PROVE Files' /\ Ops'
      BY <2>0, <2>1, <2>4 DEF ReadToRecover, OpRow, Newest, Readable
    <2>5. ASSUME NEW m \in 0..MaxGen, Number(p, m) PROVE Files' /\ Ops'
      <3> DEFINE s == IF op[p].base.kind = "valid" THEN "keep" ELSE "activate"
                 r == [op[p] EXCEPT !.gen = m + Skip(p), !.step = s]
      <3>1. m + Skip(p) \in Gens
        BY <2>5 DEF Number, Skip, Gens
      <3>2. r \in OpRow
        BY <2>0, <3>1 DEF OpRow
      <3>3. op' = [op EXCEPT ![p] = r]
        BY <1>a, <2>5 DEF Number
      <3> HIDE DEF r
      <3>4. Ops'
        BY <1>a, <3>2, <3>3
      <3>5. QED BY <1>c, <2>5, <3>4 DEF Number
    <2>6. ASSUME Keep(p) PROVE Files' /\ Ops'
      <3> DEFINE r == [op[p] EXCEPT !.step = "activate"]
      <3>1. r \in OpRow
        BY <2>0 DEF OpRow
      <3>2. op' = [op EXCEPT ![p] = r]
        BY <1>a, <2>6 DEF Keep, StepTo
      <3> HIDE DEF r
      <3>3. Ops'
        BY <1>a, <3>1, <3>2
      <3>4. op[p].base.config \in Configs \cup {NoConfig}
        BY <2>0 DEF OpRow, StoredValue
      <3>5. QED BY <1>a, <2>6, <3>3, <3>4 DEF Keep
    <2>7. ASSUME NEW s \in {"prune", "done"}, EndAt(p, s) PROVE Ops'
      <3> DEFINE r == [NoOp EXCEPT !.kind = op[p].kind, !.step = s]
      <3>1. r \in OpRow
        BY <2>0, NoOpType DEF OpRow
      <3>2. op' = [op EXCEPT ![p] = r]
        BY <2>7 DEF EndAt
      <3> HIDE DEF r
      <3>3. QED BY <1>a, <3>1, <3>2
    <2>8. ASSUME Activate(p) PROVE Files' /\ Ops'
      <3>1. Ops'
        BY <2>7, <2>8 DEF Activate
      <3>2. active' \in StoredValue
        BY <2>0, <2>8 DEF Activate, Valid, OpRow, StoredValue
      <3>3. QED BY <1>a, <2>0, <2>8, <3>1, <3>2 DEF Activate, OpRow
    <2>9. ASSUME NEW g \in Gens, Prune(p, g) PROVE Files' /\ Ops'
      BY <1>a, <2>9 DEF Prune
    <2>10. ASSUME PruneEnds(p) \/ Stops(p) PROVE Files' /\ Ops'
      BY <1>c, <2>7, <2>10 DEF PruneEnds, Stops
    <2>11. QED BY <1>3, <2>2, <2>3, <2>4, <2>5, <2>6, <2>8, <2>9, <2>10 DEF Changes
  <1>4. ASSUME NEW p \in Procs, Leave(p) \/ Dies(p) PROVE Files' /\ Ops'
    BY <1>a, <1>c, <1>4, NoOpType DEF Leave, Dies
  <1>5. ASSUME NEW g \in Gens, DamageSnapshot(g) PROVE Files' /\ Ops'
    BY <1>a, <1>5 DEF DamageSnapshot
  <1>6. ASSUME DamageActive PROVE Files' /\ Ops'
    BY <1>a, <1>6 DEF DamageActive, Invalid, StoredValue
  <1>7. ASSUME TimePasses \/ UNCHANGED configVars PROVE Files' /\ Ops'
    BY <1>a, <1>c, <1>7 DEF TimePasses, configVars, storeVars
  <1>8. QED BY <1>b, <1>1, <1>2, <1>3, <1>4, <1>5, <1>6, <1>7 DEF StoreNext

\* The files of the store, its lock and the changes under way are well typed: no
\* generation beyond the last one, and the one recovery may skip to, is ever written.
THEOREM StoreTypeCorrect == StoreSpec => []StoreTypeOK
  BY StoreInitTypeOK, StoreStepTypeOK, PTL DEF StoreSpec

-------------------------------------------------------------------------------
(* What holds while at most one process is inside the lock and the disk      *)
(* damages the active file or snapshots, but not both.                       *)

Locked == {"number", "keep", "activate", "prune", "done"}
Begun == {"number", "keep", "activate"}
Latest(n) == \A g \in Gens : log[g] # NoConfig => g <= n

\* The files against the history variable.
FilesOK ==
    /\ active.kind = "valid" => /\ active.gen \in Gens /\ active.config \in Configs
                               /\ log[active.gen] = active.config /\ Latest(active.gen)
    /\ active.kind = "missing" => active = Missing /\ Latest(0)
    /\ active.kind = "invalid" => active = Invalid
    /\ \A g \in Readable : log[g] = history[g]

\* An unusable active file has been damaged, and then no snapshot has.
DiskOK ==
    /\ active.kind = "invalid" => lost > 0
    /\ lost > 0 => spoiled = 0
    /\ spoiled = 0 => \A g \in Gens : history[g] # Unreadable

\* No generation is more than two beyond the newest snapshot, and the one that is
\* two beyond it was a recovery of it.
Replacing == \E g, h \in Gens : g # h /\ log[g] # NoConfig /\ log[h] # NoConfig
NearOK ==
    /\ spoiled = 0 => \A h \in Gens : Newest(h) => Latest(h + 2) /\ (h + 2 \in Gens => log[h + 2] \in {NoConfig, log[h]})
    /\ Replacing => Kept # {}

\* What a change asks for, what it has read, and what it will write.
AsksOK(r) ==
    r.step = "read" => /\ r.kind \in {"initialize", "update", "recover"} => r.expected = AnyGen
                       /\ r.kind \in {"initialize", "save", "update"} => r.config \in Configs
ReadOK(r) ==
    r.step \in Begun =>
        /\ r.base = active \/ active = Invalid
        /\ r.expected \in {AnyGen, r.base.gen}
        /\ r.config \in Configs
        /\ r.base.kind = "invalid" <=> r.kind = "recover"
        /\ r.kind = "recover" => r.base = Invalid /\ Newest(r.target) /\ r.config = history[r.target]
        /\ r.kind # "recover" => Latest(r.base.gen)
        /\ r.base.kind = "missing" => r.base = Missing
        /\ r.base.kind = "valid" => /\ r.base.gen \in Gens /\ r.base.config \in Configs
                                   /\ log[r.base.gen] = r.base.config
WriteOK(r) ==
    /\ r.step \in {"keep", "activate"} =>
          /\ r.gen \in Gens
          /\ r.gen = IF r.kind = "recover" THEN r.target + 2 ELSE r.base.gen + 1
    /\ r.step = "keep" => r.base.kind = "valid"
    /\ r.step = "activate" /\ r.base.kind = "valid" => history[r.base.gen] \in {r.base.config, Unreadable}

InsideOK(p) == op[p].step \in Locked => pc[p] = "in"

RowOK(p) == InsideOK(p) /\ AsksOK(op[p]) /\ ReadOK(op[p]) /\ WriteOK(op[p])

StoreInv ==
    /\ StoreTypeOK /\ FilesOK /\ DiskOK /\ NearOK
    /\ \A p \in Procs : RowOK(p)

files == <<active, history, log, lost, spoiled>>

-------------------------------------------------------------------------------
LEMMA StoreInitInv == StoreInit => StoreInv
  <1> SUFFICES ASSUME StoreInit PROVE StoreInv
    OBVIOUS
  <1>1. StoreTypeOK
    BY StoreInitTypeOK
  <1>2. FilesOK /\ DiskOK /\ NearOK
    BY ConfigValues DEF StoreInit, FilesOK, DiskOK, NearOK, Replacing, Kept, Newest, Readable, Missing, Latest
  <1>3. ASSUME NEW p \in Procs PROVE RowOK(p)
    BY DEF StoreInit, RowOK, InsideOK, AsksOK, ReadOK, WriteOK, NoOp, Locked, Begun
  <1>4. QED BY <1>1, <1>2, <1>3 DEF StoreInv

\* What is said of the files does not change when they do not.
LEMMA SameFiles ==
  ASSUME UNCHANGED files
  PROVE  /\ FilesOK => FilesOK'
         /\ DiskOK => DiskOK'
         /\ NearOK => NearOK'
         /\ \A r : ReadOK(r) /\ WriteOK(r) => ReadOK(r)' /\ WriteOK(r)'
  BY DEF files, FilesOK, DiskOK, NearOK, Replacing, Kept, ReadOK, WriteOK, Latest, Newest, Readable

\* Nor does what is said of a process that does not move.
LEMMA SameRow ==
  ASSUME NEW q \in Procs, RowOK(q), op'[q] = op[q], pc'[q] = pc[q], UNCHANGED files
  PROVE  RowOK(q)'
  BY SameFiles DEF RowOK, InsideOK, AsksOK

\* A process that is not past reading does not depend on the files.
LEMMA EarlyRow ==
  ASSUME NEW q \in Procs, AsksOK(op[q]), op'[q] = op[q], op[q].step \notin Locked
  PROVE  RowOK(q)'
  BY DEF RowOK, InsideOK, AsksOK, ReadOK, WriteOK, Locked, Begun

\* A process that is idle, pruning or done has nothing to keep.
LEMMA EndedRow ==
  ASSUME NEW q \in Procs, op'[q].step \in {"none", "prune", "done"}, op'[q].step = "none" \/ pc'[q] = "in"
  PROVE  RowOK(q)'
  BY DEF RowOK, InsideOK, AsksOK, ReadOK, WriteOK, Locked, Begun

\* While one process is inside, no other depends on the files.
LEMMA OneInside ==
  ASSUME StoreInv, MutualExclusion, NEW p \in Procs, NEW q \in Procs \ {p},
         pc[p] = "in", op'[q] = op[q]
  PROVE  RowOK(q)'
  <1>1. op[q].step \notin Locked
    BY DEF StoreInv, RowOK, InsideOK, MutualExclusion
  <1>2. QED BY <1>1, EarlyRow DEF StoreInv, RowOK

\* The generations with a snapshot have been used.
LEMMA SnapshotsAreUsed ==
  ASSUME FilesOK
  PROVE  \A g \in Readable : g \in Gens /\ log[g] # NoConfig /\ log[g] = history[g] /\ log[g] \in Configs
  BY ConfigValues DEF FilesOK, Readable

-------------------------------------------------------------------------------
(* The invariant, step by step.  Every lemma leaves the types to             *)
(* StoreStepTypeOK.                                                          *)
Calmly == FilesOK' /\ DiskOK' /\ NearOK' /\ \A q \in Procs : RowOK(q)'

\* Steps outside the operation: the files stay, and the process has nothing to keep
\* but what it asks for.
LEMMA OutsideCalmly ==
  ASSUME StoreInv, NEW p \in Procs, Asks(p) \/ Approach(p) \/ Leave(p) \/ Dies(p)
  PROVE  Calmly
  <1>1. UNCHANGED files
    BY DEF Asks, Begin, Approach, Leave, Dies, files
  <1>2. op \in [Procs -> OpRow] /\ pc \in [Procs -> LockPoint]
    BY DEF StoreInv, StoreTypeOK, LockTypeOK
  <1>3. ASSUME NEW q \in Procs \ {p} PROVE RowOK(q)'
    <2>1. op'[q] = op[q] /\ pc'[q] = pc[q]
      BY <1>2 DEF Asks, Begin, Ask, Approach, Acquire, Create, Exists, Stamp, AcquireFails, Check, Read,
                  Remove, Wait, Refused, Leave, Release, Dies, Crash, Move
    <2>2. QED BY <1>1, <2>1, SameRow DEF StoreInv
  <1>4. RowOK(p)'
    <2>1. ASSUME Asks(p) PROVE RowOK(p)'
      <3>1. op'[p].step = "read" /\ AsksOK(op[p])'
        <4>1. ASSUME NEW kind, NEW e, NEW c, NEW t, Begin(p, kind, e, c, t)
              PROVE  /\ op'[p].step = "read" /\ op'[p].kind = kind
                     /\ op'[p].expected = e /\ op'[p].config = c
          BY <1>2, <4>1 DEF Begin, NoOp
        <4>2. QED BY <2>1, <4>1 DEF Asks, AsksOK
      <3>2. QED BY <3>1 DEF RowOK, InsideOK, ReadOK, WriteOK, Locked, Begun
    <2>2. ASSUME Approach(p) PROVE RowOK(p)'
      <3>1. pc[p] # "in"
        BY <2>2 DEF Approach, Acquire, Create, Exists, Stamp, AcquireFails, Check, Read, Remove, Wait, Move
      <3>2. op[p].step \notin Locked /\ AsksOK(op[p])
        BY <3>1 DEF StoreInv, RowOK, InsideOK
      <3>3. op'[p] = op[p] \/ op'[p] = NoOp
        BY <1>2, <2>2 DEF Approach, Refused
      <3>4. CASE op'[p] = op[p]
        BY <3>2, <3>4, EarlyRow
      <3>5. CASE op'[p] = NoOp
        BY <3>5, EndedRow DEF NoOp
      <3>6. QED BY <3>3, <3>4, <3>5
    <2>3. ASSUME Leave(p) \/ Dies(p) PROVE RowOK(p)'
      <3>1. op'[p] = NoOp
        BY <1>2, <2>3 DEF Leave, Dies
      <3>2. QED BY <3>1, EndedRow DEF NoOp
    <2>4. QED BY <2>1, <2>2, <2>3
  <1>5. FilesOK' /\ DiskOK' /\ NearOK'
    BY <1>1, SameFiles DEF StoreInv
  <1>6. QED BY <1>3, <1>4, <1>5 DEF Calmly

\* A change has read what it builds on.
LEMMA ReadCalmly ==
  ASSUME StoreInv, MutualExclusion, NEW p \in Procs,
         ReadToWrite(p) \/ ReadToRestore(p) \/ \E g \in Gens : ReadToRecover(p, g)
  PROVE  Calmly
  <1>1. op \in [Procs -> OpRow] /\ active \in StoredValue
    BY DEF StoreInv, StoreTypeOK
  <1>2. pc[p] = "in" /\ UNCHANGED <<pc, active, history, log, lost, spoiled>> /\ op[p].step = "read"
    BY DEF ReadToWrite, ReadToRestore, ReadToRecover, HasRead, At, lockVars
  <1>3. ASSUME NEW q \in Procs \ {p} PROVE RowOK(q)'
    <2>1. op'[q] = op[q]
      BY <1>1 DEF ReadToWrite, ReadToRestore, ReadToRecover, HasRead
    <2>2. QED BY <1>2, <2>1, OneInside
  <1>4. ASSUME NEW c, NEW t, HasRead(p, c, t)
        PROVE  /\ op'[p].step = "number" /\ op'[p].base = active
               /\ op'[p].config = c /\ op'[p].target = t
               /\ op'[p].kind = op[p].kind /\ op'[p].expected = op[p].expected
    <2>1. op[p] \in OpRow
      BY <1>1
    <2>2. op'[p] = [op[p] EXCEPT !.step = "number", !.base = active, !.config = c, !.target = t]
      BY <1>1, <1>4 DEF HasRead
    <2>3. QED BY <2>1, <2>2 DEF OpRow
  <1>5. AsksOK(op[p]) /\ FilesOK
    BY DEF StoreInv, RowOK
  <1>6. op[p].kind \in OpKind \cup {"none"}
    BY <1>1 DEF OpRow
  <1> DEFINE Based == /\ active.kind = "valid" => Latest(active.gen) /\ active.gen \in Gens
                            /\ active.config \in Configs /\ log[active.gen] = active.config
                      /\ active.kind = "missing" => active = Missing /\ Latest(active.gen)
  <1>7. Based
    BY <1>5 DEF FilesOK, Missing
  <1>8. ASSUME ReadToWrite(p) PROVE RowOK(p)'
    <2>1. HasRead(p, op[p].config, 0) /\ active.kind \in {"missing", "valid"}
      BY <1>1, <1>8 DEF ReadToWrite, StoredValue
    <2>2. op[p].kind \in {"initialize", "save", "update"}
      BY <1>8 DEF ReadToWrite
    <2>3. op[p].expected \in {AnyGen, active.gen}
      BY <1>2, <1>5, <1>8, <2>2 DEF ReadToWrite, ExpectedMatches, AsksOK
    <2>4. op[p].config \in Configs
      BY <1>2, <1>5, <2>2 DEF AsksOK
    <2>5. QED BY <1>2, <1>4, <1>7, <2>1, <2>2, <2>3, <2>4
              DEF RowOK, InsideOK, AsksOK, ReadOK, WriteOK, Begun, Latest
  <1>9. ASSUME ReadToRestore(p) PROVE RowOK(p)'
    <2>1. HasRead(p, history[op[p].target], 0) /\ active.kind = "valid" /\ op[p].kind = "restore"
          /\ op[p].expected \in {AnyGen, active.gen} /\ history[op[p].target] \in Configs
      BY <1>9 DEF ReadToRestore, ExpectedMatches, Readable
    <2>2. QED BY <1>2, <1>4, <1>7, <2>1 DEF RowOK, InsideOK, AsksOK, ReadOK, WriteOK, Begun, Latest
  <1>10. ASSUME NEW g \in Gens, ReadToRecover(p, g) PROVE RowOK(p)'
    <2>1. HasRead(p, history[g], g) /\ active = Invalid /\ op[p].kind = "recover" /\ Newest(g)
          /\ history[g] \in Configs
      BY <1>5, <1>10 DEF ReadToRecover, Newest, Readable, FilesOK
    <2>2. op[p].expected = AnyGen
      BY <1>2, <1>5, <2>1 DEF AsksOK
    <2>3. Newest(g)'
      BY <1>2, <2>1 DEF Newest, Readable
    <2>4. QED BY <1>2, <1>4, <2>1, <2>2, <2>3 DEF RowOK, InsideOK, AsksOK, ReadOK, WriteOK, Begun, Invalid
  <1>11. RowOK(p)'
    BY <1>8, <1>9, <1>10
  <1>12. FilesOK' /\ DiskOK' /\ NearOK'
    BY <1>2, SameFiles DEF StoreInv, files
  <1>13. QED BY <1>3, <1>11, <1>12 DEF Calmly

\* A change numbers itself: one beyond what it replaces, or two beyond the snapshot
\* it recovers from.
LEMMA NumberCalmly ==
  ASSUME StoreInv, MutualExclusion, NEW p \in Procs, NEW m \in 0..MaxGen, Number(p, m)
  PROVE  Calmly
  <1>1. op \in [Procs -> OpRow]
    BY DEF StoreInv, StoreTypeOK
  <1>2. pc[p] = "in" /\ UNCHANGED <<pc, active, history, log, lost, spoiled>> /\ op[p].step = "number"
    BY DEF Number, At, lockVars
  <1>3. ASSUME NEW q \in Procs \ {p} PROVE RowOK(q)'
    <2>1. op'[q] = op[q]
      BY <1>1 DEF Number
    <2>2. QED BY <1>2, <2>1, OneInside
  <1>4. /\ op'[p].gen = m + Skip(p)
        /\ op'[p].step = IF op[p].base.kind = "valid" THEN "keep" ELSE "activate"
        /\ op'[p].base = op[p].base /\ op'[p].config = op[p].config /\ op'[p].target = op[p].target
        /\ op'[p].kind = op[p].kind /\ op'[p].expected = op[p].expected
    <2>1. op[p] \in OpRow
      BY <1>1
    <2>2. op'[p] = [op[p] EXCEPT !.gen = m + Skip(p),
                                 !.step = IF op[p].base.kind = "valid" THEN "keep" ELSE "activate"]
      BY <1>1 DEF Number
    <2>3. QED BY <2>1, <2>2 DEF OpRow
  <1>5. ReadOK(op[p]) /\ FilesOK
    BY DEF StoreInv, RowOK
  <1>6. m \in Numbers(p) /\ (\A n \in Numbers(p) : n <= m) /\ m < MaxGen
    BY DEF Number
  <1>7. m = IF op[p].kind = "recover" THEN op[p].target ELSE op[p].base.gen
    <2>1. CASE op[p].kind = "recover"
      <3>1. op[p].base = Invalid /\ Newest(op[p].target)
        BY <1>2, <1>5, <2>1 DEF ReadOK, Begun
      <3>2. op[p].target \in Gens /\ \A n \in Readable : n <= op[p].target
        BY <3>1 DEF Newest, Readable
      <3>3. \A n \in Numbers(p) : n <= op[p].target
        BY <2>1, <3>1, <3>2 DEF Numbers, Invalid, Gens
      <3>4. op[p].target \in Numbers(p) /\ Numbers(p) \subseteq Nat
        BY <2>1, <3>1, <3>2 DEF Numbers, Invalid, Readable, Gens
      <3>5. QED BY <1>6, <2>1, <3>3, <3>4
    <2>2. CASE op[p].kind # "recover"
      <3>1. Latest(op[p].base.gen) /\ op[p].base.gen \in Nat
        BY <1>1, <1>2, <1>5, <2>2 DEF ReadOK, Begun, OpRow, StoredValue, Gens
      <3>2. \A n \in Readable : n <= op[p].base.gen /\ n \in Nat
        BY <1>5, <3>1, SnapshotsAreUsed DEF Latest, Gens
      <3>3. op[p].base.gen \in Numbers(p) /\ \A n \in Numbers(p) : n <= op[p].base.gen /\ n \in Nat
        BY <2>2, <3>1, <3>2 DEF Numbers
      <3>4. op[p].base.gen <= m /\ m <= op[p].base.gen /\ m \in Nat
        BY <1>6, <3>3
      <3>5. QED BY <2>2, <3>1, <3>4
    <2>3. QED BY <2>1, <2>2
  <1>8. RowOK(p)'
    <2>1. ReadOK(op[p])'
      <3>1. op'[p].step \in Begun /\ op[p].step \in Begun
        BY <1>2, <1>4 DEF Begun
      <3>2. op[p].kind = "recover" => (Newest(op[p].target) <=> Newest(op[p].target)')
        BY <1>2, <1>4 DEF Newest, Readable
      <3>3. QED BY <1>2, <1>4, <1>5, <3>1, <3>2 DEF ReadOK, Latest
    <2>2. op'[p].gen \in Gens
      BY <1>4, <1>6, ConfigLimits DEF Skip, Gens
    <2>3. op'[p].gen = IF op[p].kind = "recover" THEN op[p].target + 2 ELSE op[p].base.gen + 1
      BY <1>4, <1>7 DEF Skip
    <2>4. WriteOK(op[p])'
      BY <1>4, <2>2, <2>3 DEF WriteOK
    <2>5. QED BY <1>2, <1>4, <2>1, <2>4 DEF RowOK, InsideOK, AsksOK
  <1>9. FilesOK' /\ DiskOK' /\ NearOK'
    BY <1>2, SameFiles DEF StoreInv, files
  <1>10. QED BY <1>3, <1>8, <1>9 DEF Calmly

\* The snapshot of what a change replaces becomes the newest one.
LEMMA KeepCalmly ==
  ASSUME StoreInv, MutualExclusion, NEW p \in Procs, Keep(p)
  PROVE  Calmly
  <1>1. op \in [Procs -> OpRow] /\ history \in [Gens -> Configs \cup {NoConfig, Unreadable}]
    BY DEF StoreInv, StoreTypeOK
  <1>2. pc[p] = "in" /\ UNCHANGED <<pc, active, log, lost, spoiled>> /\ op[p].step = "keep"
    BY DEF Keep, At, lockVars
  <1>3. ASSUME NEW q \in Procs \ {p} PROVE RowOK(q)'
    <2>1. op'[q] = op[q]
      BY <1>1 DEF Keep, StepTo
    <2>2. QED BY <1>2, <2>1, OneInside
  <1>4. /\ op'[p].gen = op[p].gen /\ op'[p].step = "activate"
        /\ op'[p].base = op[p].base /\ op'[p].config = op[p].config /\ op'[p].target = op[p].target
        /\ op'[p].kind = op[p].kind /\ op'[p].expected = op[p].expected
    <2>1. op[p] \in OpRow
      BY <1>1
    <2>2. op'[p] = [op[p] EXCEPT !.step = "activate"]
      BY <1>1 DEF Keep, StepTo
    <2>3. QED BY <2>1, <2>2 DEF OpRow
  <1>b. PICK b : b = op[p].base.gen
    OBVIOUS
  <1>c. PICK c : c = op[p].base.config
    OBVIOUS
  <1>5. ReadOK(op[p]) /\ WriteOK(op[p]) /\ FilesOK
    BY DEF StoreInv, RowOK
  <1>6. /\ b \in Gens /\ c \in Configs /\ log[b] = c /\ Latest(b)
        /\ op[p].base.kind = "valid" /\ op[p].kind # "recover"
    BY <1>b, <1>c, <1>2, <1>5 DEF ReadOK, WriteOK, Begun
  <1>7. history' = [history EXCEPT ![b] = c]
    BY <1>b, <1>c DEF Keep
  <1>8. history'[b] = c /\ \A g \in Gens \ {b} : history'[g] = history[g]
    BY <1>1, <1>6, <1>7
  <1>9. FilesOK'
    BY <1>2, <1>5, <1>6, <1>8 DEF FilesOK, Latest, Readable
  <1>d. DiskOK'
    BY <1>2, <1>6, <1>8, ConfigValues DEF StoreInv, DiskOK
  <1>10. b \in Readable'
    BY <1>6, <1>8 DEF Readable
  <1>11. \A h \in Gens : Newest(h)' => h = b
    <2>1. ASSUME NEW h \in Gens, Newest(h)' PROVE h = b
      <3>1. b <= h
        BY <1>10, <2>1 DEF Newest
      <3>2. history'[h] \in Configs
        BY <2>1 DEF Newest, Readable
      <3>3. log[h] # NoConfig
        BY <1>2, <1>9, <3>2, ConfigValues DEF FilesOK, Readable
      <3>4. h <= b
        BY <1>6, <3>3 DEF Latest
      <3>5. QED BY <1>6, <3>1, <3>4 DEF Gens
    <2>2. QED BY <2>1
  <1>12. NearOK'
    <2>1. Latest(b)' /\ \A g \in Gens : g <= b => g <= b + 2 /\ g # b + 2
      BY <1>2, <1>6 DEF Latest, Gens
    <2>2. Latest(b + 2)' /\ (b + 2 \in Gens => log'[b + 2] = NoConfig)
      BY <1>2, <1>6, <2>1 DEF Latest, Gens
    <2>3. Kept' # {}
      BY <1>10, ConfigValues DEF Kept, Readable
    <2>4. QED BY <1>11, <2>2, <2>3 DEF NearOK
  <1>13. RowOK(p)'
    <2>1. ReadOK(op[p])'
      BY <1>2, <1>4, <1>5, <1>6 DEF ReadOK, Begun, Latest
    <2>2. WriteOK(op[p])'
      BY <1>b, <1>c, <1>2, <1>4, <1>5, <1>6, <1>8 DEF WriteOK
    <2>3. QED BY <1>2, <1>4, <2>1, <2>2 DEF RowOK, InsideOK, AsksOK
  <1>14. QED BY <1>3, <1>9, <1>d, <1>12, <1>13 DEF Calmly

\* The change takes effect: beyond everything used, or, in a recovery, two beyond
\* the newest snapshot, where nothing else can have been.
LEMMA ActivateCalmly ==
  ASSUME StoreInv, MutualExclusion, NEW p \in Procs, Activate(p)
  PROVE  Calmly
  <1>1. op \in [Procs -> OpRow] /\ log \in [Gens -> Configs \cup {NoConfig}]
    BY DEF StoreInv, StoreTypeOK
  <1>2. pc[p] = "in" /\ UNCHANGED <<pc, history, lost, spoiled>> /\ op[p].step = "activate"
    BY DEF Activate, At, lockVars
  <1>3. op' = [op EXCEPT ![p] = [NoOp EXCEPT !.kind = op[p].kind,
                                             !.step = IF op[p].kind = "recover" THEN "done" ELSE "prune"]]
    BY DEF Activate, EndAt
  <1>4. ASSUME NEW q \in Procs PROVE RowOK(q)'
    <2>1. CASE q # p
      <3>1. op'[q] = op[q]
        BY <1>1, <1>3, <2>1
      <3>2. QED BY <1>2, <2>1, <3>1, OneInside
    <2>2. CASE q = p
      <3>1. op'[q].step \in {"prune", "done"}
        BY <1>1, <1>3, <2>2 DEF NoOp
      <3>2. QED BY <1>2, <2>2, <3>1, EndedRow
    <2>3. QED BY <2>1, <2>2
  <1>n. PICK n : n = op[p].gen
    OBVIOUS
  <1>c. PICK c : c = op[p].config
    OBVIOUS
  <1>5. ReadOK(op[p]) /\ WriteOK(op[p]) /\ FilesOK /\ DiskOK /\ NearOK
    BY DEF StoreInv, RowOK
  <1>6. n \in Gens /\ c \in Configs
    BY <1>n, <1>c, <1>2, <1>5 DEF ReadOK, WriteOK, Begun
  <1>7. active' = Valid(n, c) /\ log' = [log EXCEPT ![n] = c]
    BY <1>n, <1>c DEF Activate
  <1>8. log'[n] = c /\ \A g \in Gens \ {n} : log'[g] = log[g]
    BY <1>1, <1>6, <1>7
  <1>9. Latest(n) /\ (log[n] \in {NoConfig, c})
    <2>1. CASE op[p].kind = "recover"
      <3>1. PICK h \in Gens : h = op[p].target /\ Newest(h)
        BY <1>2, <1>5, <2>1 DEF ReadOK, Begun, Newest, Readable
      <3>2. n = h + 2 /\ c = history[h]
        BY <1>n, <1>c, <1>2, <1>5, <2>1, <3>1 DEF ReadOK, WriteOK, Begun
      <3>3. log[h] = c
        BY <1>5, <3>1, <3>2, SnapshotsAreUsed DEF Newest
      <3>4. spoiled = 0
        BY <1>2, <1>5, <2>1 DEF ReadOK, Begun, Invalid, DiskOK
      <3>5. QED BY <1>5, <1>6, <3>1, <3>2, <3>3, <3>4 DEF NearOK
    <2>2. CASE op[p].kind # "recover"
      <3>1. Latest(op[p].base.gen) /\ n = op[p].base.gen + 1 /\ op[p].base.gen \in Nat
        BY <1>n, <1>1, <1>2, <1>5, <2>2 DEF ReadOK, WriteOK, Begun, OpRow, StoredValue, Gens
      <3>2. QED BY <1>6, <3>1 DEF Latest, Gens
    <2>3. QED BY <2>1, <2>2
  <1>10. \A g \in Gens : log'[g] # NoConfig => g <= n
    BY <1>6, <1>8, <1>9 DEF Latest, Gens
  <1>11. \A g \in Gens : log[g] # NoConfig => log'[g] = log[g]
    BY <1>8, <1>9
  <1>12. FilesOK'
    <2>1. active'.kind = "valid" /\ active'.gen = n /\ active'.config = c
      BY <1>7 DEF Valid
    <2>2. ASSUME NEW g \in Readable PROVE g \in Gens /\ log'[g] = history'[g]
      <3>1. g \in Gens /\ log[g] # NoConfig /\ log[g] = history[g]
        BY <1>5, SnapshotsAreUsed
      <3>2. QED BY <1>2, <1>11, <3>1
    <2>3. Readable' = Readable
      BY <1>2 DEF Readable
    <2>4. QED BY <1>6, <1>8, <1>10, <2>1, <2>2, <2>3 DEF FilesOK, Latest
  <1>d. DiskOK'
    BY <1>2, <1>5, <1>7 DEF DiskOK, Valid
  <1>13. ASSUME spoiled = 0, NEW h \in Gens, Newest(h)
         PROVE  /\ \A g \in Gens : log'[g] # NoConfig => g <= h + 2
                /\ h + 2 \in Gens => log'[h + 2] \in {NoConfig, log'[h]}
    <2>1. log[h] # NoConfig /\ log[h] = history[h] /\ log'[h] = log[h]
      BY <1>5, <1>11, <1>13, SnapshotsAreUsed DEF Newest
    <2>2. CASE op[p].kind = "recover"
      <3>1. op[p].target \in Gens /\ Newest(op[p].target) /\ n = op[p].target + 2 /\ c = history[op[p].target]
        BY <1>n, <1>c, <1>2, <1>5, <2>2 DEF ReadOK, WriteOK, Begun, Newest, Readable
      <3>2. op[p].target = h
        BY <1>13, <3>1 DEF Newest, Readable, Gens
      <3>3. QED BY <1>8, <1>10, <2>1, <3>1, <3>2
    <2>3. CASE op[p].kind # "recover"
      <3>1. op[p].base.kind = "valid"
        <4>1. op[p].base.kind # "missing"
          BY <1>2, <1>5, <2>1, <2>3 DEF ReadOK, Begun, Latest, Missing, Gens
        <4>2. op[p].base.kind # "invalid"
          BY <1>2, <1>5, <2>3 DEF ReadOK, Begun
        <4>3. QED BY <1>1, <4>1, <4>2 DEF OpRow, StoredValue
      <3>2. PICK b \in Gens : b = op[p].base.gen
        BY <1>2, <1>5, <3>1 DEF ReadOK, Begun
      <3>3. n = b + 1 /\ Latest(b) /\ history[b] \in Configs
        BY <1>n, <1>2, <1>5, <1>13, <2>3, <3>1, <3>2 DEF ReadOK, WriteOK, Begun, DiskOK
      <3>4. h = b
        BY <1>13, <2>1, <3>3 DEF Newest, Readable, Latest, Gens
      <3>5. h + 2 \in Gens => log'[h + 2] = log[h + 2] /\ log[h + 2] = NoConfig
        BY <1>6, <1>8, <3>3, <3>4 DEF Latest, Gens
      <3>6. \A g \in Gens : log'[g] # NoConfig => g <= h + 2
        BY <1>10, <3>3, <3>4 DEF Gens
      <3>7. QED BY <3>5, <3>6
    <2>4. QED BY <2>2, <2>3
  <1>14. NearOK'
    <2>1. \A h \in Gens : Newest(h)' <=> Newest(h)
      BY <1>2 DEF Newest, Readable
    <2>2. (Replacing => Kept # {})'
      <3>1. CASE Kept # {}
        BY <1>2, <3>1 DEF Kept
      <3>2. CASE Kept = {}
        <4>1. op[p].base.kind = "missing"
          <5>1. op[p].base.kind # "valid"
            BY <1>2, <1>5, <3>2, ConfigValues DEF ReadOK, WriteOK, Begun, Kept
          <5>2. op[p].base.kind # "invalid"
            BY <1>2, <1>5, <3>2, ConfigValues DEF ReadOK, Begun, Newest, Readable, Kept
          <5>3. QED BY <1>1, <5>1, <5>2 DEF OpRow, StoredValue
        <4>2. Latest(0)
          BY <1>2, <1>5, <4>1 DEF ReadOK, Begun, Missing
        <4>3. \A g \in Gens : log[g] = NoConfig
          BY <4>2 DEF Latest, Gens
        <4>4. QED BY <1>8, <4>3 DEF Replacing
      <3>3. QED BY <3>1, <3>2
    <2>3. QED BY <1>2, <1>13, <2>1, <2>2 DEF NearOK, Latest
  <1>15. QED BY <1>4, <1>12, <1>d, <1>14 DEF Calmly

\* Pruning removes a snapshot only when a newer one exists, so the newest stays.
LEMMA PruneCalmly ==
  ASSUME StoreInv, MutualExclusion, NEW p \in Procs, NEW g \in Gens, Prune(p, g)
  PROVE  Calmly
  <1>1. history \in [Gens -> Configs \cup {NoConfig, Unreadable}]
    BY DEF StoreInv, StoreTypeOK
  <1>2. pc[p] = "in" /\ UNCHANGED <<pc, active, log, op, lost, spoiled>> /\ op[p].step = "prune"
    BY DEF Prune, At, lockVars
  <1>3. ASSUME NEW q \in Procs PROVE RowOK(q)'
    <2>1. CASE q # p
      BY <1>2, <2>1, OneInside
    <2>2. CASE q = p
      BY <1>2, <2>2, EndedRow
    <2>3. QED BY <2>1, <2>2
  <1>4. FilesOK /\ DiskOK /\ NearOK
    BY DEF StoreInv
  <1>5. history'[g] = NoConfig /\ \A h \in Gens \ {g} : history'[h] = history[h]
    BY <1>1 DEF Prune
  <1>6. PICK k \in Kept : k > g
    <2>1. {h \in Kept : h > g} # {}
      <3>1. Cardinality({h \in Kept : h > g}) >= Retention
        BY DEF Prune, Excess
      <3>2. Cardinality({}) = 0
        BY FS_EmptySet
      <3>3. QED BY <3>1, <3>2, ConfigLimits
    <2>2. QED BY <2>1
  <1>7. Readable' = Readable \ {g} /\ k \in Kept'
    BY <1>5, <1>6, ConfigValues DEF Readable, Kept, Gens
  <1>8. spoiled = 0 => \A h \in Gens : Newest(h)' => Newest(h)
    <2>1. ASSUME spoiled = 0, NEW h \in Gens, Newest(h)' PROVE Newest(h)
      <3>0. k \in Readable'
        BY <1>1, <1>4, <1>5, <1>6, <2>1, ConfigValues DEF Readable, Kept, DiskOK, Gens
      <3>1. h \in Readable /\ k <= h
        BY <1>7, <2>1, <3>0 DEF Newest
      <3>2. ASSUME NEW n \in Readable PROVE n <= h
        <4>1. CASE n = g
          BY <1>6, <3>1, <4>1 DEF Readable, Kept, Gens
        <4>2. CASE n # g
          BY <1>7, <2>1, <4>2 DEF Newest
        <4>3. QED BY <4>1, <4>2
      <3>3. QED BY <3>1, <3>2 DEF Newest
    <2>2. QED BY <2>1
  <1>9. FilesOK' /\ DiskOK'
    <2>1. FilesOK'
      BY <1>2, <1>4, <1>5, <1>7 DEF FilesOK, Latest, Readable
    <2>2. DiskOK'
      BY <1>2, <1>4, <1>5, ConfigValues DEF DiskOK
    <2>3. QED BY <2>1, <2>2
  <1>10. NearOK'
    <2>1. Kept' # {}
      BY <1>7
    <2>2. ASSUME spoiled = 0, NEW h \in Gens, Newest(h)'
          PROVE  /\ \A n \in Gens : log'[n] # NoConfig => n <= h + 2
                 /\ h + 2 \in Gens => log'[h + 2] \in {NoConfig, log'[h]}
      BY <1>2, <1>4, <1>8, <2>2 DEF NearOK, Latest
    <2>3. QED BY <1>2, <2>1, <2>2 DEF NearOK, Latest
  <1>11. QED BY <1>3, <1>9, <1>10 DEF Calmly

\* The ends of a change, the clock, and damage to the active file.
LEMMA RestCalmly ==
  ASSUME StoreInv, MutualExclusion, ~BothDamaged,
         \/ \E p \in Procs : PruneEnds(p) \/ Stops(p)
         \/ TimePasses \/ DamageActive \/ UNCHANGED configVars
         \/ \E g \in Gens : DamageSnapshot(g)
  PROVE  Calmly
  <1>1. op \in [Procs -> OpRow]
    BY DEF StoreInv, StoreTypeOK
  <1>2. ASSUME NEW p \in Procs, PruneEnds(p) \/ Stops(p) PROVE Calmly
    <2>1. op' = [op EXCEPT ![p] = [NoOp EXCEPT !.kind = op[p].kind, !.step = "done"]]
          /\ UNCHANGED <<pc, active, history, log, lost, spoiled>>
      BY <1>2 DEF PruneEnds, Stops, EndAt, lockVars
    <2>2. pc[p] = "in"
      BY <1>2 DEF PruneEnds, Stops, At
    <2>3. op'[p].step = "done"
      BY <1>1, <2>1 DEF NoOp
    <2>4. RowOK(p)'
      BY <2>1, <2>2, <2>3, EndedRow
    <2>5. ASSUME NEW q \in Procs \ {p} PROVE RowOK(q)'
      <3>1. op'[q] = op[q]
        BY <1>1, <2>1
      <3>2. QED BY <2>2, <3>1, OneInside
    <2>6. QED BY <2>1, <2>4, <2>5, SameFiles DEF StoreInv, Calmly, files
  <1>3. ASSUME TimePasses \/ UNCHANGED configVars PROVE Calmly
    <2>1. UNCHANGED <<pc, op, active, history, log, lost, spoiled>>
      BY <1>3 DEF TimePasses, Tick, storeVars, configVars, lockVars
    <2>2. QED BY <2>1, SameFiles, SameRow DEF StoreInv, Calmly, files
  <1>4. ASSUME DamageActive PROVE Calmly
    <2>1. active' = Invalid /\ UNCHANGED <<pc, op, history, log, spoiled>> /\ lost' = lost + 1
      BY <1>4 DEF DamageActive, lockVars
    <2>a. spoiled = 0 /\ lost \in Nat
      BY <1>4, ConfigLimits DEF DamageActive, StoreInv, StoreTypeOK
    <2>2. ASSUME NEW q \in Procs PROVE RowOK(q)'
      <3>1. RowOK(q)
        BY DEF StoreInv
      <3>2. ReadOK(op[q])' /\ WriteOK(op[q])'
        BY <2>1, <3>1 DEF RowOK, ReadOK, WriteOK, Newest, Readable, Latest
      <3>3. QED BY <2>1, <3>1, <3>2 DEF RowOK, InsideOK, AsksOK
    <2>3. FilesOK' /\ DiskOK'
      BY <2>1, <2>a DEF StoreInv, FilesOK, DiskOK, Invalid, Readable
    <2>4. NearOK'
      BY <2>1 DEF StoreInv, NearOK, Replacing, Kept, Newest, Readable, Latest
    <2>5. QED BY <2>2, <2>3, <2>4 DEF Calmly
  <1>5. ASSUME NEW g \in Gens, DamageSnapshot(g) PROVE Calmly
    <2>1. UNCHANGED <<pc, op, active, log, lost>> /\ spoiled' = spoiled + 1
      BY <1>5 DEF DamageSnapshot, lockVars
    <2>2. lost = 0 /\ spoiled \in Nat /\ history \in [Gens -> Configs \cup {NoConfig, Unreadable}]
      BY <1>5, ConfigLimits DEF DamageSnapshot, StoreInv, StoreTypeOK
    <2>3. history'[g] = Unreadable /\ \A h \in Gens \ {g} : history'[h] = history[h]
      BY <1>5, <2>2 DEF DamageSnapshot
    <2>4. active.kind # "invalid" /\ FilesOK /\ DiskOK /\ NearOK
      BY <2>2 DEF StoreInv, DiskOK
    <2>5. Readable' = Readable \ {g} /\ Kept' = Kept
      BY <1>5, <2>3, ConfigValues DEF DamageSnapshot, Readable, Kept
    <2>6. ASSUME NEW q \in Procs PROVE RowOK(q)'
      <3>1. RowOK(q)
        BY DEF StoreInv
      <3>2. ReadOK(op[q])'
        <4>1. op[q].step \in Begun => op[q].kind # "recover"
          BY <2>4, <3>1 DEF RowOK, ReadOK, Invalid
        <4>2. QED BY <2>1, <3>1, <4>1 DEF RowOK, ReadOK, Latest
      <3>3. WriteOK(op[q])'
        <4>1. op[q].step = "activate" /\ op[q].base.kind = "valid" => op[q].base.gen \in Gens
          BY <3>1 DEF RowOK, ReadOK, Begun
        <4>2. QED BY <2>1, <2>3, <3>1, <4>1 DEF RowOK, WriteOK
      <3>4. QED BY <2>1, <3>1, <3>2, <3>3 DEF RowOK, InsideOK, AsksOK
    <2>7. FilesOK'
      BY <2>1, <2>3, <2>4, <2>5 DEF FilesOK, Latest, Readable
    <2>8. DiskOK' /\ NearOK'
      BY <2>1, <2>2, <2>4, <2>5 DEF DiskOK, NearOK, Replacing
    <2>9. QED BY <2>6, <2>7, <2>8 DEF Calmly
  <1>6. QED BY <1>2, <1>3, <1>4, <1>5

LEMMA StoreStepInv ==
  ASSUME ~BothDamaged, StoreInv, MutualExclusion, [StoreNext]_configVars
  PROVE  StoreInv'
  <1>1. StoreTypeOK'
    BY StoreStepTypeOK DEF StoreInv
  <1>2. ASSUME NEW p \in Procs, Changes(p) PROVE Calmly
    BY <1>2, ReadCalmly, NumberCalmly, KeepCalmly, ActivateCalmly, PruneCalmly, RestCalmly DEF Changes
  <1>3. ASSUME NEW p \in Procs, Asks(p) \/ Approach(p) \/ Leave(p) \/ Dies(p) PROVE Calmly
    BY <1>3, OutsideCalmly
  <1>5. Calmly
    BY <1>2, <1>3, RestCalmly DEF StoreNext
  <1>6. QED BY <1>1, <1>5 DEF StoreInv, Calmly

-------------------------------------------------------------------------------
\* What the store assumes of the lock, and of the disk.
Undisturbed == []MutualExclusion /\ ~BothDamaged

THEOREM StoreCorrect == StoreSpec /\ Undisturbed => []StoreInv
  <1>1. CASE ~BothDamaged
    <2>1. StoreInv /\ MutualExclusion /\ [StoreNext]_configVars => StoreInv'
      BY <1>1, StoreStepInv
    <2>2. QED BY StoreInitInv, <2>1, PTL DEF StoreSpec, Undisturbed
  <1>2. CASE BothDamaged
    BY <1>2 DEF Undisturbed
  <1>3. QED BY <1>1, <1>2

\* What a change that takes effect knows (Activate, of commit and of recover).
LEMMA ActivateKnows ==
  ASSUME StoreInv, NEW p \in Procs, Activate(p)
  PROVE  /\ op[p].gen \in Gens /\ op[p].config \in Configs
         /\ active' = Valid(op[p].gen, op[p].config) /\ log' = [log EXCEPT ![op[p].gen] = op[p].config]
         /\ ReadOK(op[p]) /\ WriteOK(op[p]) /\ op[p].step = "activate"
  BY DEF StoreInv, RowOK, ReadOK, WriteOK, Begun, Activate, At

\* Only taking effect, and damage, change the active file.
LEMMA OnlyActivateChanges ==
  ASSUME [StoreNext]_configVars
  PROVE  \/ \E p \in Procs : Activate(p)
         \/ DamageActive
         \/ UNCHANGED <<active, log>>
  <1>1. ASSUME NEW p \in Procs, Asks(p) \/ Approach(p) \/ Leave(p) \/ Dies(p) PROVE UNCHANGED <<active, log>>
    BY <1>1 DEF Asks, Begin, Approach, Leave, Dies
  <1>2. ASSUME NEW p \in Procs, Changes(p) PROVE Activate(p) \/ UNCHANGED <<active, log>>
    <2>1. CASE ReadToWrite(p) \/ ReadToRestore(p) \/ \E g \in Gens : ReadToRecover(p, g)
      BY <2>1 DEF ReadToWrite, ReadToRestore, ReadToRecover, HasRead
    <2>2. CASE (\E m \in 0..MaxGen : Number(p, m)) \/ Keep(p)
      BY <2>2 DEF Number, Keep
    <2>3. CASE (\E g \in Gens : Prune(p, g)) \/ PruneEnds(p) \/ Stops(p)
      BY <2>3 DEF Prune, PruneEnds, Stops
    <2>4. QED BY <1>2, <2>1, <2>2, <2>3 DEF Changes
  <1>3. ASSUME NEW g \in Gens, DamageSnapshot(g) PROVE UNCHANGED <<active, log>>
    BY <1>3 DEF DamageSnapshot
  <1>4. CASE TimePasses \/ UNCHANGED configVars
    BY <1>4 DEF TimePasses, configVars, storeVars
  <1>5. QED BY <1>1, <1>2, <1>3, <1>4 DEF StoreNext

LEMMA StepIsRegisterStep ==
  StoreInv /\ [StoreNext]_configVars => [Register!RegisterNext]_Register!registerVars
  <1> SUFFICES ASSUME StoreInv, [StoreNext]_configVars
               PROVE  [Register!RegisterNext]_Register!registerVars
    OBVIOUS
  <1>1. ASSUME NEW p \in Procs, Activate(p) PROVE Register!RegisterNext
    <2> DEFINE g == op[p].gen
               c == op[p].config
    <2>1. g \in Gens /\ c \in Configs /\ active' = Valid(g, c) /\ log' = [log EXCEPT ![g] = c]
          /\ ReadOK(op[p]) /\ WriteOK(op[p]) /\ op[p].step = "activate"
      BY <1>1, ActivateKnows
    <2>2. FilesOK /\ DiskOK /\ NearOK /\ op[p] \in OpRow
      BY DEF StoreInv, StoreTypeOK
    <2>3. CASE op[p].kind = "recover"
      <3>1. PICK h \in Gens : h = op[p].target /\ Newest(h)
        BY <2>1, <2>3 DEF ReadOK, Begun, Newest, Readable
      <3>2. active.kind = "invalid" /\ g = h + 2 /\ c = history[h]
        BY <2>1, <2>3, <3>1 DEF ReadOK, WriteOK, Begun, Invalid
      <3>3. log[h] = c /\ log[h] # NoConfig
        BY <2>2, <3>1, <3>2, SnapshotsAreUsed DEF Newest
      <3>4. log[g] \in {NoConfig, log[h]}
        BY <2>1, <2>2, <3>1, <3>2 DEF DiskOK, NearOK
      <3>5. Register!Recover(g, h)
        BY <2>1, <3>1, <3>2, <3>3, <3>4 DEF Register!Recover, Register!Used, Register!Valid, Valid
      <3>6. QED BY <2>1, <3>1, <3>5 DEF Register!RegisterNext
    <2>4. CASE op[p].kind # "recover"
      <3>1. Latest(op[p].base.gen) /\ g = op[p].base.gen + 1 /\ op[p].base.gen \in Nat
        BY <2>1, <2>2, <2>4 DEF ReadOK, WriteOK, Begun, OpRow, StoredValue, Gens
      <3>2. \A h \in Gens : log[h] # NoConfig => h < g
        BY <3>1 DEF Latest, Gens
      <3>3. Register!Replace(g, c)
        BY <2>1, <3>2 DEF Register!Replace, Register!Used, Register!Valid, Valid
      <3>4. QED BY <2>1, <3>3 DEF Register!RegisterNext
    <2>5. QED BY <2>3, <2>4
  <1>2. ASSUME DamageActive PROVE Register!RegisterNext
    BY <1>2 DEF DamageActive, Register!RegisterNext, Register!Lose, Register!Invalid, Invalid
  <1>3. QED BY <1>1, <1>2, OnlyActivateChanges DEF Register!registerVars

\* While the lock excludes and the disk does not damage both the active file and
\* snapshots, the files and the crashes between them are one register that is replaced as a whole, under
\* a generation that never stood for another configuration, recovery included.
THEOREM StoreIsRegister == StoreSpec /\ Undisturbed => RegisterSpec
  <1>1. StoreInit => Register!RegisterInit
    BY DEF StoreInit, Register!RegisterInit, Register!Missing, Missing
  <1>2. QED BY <1>1, StoreCorrect, StepIsRegisterStep, PTL DEF StoreSpec, RegisterSpec, Register!RegisterSpec

\* A change replaces the configuration it has read, and the generation its caller
\* named, or an active file damaged in between (store.ts, readActive under the lock).
THEOREM UpdatesAreNotLost == StoreSpec /\ Undisturbed => NoLostUpdate
  <1> DEFINE Builds == \A p \in Procs : op[p].step = "activate" /\ op'[p].step \in {"prune", "done"} /\ active' # active =>
                         \/ active = op[p].base /\ op[p].expected \in {AnyGen, active.gen}
                         \/ active = Invalid
  <1>1. StoreInv /\ [StoreNext]_configVars => Builds
    <2> SUFFICES ASSUME StoreInv, NEW p \in Procs, op[p].step = "activate"
                 PROVE  \/ active = op[p].base /\ op[p].expected \in {AnyGen, active.gen}
                        \/ active = Invalid
      OBVIOUS
    <2>1. ReadOK(op[p])
      BY DEF StoreInv, RowOK
    <2>2. QED BY <2>1 DEF ReadOK, Begun
  <1>2. QED BY <1>1, StoreCorrect, PTL DEF StoreSpec, NoLostUpdate

\* A configuration that is replaced is in the history by then (commit writes the
\* snapshot first), so the change can be undone.
THEOREM ReplacedStays == StoreSpec /\ Undisturbed => ReplacedIsKept
  <1> DEFINE Stays == active.kind = "valid" /\ active'.kind = "valid" /\ active' # active
                        => history[active.gen] \in {active.config, Unreadable}
  <1>1. StoreInv /\ [StoreNext]_configVars => Stays
    <2> SUFFICES ASSUME StoreInv, [StoreNext]_configVars, active.kind = "valid", active'.kind = "valid",
                        active' # active
                 PROVE  history[active.gen] \in {active.config, Unreadable}
      OBVIOUS
    <2>1. ~DamageActive
      BY DEF DamageActive, Invalid
    <2>2. PICK p \in Procs : Activate(p)
      BY <2>1, OnlyActivateChanges
    <2>3. ReadOK(op[p]) /\ WriteOK(op[p]) /\ op[p].step = "activate"
      BY <2>2, ActivateKnows
    <2>4. active = op[p].base
      BY <2>3 DEF ReadOK, Begun, Invalid
    <2>5. QED BY <2>3, <2>4 DEF WriteOK
  <1>2. QED BY <1>1, StoreCorrect, PTL DEF StoreSpec, ReplacedIsKept

\* Once a configuration has been replaced there is a snapshot to recover from, unless
\* the disk damaged it, whatever retention is, and wherever a process died.
THEOREM RecoverySourceStays == StoreSpec /\ Undisturbed => []RecoverySource
  <1>1. StoreInv => RecoverySource
    BY DEF StoreInv, StoreTypeOK, NearOK, Replacing, RecoverySource, Kept, Readable
  <1>2. QED BY <1>1, StoreCorrect, PTL

\* The exclusion need not be assumed where a stale lock file is taken over by one process
\* at a time and no holder outlasts staleMs: the store is the register through any crashes with the lock held, failed stamps
\* and takeovers, and whatever the disk does to one kind of file.
THEOREM SoleTakerStoreIsRegister ==
  StoreSpec /\ [](SoleTaker /\ HeldIsFresh) /\ ~BothDamaged => RegisterSpec
  BY StoreUsesLock, SoleTakerExcludes, StoreIsRegister, PTL DEF Undisturbed, TakeoverExcludes
===============================================================================
