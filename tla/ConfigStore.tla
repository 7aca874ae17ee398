------------------------------ MODULE ConfigStore ------------------------------
(***************************************************************************)
(* ConfigStore (config/store.ts) in several processes over one directory:  *)
(* the active file, the history of snapshots and, around every change, the *)
(* lock of StorageLock.  A change reads the active file, numbers itself    *)
(* from the history, writes the snapshot of what it replaces, renames the  *)
(* new active file into place and prunes the history; any of these may     *)
(* fail, and the process may die between any two.                          *)
(*                                                                         *)
(* A configuration is a value; validation and serialisation are left out.  *)
(* Renames are atomic, so a file is the old one or the new one, until the  *)
(* disk damages it.                                                        *)
(***************************************************************************)
EXTENDS StorageLock

CONSTANTS
    Configs,        \* configurations
    NoConfig,       \* no configuration: no file, or no snapshot
    Unreadable,     \* a snapshot that cannot be read back
    AnyGen,            \* no expectedGeneration was given
    MaxGen,         \* Number.MAX_SAFE_INTEGER: the last generation
    Retention,      \* snapshots kept
    BothDamaged,    \* whether the disk may damage the active file and snapshots too
    MaxLost,        \* bound: how often the active file is damaged
    MaxSpoiled      \* bound: how many snapshots are

ASSUME ConfigValues == NoConfig \notin Configs /\ Unreadable \notin Configs \cup {NoConfig}
ASSUME ConfigLimits == MaxGen \in Nat /\ Retention \in Nat \ {0} /\ MaxLost \in Nat /\ MaxSpoiled \in Nat

VARIABLES
    active,         \* the active file
    history,        \* the snapshots in history/, by generation
    op,             \* the change each process has asked for, and how far it is
    log,            \* history variable: what each generation has stood for
    lost,           \* damages to the active file so far
    spoiled         \* damages to snapshots so far

storeVars == <<active, history, op, log, lost, spoiled>>
configVars == <<lockVars, storeVars>>

-------------------------------------------------------------------------------
\* Recovery skips a generation, so it can go one beyond MaxGen.
Gens == 1..MaxGen + 1
OpKind == {"initialize", "save", "update", "restore", "recover"}

Missing == [kind |-> "missing", gen |-> 0, config |-> NoConfig]
Invalid == [kind |-> "invalid", gen |-> 0, config |-> NoConfig]
Valid(g, c) == [kind |-> "valid", gen |-> g, config |-> c]

NoOp == [kind |-> "none", step |-> "none", expected |-> AnyGen, config |-> NoConfig,
         target |-> 0, base |-> Missing, gen |-> 0]

Kept == {g \in Gens : history[g] # NoConfig}
Readable == {g \in Gens : history[g] \in Configs}
Newest(g) == g \in Readable /\ \A h \in Readable : h <= g

\* The snapshots retention no longer wants.
Excess_All == Kept
Excess == {g \in Kept : Cardinality({h \in Kept : h > g}) >= Retention}

-------------------------------------------------------------------------------
(* Asking for a change, and the steps it takes under the lock.             *)

\* A caller that names a generation names the one it has just loaded.
Begin(p, kind, expected, config, target) ==
    /\ Ask(p)
    /\ op' = [op EXCEPT ![p] = [NoOp EXCEPT !.kind = kind, !.step = "read", !.expected = expected,
                                            !.config = config, !.target = target]]
    /\ UNCHANGED <<active, history, log, lost, spoiled>>

At(p, step) == pc[p] = "in" /\ op[p].step = step
StepTo(p, step) == op' = [op EXCEPT ![p].step = step]
\* What the change was about no longer matters.
EndAt(p, step) == op' = [op EXCEPT ![p] = [NoOp EXCEPT !.kind = op[p].kind, !.step = step]]

ExpectedMatches_Any(p) == TRUE
ExpectedMatches(p) == op[p].expected \in {AnyGen, active.gen}

\* The change has read what it builds on; where it does not get this far it
\* throws or has nothing to do.
HasRead(p, config, target) ==
    /\ At(p, "read")
    /\ op' = [op EXCEPT ![p].step = "number", ![p].base = active,
                        ![p].config = config, ![p].target = target]
    /\ UNCHANGED <<lockVars, active, history, log, lost, spoiled>>

ReadToWrite(p) ==
    /\ active.kind # "invalid"
    /\ CASE op[p].kind = "initialize" -> active.kind = "missing"
         [] op[p].kind = "save"       -> ExpectedMatches(p)
         [] op[p].kind = "update"     -> op[p].config # active.config
         [] OTHER                     -> FALSE
    /\ HasRead(p, op[p].config, 0)

ReadToRestore(p) ==
    /\ op[p].kind = "restore" /\ active.kind = "valid" /\ ExpectedMatches(p)
    /\ op[p].target \in Readable
    /\ HasRead(p, history[op[p].target], 0)

\* recover: the newest snapshot that can be read takes the place of an active
\* file that cannot (which is copied to quarantine).
ReadToRecover(p, g) ==
    /\ op[p].kind = "recover" /\ active.kind = "invalid" /\ Newest(g)
    /\ HasRead(p, history[g], g)

\* nextGeneration: beyond the history and the entries it is given.
Numbers(p) == {0, op[p].base.gen} \cup Readable
                \cup (IF op[p].kind = "recover" THEN {op[p].target} ELSE {})
Skip_None(p) == 1
Skip(p) == IF op[p].kind = "recover" THEN 2 ELSE 1

Number_Unbounded(p, m) ==
    /\ At(p, "number")
    /\ m \in Numbers(p) /\ \A n \in Numbers(p) : n <= m
    /\ op' = [op EXCEPT ![p].gen = m + Skip(p),
                        ![p].step = IF op[p].base.kind = "valid" THEN "keep" ELSE "activate"]
    /\ UNCHANGED <<lockVars, active, history, log, lost, spoiled>>
Number(p, m) ==
    /\ At(p, "number")
    /\ m \in Numbers(p) /\ \A n \in Numbers(p) : n <= m
    /\ m < MaxGen
    /\ op' = [op EXCEPT ![p].gen = m + Skip(p),
                        ![p].step = IF op[p].base.kind = "valid" THEN "keep" ELSE "activate"]
    /\ UNCHANGED <<lockVars, active, history, log, lost, spoiled>>

\* writeHistorySnapshot of what is about to be replaced.
Keep_Nothing(p) ==
    /\ At(p, "keep") /\ StepTo(p, "activate")
    /\ UNCHANGED <<lockVars, active, history, log, lost, spoiled>>
Keep(p) ==
    /\ At(p, "keep") /\ StepTo(p, "activate")
    /\ history' = [history EXCEPT ![op[p].base.gen] = op[p].base.config]
    /\ UNCHANGED <<lockVars, active, log, lost, spoiled>>

Activate(p) ==
    /\ At(p, "activate")
    /\ EndAt(p, IF op[p].kind = "recover" THEN "done" ELSE "prune")
    /\ active' = Valid(op[p].gen, op[p].config)
    /\ log' = [log EXCEPT ![op[p].gen] = op[p].config]
    /\ UNCHANGED <<lockVars, history, lost, spoiled>>

Prune(p, g) ==
    /\ At(p, "prune") /\ g \in Excess
    /\ history' = [history EXCEPT ![g] = NoConfig]
    /\ UNCHANGED <<lockVars, active, op, log, lost, spoiled>>

PruneEnds(p) ==
    /\ At(p, "prune") /\ Excess = {}
    /\ EndAt(p, "done")
    /\ UNCHANGED <<lockVars, active, history, log, lost, spoiled>>

\* The change has nothing to do, or throws: a conflict, an unusable file, an
\* exhausted generation, a failed write.  A failed pruning is a warning.
Stops(p) ==
    /\ \E step \in {"read", "number", "keep", "activate", "prune"} : At(p, step)
    /\ EndAt(p, "done")
    /\ UNCHANGED <<lockVars, active, history, log, lost, spoiled>>

-------------------------------------------------------------------------------
Leave(p) ==
    /\ op[p].step = "done" /\ Release(p)
    /\ op' = [op EXCEPT ![p] = NoOp]
    /\ UNCHANGED <<active, history, log, lost, spoiled>>

\* The lock was not acquired in time, or at all.
Refused(p) == op' = IF pc'[p] = "idle" THEN [op EXCEPT ![p] = NoOp] ELSE op

Approach(p) ==
    /\ Acquire(p) /\ Refused(p)
    /\ UNCHANGED <<active, history, log, lost, spoiled>>

Dies(p) ==
    /\ Crash(p) /\ op' = [op EXCEPT ![p] = NoOp]
    /\ UNCHANGED <<active, history, log, lost, spoiled>>

TimePasses == Tick /\ UNCHANGED storeVars

DamageActive ==
    /\ lost < MaxLost /\ (spoiled > 0 => BothDamaged)
    /\ active.kind = "valid"
    /\ active' = Invalid
    /\ lost' = lost + 1
    /\ UNCHANGED <<lockVars, history, op, log, spoiled>>

DamageSnapshot(g) ==
    /\ spoiled < MaxSpoiled /\ (lost > 0 => BothDamaged)
    /\ g \in Readable
    /\ history' = [history EXCEPT ![g] = Unreadable]
    /\ spoiled' = spoiled + 1
    /\ UNCHANGED <<lockVars, active, op, log, lost>>

-------------------------------------------------------------------------------
StoreInit ==
    /\ LockInit
    /\ active = Missing
    /\ history = [g \in Gens |-> NoConfig]
    /\ op = [p \in Procs |-> NoOp]
    /\ log = [g \in Gens |-> NoConfig]
    /\ lost = 0 /\ spoiled = 0

\* The arguments each operation takes.
Asks(p) ==
    \/ \E c \in Configs, kind \in {"initialize", "update"} : Begin(p, kind, AnyGen, c, 0)
    \/ \E c \in Configs, e \in {AnyGen, active.gen} : Begin(p, "save", e, c, 0)
    \/ \E g \in Readable, e \in {AnyGen, active.gen} : Begin(p, "restore", e, NoConfig, g)
    \/ Begin(p, "recover", AnyGen, NoConfig, 0)

Changes(p) ==
    \/ ReadToWrite(p) \/ ReadToRestore(p) \/ Keep(p) \/ Activate(p) \/ PruneEnds(p) \/ Stops(p)
    \/ \E m \in 0..MaxGen : Number(p, m)
    \/ \E g \in Gens : ReadToRecover(p, g) \/ Prune(p, g)

StoreNext ==
    \/ \E p \in Procs : Asks(p) \/ Approach(p) \/ Changes(p) \/ Leave(p) \/ Dies(p)
    \/ \E g \in Gens : DamageSnapshot(g)
    \/ DamageActive \/ TimePasses

StoreSpec == StoreInit /\ [][StoreNext]_configVars
-------------------------------------------------------------------------------
StoredValue == [kind : {"missing", "valid", "invalid"}, gen : Gens \cup {0}, config : Configs \cup {NoConfig}]

OpRow == [kind : OpKind \cup {"none"},
          step : {"none", "read", "number", "keep", "activate", "prune", "done"},
          expected : Gens \cup {0, AnyGen}, config : Configs \cup {NoConfig},
          target : Gens \cup {0}, base : StoredValue, gen : Gens \cup {0}]

StoreTypeOK ==
    /\ LockTypeOK
    /\ active \in StoredValue
    /\ history \in [Gens -> Configs \cup {NoConfig, Unreadable}]
    /\ op \in [Procs -> OpRow]
    /\ log \in [Gens -> Configs \cup {NoConfig}]
    /\ lost \in 0..MaxLost /\ spoiled \in 0..MaxSpoiled

\* The store is the register that ConfigRegister describes: a change replaces the
\* whole configuration under a generation that never stood for another one, also
\* when the active file was damaged and recovered ("recovery never reuses that
\* identity"), or snapshots were (but not both, see BothDamaged).
Register == INSTANCE ConfigRegister WITH value <- active
RegisterSpec == Register!RegisterSpec

\* SAFETY-03, "reread-under-lock preserves both updates": a change replaces what it
\* has read (or a file damaged since), and a caller that names a generation replaces
\* that one.
NoLostUpdate ==
    [][\A p \in Procs : op[p].step = "activate" /\ op'[p].step \in {"prune", "done"} /\ active' # active =>
          \/ active = op[p].base /\ op[p].expected \in {AnyGen, active.gen}
          \/ active = Invalid]_configVars

\* What a change replaces has been put into the history, so that it can be undone.
ReplacedIsKept ==
    [][active.kind = "valid" /\ active'.kind = "valid" /\ active' # active
          => history[active.gen] \in {active.config, Unreadable}]_configVars

\* Once a configuration has been replaced there is a snapshot to recover from, unless
\* the disk has damaged it, whatever was pruned or failed since.
RecoverySource ==
    (\E g, h \in Gens : g # h /\ log[g] # NoConfig /\ log[h] # NoConfig)
        => Readable # {} \/ \E g \in Gens : history[g] = Unreadable
===============================================================================
