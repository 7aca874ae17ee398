# A verification of PiMultiOrchestrator

PiMultiOrchestrator (`src/`) is an extension of the Pi coding agent. A person gives it a
*mission*; a *Boss* model plans tasks; *workers* (child sessions on routes of a 9Router gateway)
execute them; a *reviewer* worker judges each result; the Boss completes the mission when every
active task has passed. Everything durable is kept in one SQLite file and a few JSON files that
several processes may open at the same time. These TLA+ modules model the parts of it where order,
concurrency and failure decide whether it is right.

Contents: 1 inventory, 2 modules, 3 the models and the code, 4 runs, 5 proofs,
6 disagreements with the documentation, 7 what is not modelled.

## 1. Inventory

Sizes are lines of `src/src` (21,370 in all).

| component | files | state | operations | hard behaviour |
|---|---|---|---|---|
| Mission store | `core/mission/index.ts`, `schema.ts`, `types.ts`, `task-identity.ts` (1,375) | SQLite: missions, revisions, tasks, attempts, leases, evidence, canonical items, checkpoints, verifications, decisions, escalations, quality status | one `BEGIN IMMEDIATE` transaction per operation; lease, recovery and shutdown operations touch many rows | several processes on one file; crash between two transactions; recovery deciding who is dead; expiring leases; compare-and-swap on revisions |
| Mission execution | `core/mission/execution.ts`, `core/quality/service.ts`, `mission-cancel.ts`, `host/pi-extension.ts` (mission commands) | which job each process is in; the mission record it read | run a task, verify, repair loop, cancel, pause, resume, complete, start-up recovery | each job is a sequence of transactions with `await`s between; the person acts meanwhile; the host may die anywhere |
| Boss loop | `core/mission/boss.ts`, `boss-response.ts`, `repair-fingerprint.ts` (1,400) | cycle, protocol failures, rejection fingerprints, terminal, fallback history (in `mission.plan.orchestration`) | plan, dispatch up to 8 tasks, verify, evaluate, fall back to another Boss route, stop | bounded retries in three nested loops; persisted state read back on resume |
| Workers | `core/workers/*` (1,850) | attempt chain, capture of the result tool, per-directory lock | select route, run child session, finalise, retry, fall back, cancel, time out | timeout against late answer, abort against tool events, mutation seen before a failure |
| Mutation recovery | `core/recovery/*` (556) | the recovery assessment and its one retry | classify, assess, decide, dispatch again | at most one automatic retry after a partial mutation |
| Routing and health | `core/routing`, `core/health` (836) | per-route failures, cooldown, circuit, probe flag (`health.json`) | classify failure, select route, record failure or success, reset, probe | read-modify-write of one file, queued per process only |
| Configuration store | `core/config/*` (2,650) | active file, generation, history, quarantine, `.config.lock` | initialize, save, update, restore, recover, import | O_EXCL lock file with stale takeover; crash between history and active write; retention |
| Pools, profiles | `core/pools` (522) | pool membership in the configuration | add, remove, reorder, enable, weights | compare-and-swap through the configuration store |
| 9Router catalogue | `core/ninerouter/*` (1,767) | cached catalogue, configuration generation | refresh, configure, enable | a refresh that finishes after the connection was changed |
| Routing memory | `core/routing-memory` (969) | rules, hits, generation | match, observe, learn, forget, restore | learning thresholds, conflicts, retention |
| Smart routing | `core/smart-routing` (600) | mode, decisions | preflight, decide | validation of a model's answer |
| Context | `core/context/*` (738) | none | build packet under a budget | pure; truncation order |
| Quality gate | `core/quality/gate.ts`, `reviewer-tool.ts` (218) | none | verdict from criteria and checks | pure; missing evidence is not a pass |
| Analytics, transcript, progress, security, thinking, package info, UI | the rest | none that others depend on | reports, redaction, dialogs | presentation and pure validation |

How they interact: the host holds at most one `MissionStore`, `ConfigStore`, `HealthStore` and
catalogue manager per process and calls them synchronously (store) or through promise queues
(files). The Boss loop calls back into the host (`dispatch`, `verify`); the host calls
`executeMissionTask`, which calls the worker executor, which asks the route adapter for candidates
and reports health. Between processes there is only the shared file system.

## 2. Modules

In the order in which they matter. Every module is parameterised by constants whose assumptions it names;
an `MC` module gives the constants small values, a `Proofs` module holds the theorems.

| module | what it is | composed of | instances, proofs |
|---|---|---|---|
| `MissionStore` | the store's transactions | | `MCMissionStore`, `MissionStoreProofs` |
| `MissionHost` | processes that crash and restart, and their commands, interleaved at every `await` | extends `MissionStore`, implements it | `MCMissionHost`, `MissionHostProofs` |
| `BossLoop` | the rounds of one mission: cycles, repairs, fallbacks, repetitions, recovery, and what of them survives | `MissionEvidence` (evidence and revisions), `BossResponse` (what an answer amounts to), `QualityGate` (what a submission amounts to), `TaskPacket` (what a child is given) | `MCBossLoop`, `BossProofs` |
| `WorkerRun` | a run of the executor: routes, retries, child, tools, time limits, aborts | extends `RouteHealth` (the shared health file), which extends `Routing` (classification and selection) | `MCWorkerRun`, `WorkerRunProofs` |
| `StorageLock` | the lock file | | `MCStorageLock`, `StorageLockProofs` |
| `ConfigStore` | the configuration's files under that lock | extends `StorageLock`, implements `StorageLock` and the abstract `ConfigRegister` | `MCConfigStore`, `ConfigStoreProofs` |
| `Setup` | catalogue, routes, pools, Boss profiles, recommendations and imports over one configuration | `ConfigDocument` (what a valid one is, migrations, overrides), `CatalogAnswer` (what a gateway's answer amounts to) | `MCSetup`, `SetupProofs` |
| `SmartRouting` | a prompt on its way to a mission or an agent, and the memory of such choices | extends `RoutingMemory` (the rule file), which extends `RoutingSignature` (how a prompt is read) | `MCSmartRouting`, `SmartRoutingProofs` |

The levels meet at their interfaces. `MissionHost` says what a Boss loop does to attempts and reviews and
lets it go round as often as it likes; `BossLoop` counts the rounds and lets the other processes do anything
their store calls may do. Both let a child end in any way; `WorkerRun` says in which ways it does, and
that a child is not started twice after it wrote. `Setup` takes a change of the configuration as one
step, which `ConfigStore` shows it to be while its lock excludes.

## 3. The models and the code

### MissionStore

Each public operation of `SQLiteMissionStore` that writes runs inside `tx`, a `BEGIN IMMEDIATE`
transaction that is rolled back when the operation throws; so each is one action, its guard is
everything the operation checks, and a throw is the action being disabled. The variables are the
tables, cut to the columns that decide something:

| variable | table | columns kept |
|---|---|---|
| `mission` | `missions` | `status` |
| `task` | `tasks` | `status`, `last_run_id` |
| `attempt` | `attempts` | `status`, `task_id`, `lease_owner`, `lease_expires_at` |
| `lease` | `mission_leases` | `owner`, `expires_at` |
| `verification` | `verification_runs` (with its decision) | `status`, `task_id`, `target_run_id`, `verdict` |
| `quality` | `task_quality_status` | `status`, `latest_verification_id`, `latest_decision_id` |
| `granted` | the `LeaseRecord`s the callers hold | `expiresAt` |
| `now` | the clock all processes read | |

`TaskMission`, `TaskClass` and `TaskKey` are constants because no operation updates those columns.
A quality decision is named by its verification run: `recordQualityDecision` refuses a second one.
Ids of tasks are numbers whose order stands for `ORDER BY created_at, task_id`. The clock stops at
`MaxTime`, and leases last `LeaseTtl` ticks; both are bounds of the model, not of the code.
`CompletionJustified` is deliberately stronger than the gate in `assertMissionCompletable`: the gate
reads a status and a decision id, the property asks for the whole chain of rows behind them.

### MissionHost

A *host* is a Pi process, a *job* an asynchronous command in it: the Boss loop of a mission, a task run
by hand, a manual verification, the quality loop, `/mission-cancel`. `job[j]` holds where the command is
and the rows it has in its local variables; `pc` names the point between two transactions. JavaScript
runs one command of a process at a time between `await`s, so a job moves only while every other job of
its host is at a point of `Waiting` (`Runs`); jobs of different hosts, and a crash, may come between
any two transactions. Every action that writes does so through an action of `MissionStore`; where one
command makes two transactions in a row (`startVerification`, `cancelActiveMission`) it is two actions.

| actions | code |
|---|---|
| `BeginBoss`, `BossProceeds`, `BossCloses`, `BossIsStale`, `CloseMission`, `CloseNothing`, `ChooseTask`, `PlanTask`, `EndTasks` | `runMissionGoalLoop` (boss.ts), `resolveOrCreateMissionTask` |
| `BeginTask`, `Dispatch`, `StartAttempt`, `StartRefused`, `WorkerEnds`, `WorkerIsLate`, `BlockTask`, `AssessmentEnds` | `executeMissionTask`, `dispatchImplementationWithRecovery` |
| `BeginVerify`, `BeginLoop`, `Confirm`, `OpenReview`, `ReviewRefused`, `MarkReview`, `ReviewerDecides`, `ReviewerFails`, `ReviewerAborts`, `ReviewerIsLate` | `QualityService`, `startTaskVerification`, `startQualityLoop`, the Boss's `verify` |
| `BeginCancel`, `ListTasks`, `CancelTask`, `ListReviews`, `CancelReview`, `EndCancel` | `cancelActiveMission` |
| `UserCreatesMission`, `UserCreatesTask`, `UserMovesMission` | the mission dialogs |
| `Crash`, `Start` | the end of a process, `createPiExtension` with `recoverInterrupted` |

Abstractions. What a planner, child or reviewer answers is any answer. `fresh` is the set of loops whose
copy of the mission has the current revision: a write with a stale revision is refused by
`updateMission`, and whoever writes makes the others stale (`Bumped`). The counters of the Boss loop are
left to `BossLoop`, so here it may go round more often than in the code; that adds behaviours and removes none. A task
that has been completed may be run again by the Boss whenever it is not passed, which is slightly more
than `allowQualityRepair` permits. `MaxStarts` bounds process starts, and a crash happens only when a
start is left.

### StorageLock, ConfigStore, ConfigRegister

`StorageLock` is `withStorageLock`: one action for each file operation, since other processes come
between `stat`, `readFile` and `unlink`. The lock file is a record of its creator, whether the creator's
pid has been written into it, and its age. `Tick` ages the file, up to `StaleAge + 1`, and every wait,
up to `WaitLimit`, because nothing in the code distinguishes more. A crash, a failed `open` or
`writeFile`, and a live process that keeps its file beyond `staleMs` are faults, at most `MaxFaults` of
them. A pid is never used again by another process.

`ConfigStore` extends it with the active file, the history and, per process, the change under way
(`op`). `enqueue` makes a process do one change at a time; under the lock the steps are: read
(`ReadToWrite`, `ReadToRestore`, `ReadToRecover`), number (`nextGeneration`), keep the snapshot of what is
replaced, rename the new file into place, prune one file at a time; `Stops` is every throw and every
change with nothing to do. A crash may come between any two. `writeAtomicFile` renames a complete file, so
a crash leaves the old or the new one; `DamageActive` and `DamageSnapshot` are the disk, which damages
both kinds of file only if `BothDamaged`. A configuration is
a model value. A caller that names an expected generation names the one it loaded last. `log` is a history
variable: the configuration each generation has stood for.

`ConfigRegister` is what the store promises, in three actions: a value replaced as a whole under a
generation beyond all others, a file that becomes unreadable, a recovery whose generation is new or was
already that configuration's own. `RegisterSpec` is its specification with `value <- active`.

### BossLoop, MissionEvidence, BossResponse, QualityGate, TaskPacket

A *loop* is one call of `runMissionGoalLoop` in one process; several may be on the same mission. `orch` is
what is persisted in `plan.orchestration`, `loop[l].st` the copy a loop carries, `mission`, `task` and
`evidence` the rows it decides from, `continued` a history variable.

| actions | code |
|---|---|
| `Begin`, `Assign`, `StartCycle` | entry, weighted choice of a Boss route, head of the cycle loop (boss.ts) |
| `BossAnswers` = `InfrastructureFails`, `ProtocolFails`, `BossAborts`, `PlanDecided`, `EvaluationDecided` | `invokeWithFallback`, the repair branch, the two decisions |
| `ChooseTask`, `EndTasks`, `DispatchAborts` | the loop over planned tasks, `resolveOrCreateMissionTask`, `buildPacket` |
| `WorkerEnds`, `WorkerIsLate`, `Assess`, `Decide` | `dispatchImplementationWithRecovery` |
| `OpenReview`, `ReviewerPasses`, `ReviewerRejects`, `ReviewerFails`, `ReviewerAborts`, `Promote`, `Judge` | verify, promotion of evidence, fingerprints of rejections |
| `FinishClose` | `closeMission` |
| `MissionMoves`, `EvidenceReviewed`, `Restart`, `StartBeside` | the person's dialogs, the end of a process and the recovery at the next start, a process started beside |

A step ends where the loop awaits or writes; writes with nothing awaited between them are one step unless a
crash between them leaves a different mission. `Save` is `persistState`: refused when the loop's copy is not
of the current revision. `AnswersFor` computes, from every message of up to two blocks of every kind, which
answers the loop can get, through the same parsing the code does; `GateVerdicts` does so for reviewers'
submissions and the gate, and `PacketFits` for packets. A revision is compared with the current one only,
so evidence knows whether its own is current, past or not given. Fallback history is a set since it is only
searched. A text, an objective, a fix or an error is a wording that can equal another or not.

### WorkerRun, RouteHealth, Routing

`run[r]` is the local variables of `execute` and `executeAttempt`, `child[r]` the Pi session of the attempt
under way with what `result-tool.ts` captured, `line[p]` the chain of promises of `withCwdLock`, `health` the
file, `queue[p]` the operation each process has under way on it, `state[x]` what pool and catalogue say of a
route. `loose[r]` is a child that was aborted, did not stop within the bounded wait and works on unobserved;
`wrote` and `starts` are history.

| actions | code |
|---|---|
| `Begin`, `Enter` | `run`, `withCwdLock` |
| `Select`, `Retry`, `NoEligibleRoute`, `RoutingFails`, `CancelledBetween` | `selectRoute`, `retrySelection`, the head of the attempt loop |
| `Resolve`, `ResolveFails`, `StartChild`, `CreateFails` | resolution of the route, creation of the session |
| `ChildTool`, `SafetyBlock`, `ChildSubmits` | the wrapped tools (`session.ts`, `safety.ts`), `result-tool.ts` |
| `PromptDone`, `PromptFails`, `PromptAborts`, `PromptTimesOut`, `PromptCancelled`, `Finalize`, `Final*` | the race of the prompt with its time limit and signal, and the finalisation after it |
| `ChildStops`, `Detach`, `LooseWrites` | the bounded wait for an aborted session and what may follow it |
| `Praise`, `Blame`, `Decide`, `GoOn` | `recordSuccess`, `recordFailure`, `nextAfterFailure`, the end of `executeAttempt` |
| `Abort`, `PoolMoveTo` | the caller's signal, other processes' edits |
| `HealthWrite`, `Reset`, `BeginProbe`, `Tick`, `DamageHealth` | `core/health`: an operation reads the file in one step and replaces it in another |

A failure is a set of telling words and a status, classified by `ClassifyFailure` and `TextCode` as the code
does; delays are in units that keep their order. `Obedient` says whether `session.abort()` returns and the
session comes to rest in time: `executor.ts:401` awaits it before a late finalisation without a limit (`Finalize`),
`boundedAbort` (501) with one (`ChildStops`, or `Detach`). Without it both are possible and neither is owed.

### SmartRouting, RoutingMemory, RoutingSignature

`session[h]` is the prompt host `h` is handling, with everything `handleInput` has in its local variables;
`memory` and `settings` are the two files; `chosen` counts what users chose (history).

| actions | code |
|---|---|
| `Submit`, `MatchMemory`, `DecideRoute`, `TriageAnswers`, `Answer`, `MissionRuns` | `handleInput`, `RoutingMemory.match`, `SmartRouter.decide`, the question, the mission |
| `Backup`, `Learn`, `Rollback`, `Close`, `Closed` | `observeChoice` and what undoes it after a cancellation |
| `Abort`, `Crash`, `ChangeSettings`, `DamageSettings`, `ChangeRules`, `DamageRules` | the signal, the process, the dialogs, the disk |

A prompt is a record of what the patterns of the two files find in it. Similarity is computed in
thousandths as the code weighs it, the confidence of a rule from its observations.

### Setup, ConfigDocument, CatalogAnswer

`document` is the active configuration, `cache` the catalogue file, `pi[h]` what the host knows of Pi's own
9Router provider, `registered[h]` what it has registered with Pi, `task[h]` its operation with an `await`
inside, `advice` the recommendation on record: its kind (weights of a pool, order of a pool, weights of a Boss
profile), the pool or profile it was made for (`of`), which it keeps whatever becomes active later, and what it
compares and gives.

| actions | code |
|---|---|
| `Configure`, `Refresh`, `ReadPrior`, `Answered`, `SyncPi`, `Reconcile` | `NineRouterManager`, the provider registration of the host |
| `Toggle`, `Look`, `Switch` | enabling and disabling a model (`setEnabled`) |
| `EditPool`, `AskEffort`, `SetEffort`, `EditBoss` | the pool and Boss screens over `core/pools` |
| `Propose`, `Ignore`, `Apply`, `ApplyChange`, `ApplyMark` | recommendations (`core/analytics`) |
| `Import`, `LosePi`, `Restart`, `DamageCache` | import of a document, the surroundings |

`ListModels` gives for each answer of a gateway (credential, transport, status, body, rows) what the client
makes of it. `DocumentOk` is the validation as far as parts have their keys, refer to each other or are bounded, `Migrated` and
`Resolved` are `migrations.ts` and `resolve.ts`.

## 4. Runs

| run | instance | shows |
|---|---|---|
| `store` | 2 tasks, 2 attempts, 2 verifications, 2 owners, time-to-live 2, 4 ticks | row consistency, earned passes, justified completion, immutable history; exclusion of leases, protection of a leased mission, recovery that spares live leases - under every interleaving of operations by any number of processes |
| `host_boss` | 1 host, 1 Boss loop, 2 tasks, 2 attempts, 2 verifications, 2 starts, fair | recovery never throws, no attempt is leaked, what completes a mission is a review of the last runs, every attempt ends |
| `host_hosts` | 2 hosts, one with a Boss loop, one with any other command; the person may pause; 2 starts | each step is a step of `MissionStore`; late answers change nothing |
| `lock` | 3 processes, 2 faults of any kind, fair | takeovers exclude unless two happen at once or a holder outlasts `staleMs`; every request gets in or gives up |
| `lock_takeover` | 3 processes, 1 crash | a counterexample to exclusion, section 6 |
| `config` | 2 processes, 1 crash, 2 damages of the active file or 2 of snapshots, 3 generations, retention 1 | the refinement of `ConfigRegister`, no lost update, what is replaced is kept, a recovery source remains |
| `worker` | 1 run that may write, 2 routes, 2 attempts on each, failures with each consequence, a child that calls a tool and submits anything, an abort anywhere, 1 move of others, fair | no second child after a write, a true report, no way back to a route; where aborts return, every run ends |
| `worker_pair` | 2 runs that may write in one directory, 1 route, 2 attempts, children that need not stop, a failure counter at its limit, fair | one writer at a time; where aborts return, every run ends |
| `boss` | 1 loop, 1 task, 2 Boss routes, 2 cycles, every answer, 1 move of another process or crash, fair | the Boss stays pinned, partial work is gone on with once, every loop ends |
| `boss_aged` | the same, undisturbed | a counterexample, section 6 |
| `smart` | 2 hosts of which one can cancel, 3 prompts, a memory that is empty or holds a rule, 2 inputs, 1 move of others | learned rules rest on repeated choices, risky prompts are asked about, a rollback undoes its own write only |
| `setup` | 2 hosts (one beside a provider of Pi's), 2 gateways, 2 models, 3 things users start, from an empty configuration and one of an older release | models are served from the gateway that listed them, edits change what they were asked to, overrides tighten |

Bounds. Two attempts and two verifications are enough for a second one to collide with a first that is
running, ended, decided or recovered, which is all the operations distinguish; two tasks give one
implementation and one investigation, so that a verification of one can meet the rows of the other.
Four ticks with a time-to-live of two let a lease be taken, expire, be taken over and expire again. The
`store` run follows a behaviour either into leases and time or into reviews and the second task
(`LeasesOrReviews`); in the code a lease decides about attempts only, and an attempt is the same to a review
whoever holds the lease. Its view (`WhatMatters`) identifies states that differ only in which failure ended an
attempt, in which way a task waits, or which quality short of passed it has: guards and
properties read no more of them than that. A mission that is leased and reviewed at once is left to the theorems. Two
starts are one start of each of two hosts, or a crash and the recovery after it. Three processes are what
a takeover needs: the one that died, the one that takes over and the one that is late. `config` has two, so
that one is left after a crash and its lock excludes: it shows what the store makes of a lock that does,
not that it does; with two or more left it does not (`lock_takeover`), and `SoleTakerStoreIsRegister` names the
condition for any number. In `config` three
numbered changes cover a change, a damage and a recovery, and a retention of one is the least that may
leave anything. In `worker` two routes with two attempts each give a retry, a fallback and exhaustion; a
failure threshold of two opens a circuit within them, and one move lets the pool, the health file or the clock's
cooldowns change under each decision; two runs in one directory then show the line with a run that waits, or is
aborted, while the other one works, times out or leaves a child behind. In `boss` two cycles are a first and a last one, two routes a
pinned one and its fallback; resuming an interrupted mission is not counted as a move. In `smart` a rule
needs three observations and two are on record, or three, so that two inputs activate, contradict or use it;
one learned and one explicit rule are the least capacity that pruning can act on. In `setup` three starts are two
operations of one host around one of the other, or an edit, an advice on it and another edit.
`CHECK_DEADLOCK FALSE` throughout: ids, starts, clocks, generations and moves are finite, so the models
come to rest.

Fairness. `FairHostSpec`: a command that can go on does (Node runs what is not blocked; children,
planners and reviewers have time limits, so their awaits end, where the `abort()` of `executor.ts:401` returns), and a host that is down is started again;
nothing obliges the person to do anything, nor a command to begin. `FairLockSpec`: a process on its way to
the lock, or releasing it, takes its next step, and time passes. `FairBossSpec`: a loop that has begun takes
its next step; child and reviewer have time limits in the code (with the same proviso), the Boss's own inference has none, and is
assumed to end as a call of Pi's SDK. `FairWorkerSpec`: the promise queue of the health file serves in order,
so a step of the executor that waits for it is not overtaken for ever (SF); the timers of prompt and
finalisation fire, a queued write is made, and a bounded wait ends (`Detach` is one of the executor's own steps);
resolving a route and creating a session are calls of Pi that are taken to return. That `abort()` returns and an
aborted session comes to rest is no part of it: the code waits for the first without a limit, so `RunsEnd` has
it as its hypothesis (`AbortsReturn`). Nothing obliges a child to call a tool, to submit or to end by itself.

Each property of a passing run is shown to depend on the code by a mutation of a definition (listed in
`PROJECT.json` and defined beside the original, as `<Definition>_<What>`).

## 5. Proofs

`MissionStoreProofs` proves, for all constants, every property the runs of `MissionStore` check,
from `TaskColumns`, `ClockBounds` and `NoIdIsNull`, which say that each
task belongs to a mission, that the clock's bounds are positive and that NULL is not an id.

`TypeOK` is inductive. The other state properties are not: `RunningAttemptIsLastRun` (`RunningIsLast`) needs the
attempts' links to tasks, and `PassedIsEarned` needs that the target of a verification succeeded and,
attempts being final, still has. `StoreInv` is their conjunction with `RowsLinked`, and is inductive.
Interruption (`InterruptWork`), shared by recovery and shutdown, has lemmas of its own. Leases need a
second invariant, `GrantsAreLeases`: what a process was told and still believes is what the table
says; exclusion follows at once, and the action properties about leases from it and one lemma that
lists what a step may do to an attempt. `CompletionJustified` follows from `StoreInv` in the state
before the step. `HistoryImmutable` needs one lemma per table.

`MissionHostProofs` proves `HostTypeOK` (whose part `JobHolds`, that a command at a point holds the rows
its next step uses, is what makes the refinement go through), and `HostRefinesStore`: every step of any
number of hosts and commands is a step of the store or leaves it alone. The theorems about the store
then hold under the hosts (`HostCompletionJustified`, `HostHistoryImmutable`). `LateAnswersAreIgnored` is
proved by cases on the command that leaves "working". `AttemptsAreWaitedFor` (`NoLeakedAttempt`) needs
`LeakInv`: that src/host takes no leases (`Unleased`), so that recovery finds every running attempt.
`StartupsOpenStore` and `CompletionsAreReviewed` assume `BossAlone`, the composition `host_boss` checks: at most
one Boss loop on the missions, no command started by hand beside it, and a person who cancels but neither
pauses nor resumes. `AloneInv` says that an attempt or a verification that runs is the one its loop waits for, and is of a mission
that is running or over - the states from which recovery may move it (`RunsInOrder`) - and the loop of a running
mission has read its current revision, so what its own child does finds no other writer. `ReviewedInv` adds that
a task which passed was executed and the review behind it is of its last run (`PassedFits`), which a loop keeps
because the task it has in hand has not passed. They hold for any number of hosts, tasks,
attempts and crashes. With a second loop, or with a command beside it, both properties fail (section 6).

`StorageLockProofs`: the lock excludes as long as no two processes are between the `stat` and the `unlink` of a
takeover at once and no holder outlasts `staleMs` (`SoleTakerExcludes`), for any number of processes, crashes,
failed stamps and takeovers. The invariant `FreshWhileHeld` says that whoever is inside owns the file, and
that the one process about to remove a file has seen one that is still there and old, so nobody's.

`ConfigStoreProofs`: the store uses the lock as `StorageLock` says (`StoreUsesLock`), and, where the lock
excludes and the disk does not damage both the active file and snapshots (`Undisturbed`), it implements the register, loses no update, keeps
what it replaces and keeps a recovery source - for any number of processes, configurations, generations,
crashes and damages. The invariant `StoreInv` ties the files to `log` (`FilesOK`), the damages to
each other (`DiskOK`), each
change to what it has read (`ReadOK`, `WriteOK`), and has one fact that is easy to miss (`NearOK`): no
generation is more than two beyond the newest snapshot, and the one two beyond it is a recovery of that
very snapshot, as long as no snapshot was damaged. This is why a gap of one is enough when recovery cannot read the lost generation.
`SoleTakerStoreIsRegister` closes the chain: the exclusion is not assumed but taken from `SoleTakerExcludes`
through `StoreUsesLock`, so the store is the register whoever crashes with the lock, under that theorem's two
conditions.

`BossProofs` has `BossTypes` (`TypeInv`, inductive for any number of loops, routes and tasks; it needs
`NoTextIsNone`, that what stands for a missing text is not one) and three theorems about pure parts, for any
inputs: `PassIsEarned` (what the gate passes no check
and no reviewer rejected, and every criterion is accounted for), `ProbeIsSound` (a route that passed its probe is
not left for its message) and `PacketIsAccounted` (what the budget cuts is counted, what is left is the front of
what was selected). `BossStaysPinned` and `RecoveryHappensOnce` assume `OneLoop`: that one process works on
the mission, beside others that start, recover, review evidence and move the mission. The invariant says which part of the persisted state a loop's copy agrees with at
each point (`BossInv`), and that a task goes on after an assessment only when that assessment is in the
evidence. With two loops neither theorem holds, since boss.ts:813 reads the mission again but not the state
(section 6).

`WorkerRunProofs` rests on `WorkerInv`: for each run, what its local variables say of its child, of writes and
of earlier attempts at each place of the code (`RunOK`), and that the first of the line is the only one inside.
`OneWriterInside` and `NoWayBack` hold for any number of processes, runs and routes and any children, and so does
`AttemptsBounded`: the code limits the failures it has recorded for the route it is on, and `Counted` says how that
count and the attempts made differ at each place - by the attempt under way, and never while a choice is made.
`SelectionIsRight` is about the pure `SelectRoute`, for every pool (that some route of a set comes first is the
well-foundedness of its positions): "no eligible route" is never said while one is.
`NoSecondMutation` and `TrueReport` assume `Obedient`: a child that is aborted and does not stop within the
bounded wait may change files after it was counted as having changed none. `OneWriter` is about
children somebody observes; such a child is not one.

`SmartRoutingProofs` rests on `SmartInv`: explicit rules ask for missions only, a match that says "run normally"
was computed for this prompt and vouches that it is not risky (`ToldSafely`), and what a session knows of the
rule file between its backup and its rollback (`Knows`). `RiskIsAsked` and `RollbackTakesBackItsOwn` follow.
`PreferencesAreEarned` needs more (`EvidenceInv`): for every learned rule, the observations on record and the
choices that sessions have still to record for it are no more than the choices users made for prompts like
it - and so are those of the rules a session keeps aside for a rollback, which would put them back. It is a count over
prompts, by the cardinality of disjoint finite sets: the hosts are finite, and a prompt is like itself.

`SetupProofs`: `ListingNamesOnce` about every answer of a gateway; `ServedRight` from `CatalogueInv`, which
says that cache, registration and Pi's models each belong to the URL they are kept under, across every await;
`OverridesTighten` from the algebra of ceilings, for every valid document and all overrides. `EditsAreLocal`
rests on `ReadsSettle`: a document that was read is migrated already (`DocSettled`: its objects have their keys,
entries an effort and a weight, Boss profiles a list), and migrating that again is the identity. So what a
write changes is what it was asked to change and not, besides, what the next read makes of the rest: the theorem's
frame is every other pool, profile and entry, and every other field of the entry. What an
operation asks for must be a value the read leaves alone (`AskedInv`: an effort that is one, a weight for every
route of an advice); that an entry moved to the front leaves the order of the rest is a fact about `InsertAt` and
`RemoveAt`. `ReadsAreValid` adds
that migration keeps a document valid (`MigratedValid`, pool by pool and Boss by Boss): store.ts validates an
envelope again after migrating it, so a migration that did not would make a stored configuration unreadable.

Only model-checked: liveness (`AttemptsEnd`, `RequestsEnd`, `RunsEnd`, `LoopEnds`), which is out of the prover's
reach. Every invariant, action property and `TakeoverExcludes` of the passing runs is the statement of a theorem; those that
hold in some compositions only have the composition as a hypothesis (`OneLoop`, `BossAlone`, `Obedient`,
`Undisturbed`), named in the proof module and satisfied by the checked instance.

## 6. Disagreements with the documentation

With a run whose trace shows it:

* `lock_takeover`: two waiters judge the lock file of a crashed process abandoned; the second unlinks the file
  the first has created since, and both are inside (`history.ts:124`; the comment at line 80 promises
  mutations serialized across processes).
* `boss_aged`: on a pass the loop promotes the task's evidence in the order of admission. The assessment of a
  recovery names no source revision, so it is accepted and makes a new revision; the verified report behind it
  is then stale, `promoteEvidence` throws, the error is swallowed (`boss.ts:811`), and what the mission completes
  on never becomes canonical (docs/ACCEPTANCE_TESTS.md:1441, 1396).

Met while modelling, without a run of their own; where brackets name a configuration, or a change of an
instance and a property, TLC finds the trace with it. Mission and host:

* `recoverInterrupted` (`index.ts:539`) moves the mission of every orphan to `awaiting-review`, also from
  `planned`, `paused` and `blocked`, which may not go there. It throws, the recovery is rolled back, the host
  has no mission store, and the next start does the same [`MCMissionHostPaused.cfg`,
  `StartupOpensStore`]. The comment at `index.ts:533` and PRODUCT_SPEC.md:238 promise a reconciled start.
* Every process recovers when it starts (`pi-extension.ts:4487`), and `src/host` takes no mission lease, so a
  second process interrupts the attempt of a live child of the first and may start another on the task
  (PRODUCT_SPEC.md:238).
* `cancelActiveMission` (`mission-cancel.ts:83`) changes rows only; a Boss loop in its `await` goes on and
  dispatches a task of the cancelled mission [`host_boss` with a second job that cancels, and the property that no
  attempt starts in a cancelled mission] (PRODUCT_SPEC.md:377). It
  leaves the running attempts to the answers of their children (`mission-cancel.ts:88`).
* A manual verification holds the run it was asked for (`pi-extension.ts:3252`); when it passes after the task was run
  again, the mission completes on work nobody reviewed [`MCMissionHostReview.cfg`, `CompletedWorkReviewed`] (PRODUCT_SPEC.md:246).
* `recoverInterrupted({ owner })` (`index.ts:502`) does not look at the mission lease, although the comment at
  line 492 says recovery never touches attempts whose mission another live owner has leased. `src/host` never
  passes an owner.
* `resolveOrCreateMissionTask` (`task-identity.ts:13`) creates a twin of a task that is running, and reuses a
  `blocked` one although `executeMissionTask` refuses to run it (`execution.ts:49`).
* `admitEvidence` (`index.ts:410`) names eighteen columns and binds seventeen values.
* An error of the configuration read at `pi-extension.ts:2967` leaves `runCanonicalMission` outside its `try`.

Boss loop:

* With two loops on a mission, the one that reads the mission again (`boss.ts:813`) has the current revision but an
  old state, and its next save undoes the other's fallback or count [`boss` with two loops, `PinnedBoss`]
  (ACCEPTANCE_TESTS.md:466). "Recovery once" is likewise a check and an act in two transactions
  (ACCEPTANCE_TESTS.md:1439).
* One slot holds the last rejection's fingerprint, so rejections that alternate A, B, A, B never count as
  repeated (ACCEPTANCE_TESTS.md:1424, CURRENT_STATE.md:123, DECISIONS.md:636).
* A stale `persistState` inside the `try` of `boss.ts:820` is swallowed. A loop resumed from a persisted state
  starts with the cycle and the terminal of the one before.

Workers, routing and health:

* `recordFailure` replaces a record (`health/index.ts:142`): with a cooldown of the default length in force, a
  second failure of another class, say a rate limit without a delay, makes a record with none; the trace in
  `RouteHealth` is two runs that select the same route, the first failing with a transport error, the second
  with a 429 (ACCEPTANCE_TESTS.md:314).
* A retryable failure with a default cooldown is not retried on its route but falls back at once, since
  `retrySelection` finds the cooldown the failure has just recorded (ACCEPTANCE_TESTS.md:364). A text with "429" and "quota" counts as a
  rate limit.
* Selection by priority does not look at the circuit, only at cooldowns and probes (`routing/index.ts:320`), so
  routes that fail with rate limits without a delay are selected again at once; selection by weight refuses an open
  circuit, and one without a deadline stays refused until a reset, a probe or a success (PRODUCT_SPEC.md, HLTH-002 and
  HLTH-004).
* `executor.ts:401` awaits `session.abort()` without a limit before a late finalisation, so a child that does not
  come to rest keeps its run, and every run waiting for the directory, although the comment at line 499 says
  the bounded wait keeps a broken child from holding the lock forever [`MCWorkerRunStuck.cfg`, `LineMoves`].
* A directory is handed over while an aborted child that did not stop still works in it (CURRENT_STATE.md:978).

Configuration, catalogue and pools:

* If the active file and the newest snapshot are both damaged, the gap of one (`store.ts:231`) is too small:
  the model reaches a recovery that gives a generation a second configuration [`config` with
  `BothDamaged = TRUE`, `RegisterSpec`]. The theorems therefore assume `~BothDamaged`.
* `setEnabled` takes the entry from the cache of any gateway (`manager.ts:290`), and a refresh that fails in one
  process replaces a newer catalogue of another (ACCEPTANCE_TESTS.md:214). A route another host creates between
  its look and its write passes without the check of its identity.
* Applying a recommendation overwrites a weight edited between check and update, and marks as applied one that was
  ignored meanwhile (`analytics/index.ts:263`, CURRENT_STATE.md:1104) [`MCSetupStale.cfg`, `StaleAdviceIsLeft`].
* `validateSafety` takes every field as optional, in a full configuration too (`schema.ts:395`); without
  `protectedPathPrefixes`, `resolveConfig` throws.

Smart routing:

* Whether to learn is read before the mission runs and used after it (`pi-extension.ts:3748`, 3818).
* Choices M, N, M, N, M make the mission rule active at its third observation although users contradicted it
  twice (ACCEPTANCE_TESTS.md:965: "contradictory evidence prevents automation"; test/routing-memory.test.ts:190 tries
  a case in which it does) [`MCSmartRoutingMixed.cfg`, `ContradictedIsAsked`].
* A corrupt `routing-memory.json` is replaced silently, and its generation starts again, so a rollback's check of
  the generation can be deceived; `RollbackIsAlone` excludes damage.
* `discardCancelledMemoryRule` deletes a rule the prompt created although another host has merged a choice into it
  since; an observation merged by a prompt cancelled late stays (`pi-extension.ts:3691`).

Quality gate and packets:

* A reviewer's "blocked" becomes a pass when every criterion is satisfied. When no reported name matches a
  criterion, results are taken by position (`gate.ts:64`), so a criterion may pass on what was said of another;
  `PassIsEarned` states exactly this and no more.
* The manual quality loop calls `completeVerification` without class and mutation (`service.ts:85`), so an
  investigation that passes in the Boss loop blocks there.
* Constraints and acceptance criteria of a packet are trimmed without a count, and the ids of dropped items stay
  listed, so a packet can be refused that would fit without them (`broker.ts:217`).

## 7. What is not modelled

* File backup, restore and integrity checks of the database: file I/O around SQLite's own guarantees.
* `ConfigV2Store`, which nothing constructs; the formats of exports and the validation of single fields.
* HTTP, secrets and their storage: `CatalogAnswer` starts where a request has ended.
* The exchange of routing memory with a file and the editor of its rules; the validation of a model's routing
  answer, which is any valid answer or none.
* Prompts, projections, rendering and redaction of packets, usage accounting, transcripts, reports, dialogs and
  status texts: nothing decides by them.
* Scripts that build and release the package.
* What models answer: any answer is possible wherever one is awaited.
