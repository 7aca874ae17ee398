------------------------------ MODULE RouteHealth ------------------------------
(***************************************************************************)
(* health.json, the record of each route that every process reads before it *)
(* selects a route and rewrites after each attempt                          *)
(* (src/src/core/health/index.ts). A process does one operation at a time   *)
(* (its promise queue), but nothing orders the operations of two processes: *)
(* an operation reads the whole file in one step and replaces it in another.*)
(***************************************************************************)
EXTENDS Routing

CONSTANTS
    Procs,             \* processes that share the file
    NoRecord,          \* no record of a route
    Damaged,           \* a file that does not parse, or has a record that is refused
    FailureThreshold,  \* consecutive failures that open the circuit (3 in the code)
    FailureLimit,      \* consecutiveFailures above which a record is refused (1000 in the code)
    MaxCooldown,       \* longest cooldown
    MaxTime,           \* bound on the clock
    MaxMoves         \* bound on moves of the file

ASSUME HealthAssumption ==
    /\ {FailureThreshold, FailureLimit} \subseteq Nat \ {0}
    /\ {MaxCooldown, MaxTime, MaxMoves} \subseteq Nat

VARIABLES
    health,   \* the file: a function from routes to records, or Damaged
    queue,    \* queue[p]: the operation process p has under way
    now,      \* the clock
    moves     \* what others have done so far

healthVars == <<health, queue, now, moves>>

Circuits == {"healthy", "degraded", "open", "probing"}
Record == [failures : 0 .. FailureLimit + 1, circuit : Circuits, until : Nat, probing : BOOLEAN]
Fresh == [failures |-> 0, circuit |-> "healthy", until |-> 0, probing |-> FALSE]
EmptyFile == [x \in Routes |-> NoRecord]

\* What a reader gets. A damaged file reads as none; a writer keeps a copy of it in quarantine, and
\* it stays in place until the write.
Readable(file) == IF file = Damaged THEN EmptyFile ELSE file
RecordOf(file, x) == IF Readable(file)[x] = NoRecord THEN Fresh ELSE Readable(file)[x]
Listed == [x \in Routes |-> RecordOf(health, x)]

Idle == [op |-> "none"]

HealthInit ==
    /\ health = EmptyFile
    /\ queue = [p \in Procs |-> Idle]
    /\ now = 1
    /\ moves = 0

-------------------------------------------------------------------------------
(* What the operations make of a record *)

\* The defaults of calculateCooldownUntil, in units of the shortest (30, 60 and 300 seconds keep
\* their order). The host passes no policy, so a rate limit and a quota have none.
DefaultCooldown(class) ==
    CASE class \in {"timeout", "transport_error"} -> 1
      [] class \in {"provider_unavailable", "model_unavailable"} -> 2
      [] class = "authentication_failed" -> 3
      [] OTHER -> 0

ShortestOf(a, b) == IF a < b THEN a ELSE b

\* `after` is the delay the provider asked for, 0 when it asked for none.
CalculateCooldownUntil(class, after, at) ==
    LET delay == ShortestOf(IF after > 0 THEN after ELSE DefaultCooldown(class), MaxCooldown)
    IN  IF delay = 0 THEN 0 ELSE at + delay

RecordFailure(rec, class, after, at) ==
    [failures |-> rec.failures + 1,
     circuit  |-> IF rec.failures + 1 >= FailureThreshold THEN "open" ELSE "degraded",
     until    |-> CalculateCooldownUntil(class, after, at),
     probing  |-> FALSE]

Changed(rec, o) ==
    CASE o.op = "failure" -> RecordFailure(rec, o.class, o.after, o.at)
      [] o.op = "probe"   -> [rec EXCEPT !.circuit = "probing", !.probing = TRUE]
      [] OTHER            -> Fresh     \* recordSuccess and reset

\* saveSnapshot refuses the whole file when one record is refused.
Saveable(file) == \A x \in Routes : file[x] = NoRecord \/ file[x].failures <= FailureLimit

-------------------------------------------------------------------------------
(* Actions *)

Moves == moves < MaxMoves /\ moves' = moves + 1

\* An operation starts and reads the file. recordFailure, recordSuccess, reset.
HealthRead(p, o) ==
    /\ queue[p] = Idle
    /\ queue' = [queue EXCEPT ![p] = [op |-> o.op, x |-> o.x, class |-> o.class, after |-> o.after,
                                      at |-> now, seen |-> Readable(health)]]
    /\ UNCHANGED <<health, now>>

FailureOp(x, class, after) == [op |-> "failure", x |-> x, class |-> class, after |-> after]
SuccessOp(x) == [op |-> "success", x |-> x, class |-> NoFailure, after |-> 0]
ResetOp(x) == [SuccessOp(x) EXCEPT !.op = "reset"]
ProbeOp(x) == [SuccessOp(x) EXCEPT !.op = "probe"]

\* The file the operation under way in p leaves behind.
FileAfter(p) ==
    LET o == queue[p]
        old == IF o.seen[o.x] = NoRecord THEN Fresh ELSE o.seen[o.x]
    IN  [o.seen EXCEPT ![o.x] = Changed(old, o)]

\* It replaces the file as a whole, or throws and leaves it.
HealthWrite(p) ==
    /\ queue[p] # Idle
    /\ health' = IF Saveable(FileAfter(p)) THEN FileAfter(p) ELSE health
    /\ queue' = [queue EXCEPT ![p] = Idle]
    /\ UNCHANGED <<now, moves>>

\* The person resets a route (/route-health).
Reset(p, x) == Moves /\ HealthRead(p, ResetOp(x))

\* blocked
Blocked(x) == LET rec == RecordOf(health, x) IN rec.probing \/ Cooling(rec, now)

\* beginProbe, which returns false without a record, during a probe and during a cooldown.
BeginProbe(p, x) ==
    /\ Readable(health)[x] # NoRecord /\ ~Blocked(x)
    /\ Moves
    /\ HealthRead(p, ProbeOp(x))

DamageHealth ==
    /\ Moves
    /\ health # Damaged
    /\ health' = Damaged
    /\ UNCHANGED <<queue, now>>

Tick ==
    /\ now < MaxTime
    /\ now' = now + 1
    /\ UNCHANGED <<health, queue, moves>>

===============================================================================
