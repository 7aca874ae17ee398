-------------------------------- MODULE Routing --------------------------------
(***************************************************************************)
(* The pure part of routing: how a failure is classified, what the executor *)
(* does next after it, and which candidates of a pool may be selected       *)
(* (src/src/core/routing/index.ts, and the reading of a provider's error    *)
(* text in src/src/core/workers/executor.ts).                               *)
(***************************************************************************)
EXTENDS Integers, FiniteSets

CONSTANTS
    Routes,          \* the routes of the pool
    NoRoute,         \* not a route
    Position,        \* Position[x]: place of x in the pool, its priority
    Scheduling,      \* the pool's policy, "priority" or "weighted"
    Weight,          \* Weight[x]: weight of x under "weighted"
    Diversity,       \* "none", "prefer" or "require"
    Conflicting,     \* routes the diversity context of the request avoids
    Excluded,        \* excludedRouteIds of the request
    MaxAttempts,     \* policy.maxAttempts
    FallbackEnabled  \* policy.fallback.enabled

ASSUME RoutingAssumption ==
    /\ NoRoute \notin Routes
    /\ IsFiniteSet(Routes)
    /\ Position \in [Routes -> Nat]
    /\ \A x, y \in Routes : Position[x] = Position[y] => x = y
    /\ Weight \in [Routes -> Nat]
    /\ Scheduling \in {"priority", "weighted"}
    /\ Diversity \in {"none", "prefer", "require"}
    /\ Conflicting \subseteq Routes
    /\ Excluded \subseteq Routes
    /\ MaxAttempts \in Nat \ {0}
    /\ FallbackEnabled \in BOOLEAN

-------------------------------------------------------------------------------
(* Failures *)

Retryable == {"rate_limited", "timeout", "transport_error"}
Conclusive == {"invalid_request", "unknown", "protocol_error"}
OtherRoute == {"quota_exhausted", "authentication_failed", "provider_unavailable",
               "model_unavailable", "result_capability"}
Classes == Retryable \cup Conclusive \cup OtherRoute \cup {"cancelled"}
NoFailure == "none"

\* The member of the sequence `tests` of <<condition, answer>> that comes first of those whose
\* condition holds: a chain of else-ifs.
FirstOf(tests) ==
    LET hits == {i \in DOMAIN tests : tests[i][1]}
    IN  tests[CHOOSE i \in hits : \A k \in hits : i <= k][2]

\* A failure as the transport describes it: a code ("none" when it has none), a status (0 when it
\* has none) and whether it says that it was cancelled or timed out.
ClassifyFailure(code, status, cancelled, timeout) ==
    FirstOf(<< <<cancelled \/ code = "cancelled", "cancelled">>,
               <<code = "quota_exhausted", "quota_exhausted">>,
               <<code = "authentication_failed" \/ status \in {401, 403}, "authentication_failed">>,
               <<timeout \/ code = "timeout", "timeout">>,
               <<code = "rate_limited" \/ status = 429, "rate_limited">>,
               <<code = "model_unavailable", "model_unavailable">>,
               <<code = "provider_unavailable" \/ status \in {502, 503, 504}, "provider_unavailable">>,
               <<code = "invalid_request" \/ status \in {400, 422}, "invalid_request">>,
               <<code = "protocol_error", "protocol_error">>,
               <<code = "result_capability", "result_capability">>,
               <<code = "transport_error", "transport_error">>,
               <<TRUE, "unknown">> >>)

\* The text of a provider's error is the set of telling words in it and at most one status.
Words == {"abort", "timeout", "rate", "auth", "quota", "invalid", "unavailable", "model", "protocol", "network"}

TextCode(words, status, fallbackToTransport) ==
    FirstOf(<< <<status = 408 \/ "timeout" \in words, "timeout">>,
               <<status = 429 \/ "rate" \in words, "rate_limited">>,
               <<status \in {401, 403} \/ "auth" \in words, "authentication_failed">>,
               <<"quota" \in words, "quota_exhausted">>,
               <<status \in {400, 422} \/ "invalid" \in words, "invalid_request">>,
               <<status \in {500, 502, 503, 504} \/ "unavailable" \in words, "provider_unavailable">>,
               <<"model" \in words, "model_unavailable">>,
               <<"protocol" \in words, "protocol_error">>,
               <<"network" \in words \/ fallbackToTransport, "transport_error">>,
               <<TRUE, "none">> >>)

\* An assistant message that stopped with an error (its text is all there is), and an exception
\* (whose text is read without the default of a transport failure, and whose name may say that it is
\* an abort).
ClassOfText(words, status) ==
    LET code == TextCode(words, status, TRUE) IN ClassifyFailure(code, status, FALSE, code = "timeout")
ClassOfError(words, status) ==
    LET code == TextCode(words, status, FALSE) IN ClassifyFailure(code, status, "abort" \in words, code = "timeout")

IsInfrastructureHealthFailure(class) == class \notin {NoFailure, "cancelled", "result_capability"}

\* `retries` failures of the current route came before this one.
DecideFailureAction(class, retries) ==
    IF class \in Retryable /\ retries < MaxAttempts - 1 THEN "RETRY_SAME_ROUTE"
    ELSE IF FallbackEnabled /\ class \notin Conclusive \cup {"cancelled"} THEN "FALLBACK_NEXT_ROUTE"
    ELSE "STOP"

\* `failed` is the number of failures recorded for the current route, this one included.
NextAfterFailure(class, failed) ==
    DecideFailureAction(class, IF failed = 0 THEN 0 ELSE failed - 1)

-------------------------------------------------------------------------------
(* Candidates. `state` is what the pool says of a route and `rec` is its health record: *)
(* circuit, until (0: no cooldown) and probing. *)

PoolStates == {"available", "disabled", "stale", "unavailable", "missing", "unknown"}

Cooling(rec, t) == rec.until > t

\* Weighted rotation skips an open circuit, except one whose recorded cooldown is over.
CircuitReady(rec, t) ==
    \/ Scheduling = "priority"
    \/ rec.circuit \notin {"open", "probing"}
    \/ rec.circuit = "open" /\ rec.until # 0 /\ rec.until <= t

StateReady(state) == state = "available" \/ (state = "stale" /\ Scheduling = "priority")

HealthReady(rec, t) == CircuitReady(rec, t) /\ ~Cooling(rec, t) /\ ~rec.probing

EvaluateCandidate_Again(x, state, rec, t, attempted) ==
    /\ StateReady(state)
    /\ HealthReady(rec, t)
    /\ x \notin Excluded

EvaluateCandidate(x, state, rec, t, attempted) ==
    /\ StateReady(state)
    /\ HealthReady(rec, t)
    /\ Scheduling = "weighted" => Weight[x] > 0
    /\ x \notin attempted \cup Excluded
    /\ Diversity = "require" => x \notin Conflicting

\* The routes selectRoute may return. Weighted rotation hashes the run's id: any of them.
SelectRoute(state, rec, t, attempted) ==
    LET eligible == {x \in Routes : EvaluateCandidate(x, state[x], rec[x], t, attempted)}
        clear == IF Diversity = "prefer" THEN eligible \ Conflicting ELSE eligible
        from == IF clear # {} THEN clear ELSE eligible
    IN  IF Scheduling = "weighted" THEN from
        ELSE {x \in from : \A y \in from : Position[x] <= Position[y]}

\* Whether retrySelection takes the same route again.
RetrySelection(state, rec, t) == StateReady(state) /\ HealthReady(rec, t)
===============================================================================
