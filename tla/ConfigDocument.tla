----------------------------- MODULE ConfigDocument -----------------------------
(***************************************************************************)
(* A configuration document of src/src/core/config: what a valid one is    *)
(* (schema.ts), what older ones are turned into at every read              *)
(* (migrations.ts) and how a project's and a mission's overrides are laid  *)
(* over it (resolve.ts).                                                   *)
(*                                                                         *)
(* A document is a record of Fields; an override has some of them.  What   *)
(* is known by an ID is a function from IDs, so an entry's own copy of its *)
(* ID is left out, as are labels, instructions, tags and metadata that     *)
(* only pass through.  "none" and Absent stand for a key that is missing.  *)
(***************************************************************************)
EXTENDS Integers, Sequences, FiniteSets, SequencesExt, TLC

CONSTANTS
    Urls,           \* base URLs that parse as a gateway's
    Rejected        \* instead of a document: an error was thrown

Absent == -1
Empty == <<>>
Given(n, S) == n = Absent \/ n \in S

PoolIds == {"investigation", "implementation", "verification"}
Explicit == {"low", "medium", "high", "xhigh", "max"}
Policies == {"priority", "weighted"}
ResourceClasses == {"subscription", "metered-api", "unknown", "other"}
Gates == {"diff", "tests", "review", "acceptance", "regression", "no-critical-findings"}
Diversity == {"none", "prefer-different-family", "prefer-different-resource",
              "require-different-family", "require-different-resource"}
MaxWeight == 1000000
MaxTimeout == 600000
MaxBytes == 16777216
Timeouts == 1000 .. MaxTimeout
Weights == 0 .. MaxWeight

KeyedMaps == {"gateways", "routes", "roles", "bosses", "profiles"}
Fields == KeyedMaps \cup {"pools", "boss", "profile", "routing", "limits", "protected", "gates", "analytics"}

-------------------------------------------------------------------------------
(* The defaults                                                            *)

DefaultBoss == [on |-> TRUE, routeIds |-> <<>>, listed |-> TRUE, entries |-> <<>>, policy |-> "weighted"]
DefaultProfile == [on |-> TRUE, agents |-> 1, concurrency |-> 1, investigators |-> 0, reviewers |-> 0,
                   escalations |-> 0, diversity |-> "none"]
DefaultRoles == [researcher |-> "investigation", scout |-> "investigation", debugger |-> "implementation",
                 implementer |-> "implementation", reviewer |-> "verification", verifier |-> "verification"]

\* createDefaultConfig: neither gateways nor routes.
DefaultDocument ==
    [gateways |-> Empty, routes |-> Empty, roles |-> DefaultRoles,
     pools |-> [p \in PoolIds |-> [policy |-> "none", entries |-> <<>>]],
     bosses |-> ("default-boss" :> DefaultBoss), boss |-> "default-boss",
     profiles |-> ("default-policy" :> DefaultProfile), profile |-> "default-policy",
     routing |-> [attempts |-> 1, timeout |-> 60000, rateLimit |-> 30000, quota |-> 300000,
                  fallback |-> FALSE, diversity |-> "none"],
     limits |-> [agents |-> 4, concurrency |-> 2, attempts |-> 4, timeout |-> 120000,
                 output |-> 1048576, packet |-> 262144],
     protected |-> {}, gates |-> <<"diff", "tests">>, analytics |-> FALSE]

-------------------------------------------------------------------------------
(* Structure: each field by itself                                         *)

\* record and ensureKeys, an optional key being there with "none" or Absent; arrayValue.
IsObject(v, keys) == DOMAIN v = keys /\ v = [k \in keys |-> v[k]]
IsArray(v) == v \in Seq(Range(v)) /\ Len(v) <= 256

RouteKeys == {"gateway", "remote", "class", "label", "levels", "on"}
EntryKeys == {"route", "on", "effort", "weight"}
PoolEntryKeys == EntryKeys \cup {"timeout", "attempts"}
PoolKeys == {"policy", "entries"}
BossKeys == {"on", "routeIds", "listed", "entries", "policy"}

GatewayOk(g) == g.url \in Urls /\ g.timeout \in Timeouts /\ g.secret \in {"none", "pi-auth", "env", "keychain"}
RouteOk(r) == IsObject(r, RouteKeys) /\ r.class \in ResourceClasses
EntryOk(e) == e.effort \in {"none", "auto"} \cup Explicit /\ Given(e.weight, Weights)
PoolEntryOk(e) ==
    IsObject(e, PoolEntryKeys) /\ EntryOk(e) /\ Given(e.timeout, Timeouts) /\ Given(e.attempts, 1 .. 16)
PoolOk(p) ==
    /\ IsObject(p, PoolKeys) /\ p.policy \in Policies \cup {"none"}
    /\ IsArray(p.entries) /\ \A e \in Range(p.entries) : PoolEntryOk(e)
BossOk(b) ==
    /\ IsObject(b, BossKeys) /\ b.policy \in Policies \cup {"none"}
    /\ IsArray(b.routeIds) /\ IsInjective(b.routeIds)
    /\ b.listed => IsArray(b.entries) /\ \A e \in Range(b.entries) : IsObject(e, EntryKeys) /\ EntryOk(e)
ProfileOk(p) ==
    /\ {p.agents, p.concurrency} \subseteq 1 .. 64
    /\ {p.investigators, p.reviewers, p.escalations} \subseteq 0 .. 64
    /\ p.diversity \in Diversity
RoutingOk(r) ==
    /\ r.attempts \in 1 .. 16 /\ r.timeout \in Timeouts
    /\ {r.rateLimit, r.quota} \subseteq 0 .. 86400000
    /\ r.diversity \in Diversity

LimitRange == [agents |-> 1 .. 64, concurrency |-> 1 .. 64, attempts |-> 1 .. 16, timeout |-> Timeouts,
               output |-> 1024 .. MaxBytes, packet |-> 1024 .. MaxBytes]
\* Of the safety ceilings every one may be missing, in a document as in an override.
LimitsOk(limits) == \A k \in DOMAIN limits : k \in DOMAIN LimitRange /\ limits[k] \in LimitRange[k]

FieldOk(f, v) ==
    CASE f = "gateways" -> \A k \in DOMAIN v : GatewayOk(v[k])
      [] f = "routes" -> \A k \in DOMAIN v : RouteOk(v[k])
      [] f = "roles" -> \A k \in DOMAIN v : v[k] \in PoolIds
      [] f = "bosses" -> \A k \in DOMAIN v : BossOk(v[k])
      [] f = "profiles" -> \A k \in DOMAIN v : ProfileOk(v[k])
      [] f = "pools" -> DOMAIN v \subseteq PoolIds /\ \A k \in DOMAIN v : PoolOk(v[k])
      [] f = "routing" -> RoutingOk(v)
      [] f = "limits" -> LimitsOk(v)
      [] f = "gates" -> IsInjective(v) /\ Range(v) \subseteq Gates
      [] f \in {"boss", "profile", "protected", "analytics"} -> TRUE

StructureOk(d) ==
    /\ DOMAIN d = Fields /\ DOMAIN d.pools = PoolIds
    /\ \A f \in Fields : FieldOk(f, d[f])

-------------------------------------------------------------------------------
(* Semantics: references, duplicates and ceilings                          *)

RoutesOf(entries) == [i \in DOMAIN entries |-> entries[i].route]
Known(d, route) == route \in DOMAIN d.routes
\* A ceiling that is missing is not exceeded.
Exceeds(d, n, limit) == limit \in DOMAIN d.limits /\ n > d.limits[limit]

PoolSound(d, pool) ==
    /\ IsInjective(RoutesOf(pool.entries))
    /\ \A e \in Range(pool.entries) :
          Known(d, e.route) /\ ~Exceeds(d, e.timeout, "timeout") /\ ~Exceeds(d, e.attempts, "attempts")
BossSound(d, b) ==
    /\ \A r \in Range(b.routeIds) : Known(d, r)
    /\ b.listed => IsInjective(RoutesOf(b.entries)) /\ \A e \in Range(b.entries) : Known(d, e.route)
ProfileSound(d, p) ==
    /\ p.concurrency <= p.agents
    /\ ~Exceeds(d, p.agents, "agents") /\ ~Exceeds(d, p.concurrency, "concurrency")

SemanticsOk(d) ==
    /\ \A r \in DOMAIN d.routes : d.routes[r].gateway \in DOMAIN d.gateways \cup {"none"}
    /\ \A p \in PoolIds : PoolSound(d, d.pools[p])
    /\ \A b \in DOMAIN d.bosses : BossSound(d, d.bosses[b])
    /\ \A p \in DOMAIN d.profiles : ProfileSound(d, d.profiles[p])
    /\ d.boss \in DOMAIN d.bosses
    /\ d.profile \in DOMAIN d.profiles /\ d.profiles[d.profile].on
    /\ ~Exceeds(d, d.routing.attempts, "attempts") /\ ~Exceeds(d, d.routing.timeout, "timeout")

\* validateConfig
DocumentOk(d) == StructureOk(d) /\ SemanticsOk(d)

-------------------------------------------------------------------------------
(* Migration: what a document that says less is read as                    *)

Chosen(e, effort) ==
    [e EXCEPT !.effort = IF @ = "none" THEN effort ELSE @, !.weight = IF @ = Absent THEN 1 ELSE @]

\* migratePoolThinkingEffort, migratePoolScheduling
MigratedPool(p) ==
    [policy |-> IF p.policy = "none" THEN "priority" ELSE p.policy,
     entries |-> [i \in DOMAIN p.entries |-> Chosen(p.entries[i], "auto")]]

BossEntry(route) == [route |-> route, on |-> TRUE, effort |-> "max", weight |-> 1]
\* bossProfileEntries
BossEntries(b) == IF b.listed THEN b.entries ELSE [i \in DOMAIN b.routeIds |-> BossEntry(b.routeIds[i])]

\* migrateBossRuntimeDefaults: an empty list of entries gives way to routeIds too.
MigratedBoss(b) ==
    LET entries == IF b.listed /\ b.entries = <<>> THEN BossEntries([b EXCEPT !.listed = FALSE]) ELSE BossEntries(b)
    IN  [b EXCEPT !.listed = TRUE, !.entries = [i \in DOMAIN entries |-> Chosen(entries[i], "max")],
                  !.routeIds = RoutesOf(entries), !.policy = IF @ = "none" THEN "weighted" ELSE @]

\* migratePoolRuntimeDefaults
Migrated(d) ==
    [d EXCEPT !.pools = [p \in PoolIds |-> MigratedPool(d.pools[p])],
              !.bosses = [b \in DOMAIN d.bosses |-> MigratedBoss(d.bosses[b])]]

-------------------------------------------------------------------------------
(* Overrides                                                               *)

\* validateProjectOverride: structure only.
OverrideOk(o) == DOMAIN o \subseteq Fields /\ \A f \in DOMAIN o : FieldOk(f, o[f])

\* mergeSafety throws rather than raise a ceiling.
Loosens_Never(base, o) == FALSE
Loosens(base, o) ==
    "limits" \in DOMAIN o /\ \E k \in DOMAIN o.limits : Exceeds(base, o.limits[k], k)

\* mergeKeyedMap, mergePools
MergedMap(o, base) == [k \in DOMAIN o \cup DOMAIN base |-> IF k \in DOMAIN o THEN o[k] ELSE base[k]]

MergedField(base, o, f) ==
    CASE f \notin DOMAIN o -> base[f]
      [] f \in DOMAIN o \cap (KeyedMaps \cup {"pools", "limits"}) -> MergedMap(o[f], base[f])
      [] f \in DOMAIN o \cap {"protected"} -> base[f] \cup o[f]
      [] f \in DOMAIN o \ (KeyedMaps \cup {"pools", "limits", "protected"}) -> o[f]

\* toPatch, mergePatch
Overlay(base, o) ==
    IF base = Rejected \/ ~OverrideOk(o) THEN Rejected
    ELSE IF Loosens(base, o) THEN Rejected
    ELSE [f \in Fields |-> MergedField(base, o, f)]

\* resolveConfig: a project is heard only where it is trusted, and the mission after it.
Resolved(d, project, trusted, mission) ==
    LET one == IF trusted THEN Overlay(d, project) ELSE d
        two == Overlay(one, mission)
    IN  IF two = Rejected THEN Rejected ELSE IF DocumentOk(two) THEN two ELSE Rejected

\* parseConfigImport, for a registry without steps: the version is the current one or nothing.
Importable(version, d) == version = 1 /\ DocumentOk(d)

================================================================================
