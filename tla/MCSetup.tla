-------------------------------- MODULE MCSetup --------------------------------
(* A small instance of Setup for TLC. *)
EXTENDS Setup

CONSTANTS h1, h2, A, B

StableRouteIdDef == [alpha |-> "r9-alpha", beta |-> "r9-beta"]
\* A row, and what goes wrong with others: no ID, the same ID twice, one row too many.
Row(id, owner, type, tags) ==
    [id |-> id, owner |-> owner, class |-> "other", type |-> type, tags |-> tags, reasons |-> "yes",
     levels |-> IF owner = "acme" THEN [medium |-> "null", high |-> "null"] ELSE Empty]
Acme == Row("alpha", "acme", "none", {"chat"})
Bolt == Row("alpha", "bolt", "chat", {})
Beta == Row("beta", "bolt", "none", {})
RepliesDef ==
    [credential : {"none", "good", "unusable", "unresolved"}, ends : Ends, status : {200, 403, 502},
     body : {"json", "text", "oversized"},
     data : {NoData, <<>>, <<Acme>>, <<Bolt, Beta>>, <<Acme, Bolt>>, <<Acme, Bolt, Beta>>,
             <<Beta, Row(NoId, "none", "embedding", {})>>}]

\* A route whose owner was left open, first of a pool of two, and a Boss profile of the release before.
Route(remote) == [gateway |-> Gateway, remote |-> remote, class |-> "unknown", label |-> "none",
                  levels |-> IF remote = "alpha" THEN Empty ELSE [low |-> "null"], on |-> remote = "alpha"]
Entry(route) == [route |-> route, on |-> route = "r9-beta", effort |-> "none", weight |-> Absent,
                 timeout |-> Absent, attempts |-> Absent]
Legacy ==
    [DefaultDocument EXCEPT
        !.gateways = Gateway :> [url |-> A, on |-> TRUE, timeout |-> 60000, secret |-> "env"],
        !.routes = [x \in {"r9-alpha", "r9-beta"} |-> Route(IF x = "r9-alpha" THEN "alpha" ELSE "beta")],
        !.pools["implementation"] = [policy |-> "weighted", entries |-> <<Entry("r9-alpha"), Entry("r9-beta")>>],
        !.bosses["default-boss"] = [DefaultBoss EXCEPT !.listed = FALSE, !.routeIds = <<"r9-alpha">>, !.policy = "none"]]
PastDef == {DefaultDocument, Legacy}

\* Another model has the ID that a listed one would get, another Boss profile is the active one and a
\* ceiling is left out; a route is twice in a pool; a version nobody knows.
ImportsDef ==
    {[version |-> 1, config |-> [Legacy EXCEPT !.pools["implementation"].entries = <<Entry("r9-beta")>>,
                                    !.routes["r9-alpha"].remote = "beta",
                                    !.bosses = MergedMap([b \in {"other"} |-> DefaultBoss], @), !.boss = "other",
                                    !.limits = [k \in {"agents"} |-> 1]]],
     [version |-> 1, config |-> [Legacy EXCEPT !.pools["implementation"].entries = <<Entry("r9-beta"), Entry("r9-beta")>>]],
     [version |-> 2, config |-> Legacy]}

OverridesDef ==
    [project : {[limits |-> [agents |-> 2, attempts |-> 1], protected |-> {"secrets"}],
                [limits |-> [agents |-> 8]], [routing |-> [DefaultDocument.routing EXCEPT !.attempts = 16]]},
     trusted : BOOLEAN,
     mission : {Empty, [limits |-> [agents |-> 3], gates |-> <<>>]}]
================================================================================
