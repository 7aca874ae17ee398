--------------------------------- MODULE Setup ---------------------------------
(***************************************************************************)
(* How models come to be offered to Pi and routes to the pools: the        *)
(* catalogue of ninerouter/manager.ts and cache.ts, the pools of           *)
(* pools/index.ts, the recommendations of analytics/index.ts, and the      *)
(* screens of host/pi-extension.ts that drive them, in several hosts (Pi   *)
(* processes) over one directory.                                          *)
(*                                                                         *)
(* A change of the configuration is one step, ConfigStore.update, which    *)
(* ConfigStore.tla shows to be atomic; but what the change was decided     *)
(* from has often been read some awaits earlier: a task is an operation    *)
(* with an await inside it, and `step` names the await.  One host has one  *)
(* task at a time: its screens wait for what they start, and refreshes     *)
(* queue.                                                                  *)
(***************************************************************************)
EXTENDS ConfigDocument, CatalogAnswer

CONSTANTS
    Hosts,          \* processes
    External,       \* those whose Pi has a 9Router provider of its own, without refreshModels
    PiUrl,          \* the base URL of that provider
    NoUrl,          \* of a cache or a registration that is not there
    Remotes,        \* model IDs at the gateway
    StableRouteId,  \* stableRouteId: a route ID for each
    Replies,        \* what a gateway may answer a request for its models with
    Past,           \* the configurations there may be at first
    Imports,        \* the documents users import
    Overrides,      \* [project, trusted, mission]: overrides of the configuration
    Asked,          \* weights users ask for
    Edited,         \* bound: the pools that users edit
    MaxMoves        \* bound: what users start

ASSUME SetupAssumption ==
    /\ External \subseteq Hosts /\ PiUrl \in Urls /\ NoUrl \notin Urls
    /\ IsInjective(StableRouteId) /\ Asked \subseteq Weights
    /\ Edited \subseteq PoolIds /\ MaxMoves \in Nat
    /\ \A d \in Past : DocumentOk(d)

VARIABLES
    document,       \* the active configuration, as any read of it gives it: migrated
    cache,          \* catalog.json
    pi,             \* what each manager knows of Pi's own catalogue
    registered,     \* the provider each host has registered with Pi
    task,           \* the operation each host is in
    advice,         \* the recommendation in analytics.sqlite
    moves           \* what users started so far

vars == <<document, cache, pi, registered, task, advice, moves>>

-------------------------------------------------------------------------------
(* The configuration                                                       *)

Gateway == "ninerouter"
Current == document
Configured(d) == Gateway \in DOMAIN d.gateways
GatewayOf(d) == d.gateways[Gateway]

\* ConfigStore.update: what is not valid is not written.
Update(d) == IF DocumentOk(d) THEN document' = Migrated(d) ELSE UNCHANGED document

Routes(d) == {r \in DOMAIN d.routes : d.routes[r].gateway = Gateway}
RoutesTo(d, remote) == {r \in Routes(d) : d.routes[r].remote = remote}

-------------------------------------------------------------------------------
(* The catalogue                                                           *)

Listings == [url \in Urls |-> {ListModels(a, url) : a \in Replies}]
\* What Pi's provider may have: what its gateway lists.
Catalogues == {l.entries : l \in Listings[PiUrl]}

NoCache == [kind |-> "missing", url |-> NoUrl, gen |-> 0, entries |-> {}, failed |-> FALSE]
NoPi == [models |-> {}, available |-> FALSE, authority |-> "none"]

\* cacheForGateway: a catalogue says nothing of another gateway.
CacheFor_Any(c, url) == IF c.kind = "valid" THEN c ELSE NoCache
CacheFor(c, url) == IF c.kind = "valid" /\ c.url = url THEN c ELSE NoCache

CatalogueUrl(h) ==
    IF Configured(Current) THEN GatewayOf(Current).url
    ELSE IF pi[h].authority = "upstream" THEN PiUrl ELSE NoUrl
Cached(h) == CacheFor(cache, CatalogueUrl(h))

\* mergeCatalogEntries: what Pi lists stands before what the gateway listed.
CatalogueOf(h) ==
    LET own == Cached(h).entries
    IN  IF pi[h].authority = "upstream" THEN own
        ELSE pi[h].models \cup {e \in own : \A m \in pi[h].models : m.remote # e.remote}

\* buildProjection
Served(h) ==
    IF ~Configured(Current) THEN {}
    ELSE {e \in CatalogueOf(h) :
             /\ GatewayOf(Current).on /\ e.kind # "non-chat"
             /\ Cardinality({r \in RoutesTo(Current, e.remote) : Current.routes[r].on}) = 1}

\* list: what is discovered and what is configured.
Rows(h) == {e.remote : e \in CatalogueOf(h)} \cup {Current.routes[r].remote : r \in Routes(Current)}
RowOn(remote) == \E r \in RoutesTo(Current, remote) : Current.routes[r].on

-------------------------------------------------------------------------------
(* Tasks                                                                   *)

Idle == [step |-> "idle", url |-> NoUrl, external |-> FALSE, prior |-> NoCache,
         remote |-> "none", on |-> FALSE, route |-> "none", entry |-> {},
         pool |-> "none", effort |-> "none", advised |-> <<>>]
At(h, step) == task[h].step = step
Become(h, t) == task' = [task EXCEPT ![h] = t]
Finish(h) == Become(h, Idle)
Goto(h, step) == Become(h, [task[h] EXCEPT !.step = step])

Start(h) == At(h, "idle") /\ moves < MaxMoves /\ moves' = moves + 1
Within == UNCHANGED moves

Refreshing(external, url) == [Idle EXCEPT !.step = "asked", !.external = external, !.url = url]
Reconciling == [Idle EXCEPT !.step = "reconciling"]

-------------------------------------------------------------------------------
(* The connection                                                          *)

\* configureConnection goes on to reconcile, setupConnection to refresh.
Following(url, secret) == IF secret = "pi-auth" THEN Refreshing(FALSE, url) ELSE Reconciling

\* configure
Configure(h, url, secret) ==
    /\ Start(h)
    /\ LET timeout == IF Configured(Current) THEN GatewayOf(Current).timeout ELSE 60000
           gateway == [url |-> url, on |-> TRUE, timeout |-> timeout, secret |-> secret]
       IN  Update([Current EXCEPT !.gateways = (Gateway :> gateway) @@ @])
    /\ Become(h, Following(url, secret))
    /\ UNCHANGED <<cache, pi, registered, advice>>

\* refreshAndReconcile, refresh and refreshExternalProviderCatalog up to the first await.
Refresh(h) ==
    /\ Start(h)
    /\ \/ h \in External /\ Become(h, Refreshing(TRUE, PiUrl))
       \/ /\ h \notin External /\ Configured(Current) /\ GatewayOf(Current).on
          /\ Become(h, Refreshing(FALSE, GatewayOf(Current).url))
    /\ UNCHANGED <<document, cache, pi, registered, advice>>

\* The catalogue that a failure would leave in place.
ReadPrior(h) ==
    /\ At(h, "asked")
    /\ Become(h, [task[h] EXCEPT !.step = "listing", !.prior = CacheFor(cache, task[h].url)])
    /\ Within /\ UNCHANGED <<document, cache, pi, registered, advice>>

\* The catalogue is saved as that of the gateway which was asked.
Listed(h, entries) ==
    /\ cache' = [kind |-> "valid", url |-> task[h].url, gen |-> task[h].prior.gen + 1,
                 entries |-> entries, failed |-> FALSE]
    /\ pi' = IF task[h].external
             THEN [pi EXCEPT ![h].available = TRUE, ![h].authority = "upstream"] ELSE pi
    /\ Goto(h, "reconciling")
    /\ Within /\ UNCHANGED <<document, registered, advice>>

\* No answer, a bad or empty one, or one that cannot be saved: recordFailure, which may fail too.
NotListed(h) ==
    /\ Finish(h)
    /\ \/ UNCHANGED cache
       \/ task[h].prior.kind = "valid" /\ cache' = [task[h].prior EXCEPT !.failed = TRUE]
    /\ Within /\ UNCHANGED <<document, pi, registered, advice>>

Answered(h) ==
    /\ At(h, "listing")
    /\ \E l \in Listings[task[h].url] :
          \/ l.error = "none" /\ l.entries # {} /\ Listed(h, l.entries)
          \/ NotListed(h)

-------------------------------------------------------------------------------
(* What Pi is told                                                         *)

\* adoptPiProviderCatalog: an empty catalogue does not take the place of one with models.
Adopt(h, models) ==
    pi' = IF models = {} /\ pi[h].available /\ pi[h].models # {} THEN pi
          ELSE [pi EXCEPT ![h] = [models |-> models, available |-> TRUE, authority |-> "pi"]]

\* syncPiProviderCatalog, as of any screen: once it was refreshed upstream Pi is not asked again.
SyncPi(h, models) ==
    /\ h \in External /\ pi[h].authority # "upstream" /\ Start(h)
    /\ Adopt(h, {[m EXCEPT !.at = PiUrl, !.label = "Pi 9Router", !.kind = "chat"] : m \in models})
    /\ UNCHANGED <<document, cache, registered, task, advice>>

NotRegistered == [url |-> NoUrl, models |-> {}]

\* reconcile: a provider of Pi's own is left alone, an own one is replaced.
Reconcile(h) ==
    /\ At(h, "reconciling") /\ Finish(h)
    /\ registered' =
         IF h \in External THEN registered
         ELSE [registered EXCEPT ![h] =
                 IF Served(h) = {} \/ GatewayOf(Current).secret \notin {"env", "pi-auth"} THEN NotRegistered
                 ELSE [url |-> GatewayOf(Current).url, models |-> Served(h)]]
    /\ Within /\ UNCHANGED <<document, cache, pi, advice>>

-------------------------------------------------------------------------------
(* Models: setEnabled                                                      *)

Toggle(h, remote) ==
    /\ remote \in Rows(h) /\ Start(h)
    /\ LET twins == RoutesTo(Current, remote)
           route == IF twins = {} THEN StableRouteId[remote] ELSE CHOOSE r \in twins : TRUE
       IN  /\ Cardinality(twins) <= 1
           /\ Become(h, [Idle EXCEPT !.step = IF RowOn(remote) THEN "switching" ELSE "looking",
                            !.on = ~RowOn(remote), !.remote = remote, !.route = route,
                            !.entry = {[label |-> Current.routes[r].label] : r \in twins}])
    /\ UNCHANGED <<document, cache, pi, registered, advice>>

\* routeIdentityMatches, as far as both name an owner.
SameIdentity(label, entry) == "none" \in {label, entry.label} \/ label = entry.label

\* The entry is taken from the cached catalogue whichever gateway that is of, or from Pi's.
Discovered(h, remote) ==
    LET listed == {e \in cache.entries : e.remote = remote}
    IN  IF cache.kind = "valid" /\ listed # {} THEN listed ELSE {m \in pi[h].models : m.remote = remote}

Look(h) ==
    /\ At(h, "looking")
    /\ LET found == Discovered(h, task[h].remote) IN
          IF \E e \in found : e.kind # "non-chat" /\ \A was \in task[h].entry : SameIdentity(was.label, e)
          THEN Become(h, [task[h] EXCEPT !.step = "switching", !.entry = found])
          ELSE Finish(h)
    /\ Within /\ UNCHANGED <<document, cache, pi, registered, advice>>

NewRoute(e) == [gateway |-> Gateway, remote |-> e.remote, class |-> e.class, label |-> e.label,
                levels |-> IF e.label = "none" THEN Empty ELSE e.levels, on |-> TRUE]
ImpliedGateway(h) ==
    [g \in IF Configured(Current) \/ ~pi[h].available THEN {} ELSE {Gateway} |->
        [url |-> PiUrl, on |-> TRUE, timeout |-> 60000, secret |-> "none"]]

\* A route that is there keeps what its author gave it.
Switched(h) ==
    LET t == task[h] IN
    IF Known(Current, t.route) THEN [Current EXCEPT !.routes[t.route].on = t.on]
    ELSE IF ~t.on THEN Current
    ELSE [Current EXCEPT !.gateways = MergedMap(ImpliedGateway(h), @),
                         !.routes = MergedMap([r \in {t.route} |-> NewRoute(CHOOSE e \in t.entry : TRUE)], @)]

Collides(h) ==
    LET t == task[h] IN t.on /\ Known(Current, t.route) /\ t.route \notin RoutesTo(Current, t.remote)

Switch(h) ==
    /\ At(h, "switching")
    /\ IF Collides(h) \/ ~DocumentOk(Switched(h)) THEN Finish(h) /\ UNCHANGED document
       ELSE Update(Switched(h)) /\ Goto(h, "reconciling")
    /\ Within /\ UNCHANGED <<cache, pi, registered, advice>>

-------------------------------------------------------------------------------
(* Pools                                                                   *)

Place(entries, route) == CHOOSE i \in DOMAIN entries : entries[i].route = route
Member(entries, route) == \E i \in DOMAIN entries : entries[i].route = route

\* addRoute, removeRoute, reorder, and what one entry is given
Added(entries, route) ==
    Append(entries, [route |-> route, on |-> TRUE, effort |-> "auto", weight |-> 1,
                     timeout |-> Absent, attempts |-> Absent])
Removed(entries, route) == RemoveAt(entries, Place(entries, route))
Moved(entries, route, target) ==
    LET i == Place(entries, route)
    IN  InsertAt(RemoveAt(entries, i), Min({Max({target, 1}), Len(entries)}), entries[i])
Changed(entries, route, field, value) ==
    [entries EXCEPT ![Place(entries, route)] = [@ EXCEPT ![field] = value]]

PoolEntries(p) == Current.pools[p].entries
SetEntries(p, entries) == Update([Current EXCEPT !.pools[p].entries = entries])

AddRoute(p, r) == Known(Current, r) /\ ~Member(PoolEntries(p), r) /\ SetEntries(p, Added(PoolEntries(p), r))
EditEntry(p, r) ==
    /\ Member(PoolEntries(p), r)
    /\ \/ SetEntries(p, Removed(PoolEntries(p), r))
       \/ \E step \in {-1, 1} : SetEntries(p, Moved(PoolEntries(p), r, Place(PoolEntries(p), r) + step))
       \/ \E target \in DOMAIN PoolEntries(p) : SetEntries(p, Moved(PoolEntries(p), r, target))
       \/ \E on \in BOOLEAN : SetEntries(p, Changed(PoolEntries(p), r, "on", on))
       \/ \E weight \in Asked : SetEntries(p, Changed(PoolEntries(p), r, "weight", weight))
SetPolicy(p, policy) == Update([Current EXCEPT !.pools[p].policy = policy])

\* The pool editor.
EditPool(h) ==
    /\ Start(h)
    /\ \E p \in Edited :
          \/ \E r \in DOMAIN Current.routes : AddRoute(p, r) \/ EditEntry(p, r)
          \/ \E policy \in Policies : SetPolicy(p, policy)
    /\ UNCHANGED <<cache, pi, registered, task, advice>>

\* The efforts of a model that reasons, by the levels the catalogue has for it or else those of the route.
Efforts(reasons, e, r) ==
    SupportedThinkingEfforts([reasons |-> reasons, levels |-> IF e.levels = Empty THEN r.levels ELSE e.levels])

\* boundCatalog, routeThinkingMetadata: a route with levels of its own reasons unless the catalogue denies it.
Confirmed(route) ==
    LET r == Current.routes[route]
        known == IF r.gateway = Gateway THEN {e \in CacheFor(cache, GatewayOf(Current).url).entries : e.remote = r.remote}
                 ELSE {}
        e == IF known = {} THEN [reasons |-> "none", levels |-> Empty] ELSE CHOOSE e \in known : TRUE
    IN  Efforts(IF e.reasons = "none" /\ r.levels # Empty THEN "yes" ELSE e.reasons, e, r)

\* setPoolEntryThinkingEffort up to its change: the effort must be one the catalogue confirms.
AskEffort(h, p, r, effort) ==
    /\ Start(h) /\ Known(Current, r) /\ effort \in Confirmed(r) \cup {"auto"}
    /\ Become(h, [Idle EXCEPT !.step = "effort", !.pool = p, !.route = r, !.effort = effort])
    /\ UNCHANGED <<document, cache, pi, registered, advice>>

SetEffort(h) ==
    /\ At(h, "effort") /\ Finish(h)
    /\ LET t == task[h] IN
          IF Member(PoolEntries(t.pool), t.route)
          THEN SetEntries(t.pool, Changed(PoolEntries(t.pool), t.route, "effort", t.effort))
          ELSE UNCHANGED document
    /\ Within /\ UNCHANGED <<cache, pi, registered, advice>>

-------------------------------------------------------------------------------
(* Boss profiles                                                           *)

Boss(b) == Current.bosses[b]
\* saveProfile
SaveBoss(b, profile) ==
    Update([Current EXCEPT !.bosses[b] =
        [profile EXCEPT !.routeIds = RoutesOf(profile.entries), !.policy = "weighted"]])

\* bossRouteCandidates: a model that is on, listed, not of a stale catalogue, and takes the effort its entry has.
Offered(h, route) ==
    LET r == Current.routes[route]
        listed == {e \in CatalogueOf(h) : e.remote = r.remote}
    IN  {"auto"} \cup UNION {Efforts(e.reasons, e, r) : e \in listed}
Electable(h, b, route) ==
    LET r == Current.routes[route]
        entries == Boss(b).entries
        listed == {e \in CatalogueOf(h) : e.remote = r.remote}
    IN  /\ r.on /\ RoutesTo(Current, r.remote) = {route}
        /\ ~Cached(h).failed
        /\ \E e \in listed : e.kind # "non-chat"
        /\ \E e \in Cached(h).entries : e.remote = r.remote
        /\ Member(entries, route) => entries[Place(entries, route)].effort \in Offered(h, route)

EditBoss(h) ==
    /\ Start(h)
    /\ \E b \in DOMAIN Current.bosses :
          \/ \E r \in DOMAIN Current.routes :
                LET entries == Boss(b).entries IN
                \/ /\ Electable(h, b, r)
                   /\ SaveBoss(b, [Boss(b) EXCEPT !.entries =
                          IF Member(entries, r) THEN Changed(entries, r, "on", TRUE)
                          ELSE Append(entries, [BossEntry(r) EXCEPT !.effort = "auto"])])
                \/ /\ Member(entries, r)
                   /\ \/ \E weight \in Asked :
                            SaveBoss(b, [Boss(b) EXCEPT !.entries = Changed(entries, r, "weight", weight)])
                      \/ \E effort \in IF Electable(h, b, r) THEN Offered(h, r) ELSE {"auto"} :
                            SaveBoss(b, [Boss(b) EXCEPT !.entries = Changed(entries, r, "effort", effort)])
          \/ \E on \in BOOLEAN : (on => Boss(b).entries # <<>>) /\ SaveBoss(b, [Boss(b) EXCEPT !.on = on])
    /\ UNCHANGED <<cache, pi, registered, task, advice>>

-------------------------------------------------------------------------------
(* Recommendations                                                         *)

NoAdvice == [status |-> "none", of |-> "none", kind |-> "weights", base |-> <<>>, to |-> <<>>]

\* recommendationKind: the weights or the order of a pool, or the weights of a Boss profile.
Kinds == {"weights", "order", "boss"}
\* Of what it is advised, by its ID: a pool, or the profile that was active then.
Advised == Edited \cup {Current.boss}
About(kind) == IF kind = "boss" THEN "bosses" ELSE "pools"
EntriesOf(d, a) == d[About(a.kind)][a.of].entries
There(d, a) == a.of \in DOMAIN d[About(a.kind)]
Shares(entries) == [i \in DOMAIN entries |-> <<entries[i].route, entries[i].weight>>]

\* showPoolWeightRecommendation, showBossWeightRecommendation, and advice on the order of a pool.
Propose(h, of, kind) ==
    /\ Start(h)
    /\ IF kind = "boss" THEN of = Current.boss ELSE of \in Edited
    /\ kind = "weights" => Current.pools[of].policy = "weighted"
    /\ LET entries == EntriesOf(Current, [of |-> of, kind |-> kind]) IN
          /\ entries # <<>>
          /\ \E to \in IF kind = "order" THEN {<<i>> : i \in DOMAIN entries} ELSE [DOMAIN entries -> Asked] :
                advice' = [status |-> "proposed", of |-> of, kind |-> kind, base |-> Shares(entries), to |-> to]
    /\ UNCHANGED <<document, cache, pi, registered, task>>

Ignore(h) ==
    /\ Start(h) /\ advice.status = "proposed"
    /\ advice' = [advice EXCEPT !.status = "ignored"]
    /\ UNCHANGED <<document, cache, pi, registered, task>>

\* sameWeightMap, or for advice on the order the same order.
Fits(entries, given) ==
    IF given.kind = "order" THEN RoutesOf(entries) = [i \in DOMAIN given.base |-> given.base[i][1]]
    ELSE Range(Shares(entries)) = Range(given.base)

\* RecommendationApplicationService.apply up to its change: what is stale is left.
Apply(h) ==
    /\ Start(h) /\ advice.status = "proposed"
    /\ There(Current, advice) /\ Fits(EntriesOf(Current, advice), advice)
    /\ Become(h, [Idle EXCEPT !.step = "applying", !.advised = advice])
    /\ UNCHANGED <<document, cache, pi, registered, advice>>

\* updatePoolWeights, updateBossWeights: for exactly the members there are now; or moveRoute to the front.
Applicable(entries, given) ==
    LET members == Range(RoutesOf(entries))
        base == {share[1] : share \in Range(given.base)}
    IN  IF given.kind = "order" THEN given.to[1] = 1 \/ given.base[given.to[1]][1] \in members ELSE members = base

Applied_FromRead(entries, given) ==
    [i \in DOMAIN given.base |->
        [entries[Place(entries, given.base[i][1])] EXCEPT !.on = TRUE,
            !.weight = IF given.kind = "order" THEN @ ELSE given.to[i]]]
\* What is recommended for the route.
Share(given, route) == given.to[CHOOSE j \in DOMAIN given.base : given.base[j][1] = route]
Applied(entries, given) ==
    IF given.kind # "order"
    THEN [i \in DOMAIN entries |-> [entries[i] EXCEPT !.weight = Share(given, entries[i].route)]]
    ELSE IF given.to[1] = 1 THEN entries ELSE Moved(entries, given.base[given.to[1]][1], 1)

ApplyChange(h) ==
    /\ At(h, "applying")
    /\ LET given == task[h].advised
           entries == EntriesOf(Current, given)
       IN  IF ~There(Current, given) \/ ~Applicable(entries, given) THEN Finish(h) /\ UNCHANGED document
           ELSE /\ Goto(h, "applied")
                /\ IF given.kind = "boss" THEN SaveBoss(given.of, [Boss(given.of) EXCEPT !.entries = Applied(entries, given)])
                   ELSE SetEntries(given.of, Applied(entries, given))
    /\ Within /\ UNCHANGED <<cache, pi, registered, advice>>

\* updateRecommendationStatus, whatever the status has become.
ApplyMark(h) ==
    /\ At(h, "applied") /\ Finish(h)
    /\ advice' = [advice EXCEPT !.status = "applied"]
    /\ Within /\ UNCHANGED <<document, cache, pi, registered>>

-------------------------------------------------------------------------------
(* The rest of the world                                                   *)

Import(h, i) ==
    /\ Start(h) /\ Importable(i.version, i.config) /\ Update(i.config)
    /\ UNCHANGED <<cache, pi, registered, task, advice>>

\* Pi's provider is gone, or cannot be asked.
LosePi(h) ==
    /\ h \in External /\ Start(h) /\ pi' = [pi EXCEPT ![h] = [NoPi EXCEPT !.authority = "pi"]]
    /\ pi[h].authority # "upstream"
    /\ UNCHANGED <<document, cache, registered, task, advice>>

Restart(h) ==
    /\ Become(h, Idle) /\ pi' = [pi EXCEPT ![h] = NoPi]
    /\ registered' = [registered EXCEPT ![h] = NotRegistered]
    /\ task[h] # Idle \/ pi[h] # NoPi
    /\ Within /\ UNCHANGED <<document, cache, advice>>

DamageCache ==
    /\ cache.kind = "valid" /\ cache' = [NoCache EXCEPT !.kind = "corrupt"]
    /\ UNCHANGED <<document, pi, registered, task, advice, moves>>

-------------------------------------------------------------------------------
Init ==
    /\ document \in {Migrated(d) : d \in Past}
    /\ cache = NoCache
    /\ pi = [h \in Hosts |-> NoPi]
    /\ registered = [h \in Hosts |-> NotRegistered]
    /\ task = [h \in Hosts |-> Idle]
    /\ advice = NoAdvice
    /\ moves = 0

Screens(h) ==
    \/ \E url \in Urls, secret \in {"env", "pi-auth"} : Configure(h, url, secret)
    \/ Refresh(h)
    \/ \E models \in Catalogues : SyncPi(h, models)
    \/ \E remote \in Remotes : Toggle(h, remote)
    \/ EditPool(h) \/ EditBoss(h)
    \/ \E p \in Edited, r \in DOMAIN Current.routes, effort \in Explicit \cup {"auto"} : AskEffort(h, p, r, effort)
    \/ \E of \in Advised, kind \in Kinds : Propose(h, of, kind)
    \/ Ignore(h) \/ Apply(h)
    \/ \E i \in Imports : Import(h, i)

Awaits(h) ==
    \/ ReadPrior(h) \/ Answered(h)
    \/ Look(h) \/ Switch(h) \/ SetEffort(h) \/ ApplyChange(h) \/ ApplyMark(h) \/ Reconcile(h)

Next ==
    \/ \E h \in Hosts : Screens(h) \/ Awaits(h) \/ LosePi(h) \/ Restart(h)
    \/ DamageCache

Spec == Init /\ [][Next]_vars

-------------------------------------------------------------------------------
(* Properties                                                              *)

\* What a host has registered with Pi under a base URL are models that this very gateway listed, or Pi's
\* own, whatever refreshes, configurations and other hosts came between (cacheForGateway, refreshUnlocked).
ServedFromItsGateway ==
    \A h \in Hosts : \A e \in registered[h].models : e.at = registered[h].url

\* Of the document only `field`, and of that only what is known by the key.
OnlyAt(field, key) ==
    /\ \A f \in Fields \ {field} : Current'[f] = Current[f]
    /\ DOMAIN Current'[field] = DOMAIN Current[field]
    /\ \A k \in DOMAIN Current[field] \ {key} : Current'[field][k] = Current[field][k]

\* The same routes in the same order, and nothing new of them but in `field` what was asked for each.
SameEntriesBut(before, after, field, asked) ==
    /\ DOMAIN after = DOMAIN before
    /\ \A i \in DOMAIN before :
          /\ DOMAIN after[i] = DOMAIN before[i]
          /\ \A f \in DOMAIN before[i] :
                \/ after[i][f] = before[i][f]
                \/ f = field /\ before[i].route \in DOMAIN asked /\ after[i][f] = asked[before[i].route]

\* The same entries, or one of them, of the route, brought to the front.
Fronted(before, after, route) ==
    \/ after = before
    \/ \E k \in DOMAIN before :
          /\ before[k].route = route /\ DOMAIN after = DOMAIN before
          /\ \A i \in DOMAIN before :
                after[i] = IF i = 1 THEN before[k] ELSE IF i <= k THEN before[i - 1] ELSE before[i]

\* A switch may add the gateway and its route, and turns the route as it was asked if it is there.
SwitchIsLocal(h) ==
    LET t == task[h] IN
    /\ \A f \in Fields \ {"routes", "gateways"} : Current'[f] = Current[f]
    /\ DOMAIN Current'.gateways \in {DOMAIN Current.gateways, DOMAIN Current.gateways \cup {Gateway}}
    /\ \A g \in DOMAIN Current.gateways : Current'.gateways[g] = Current.gateways[g]
    /\ DOMAIN Current'.routes \in {DOMAIN Current.routes, DOMAIN Current.routes \cup {t.route}}
    /\ \A r \in DOMAIN Current.routes :
          \/ Current'.routes[r] = Current.routes[r]
          \/ r = t.route /\ Current'.routes[r] = [Current.routes[r] EXCEPT !.on = t.on]

EffortIsLocal(h) ==
    LET t == task[h]
        before == Current.pools[t.pool]
        after == Current'.pools[t.pool]
    IN  /\ OnlyAt("pools", t.pool) /\ after.policy = before.policy
        /\ SameEntriesBut(before.entries, after.entries, "effort", [r \in {t.route} |-> t.effort])

\* Advice that is taken of a profile that is gone, or of others than its members, changes nothing.
AdviceIsLocal(h) ==
    LET a == task[h].advised
        before == Current[About(a.kind)][a.of]
        after == Current'[About(a.kind)][a.of]
    IN  /\ OnlyAt(About(a.kind), a.of)
        /\ There(Current, a) =>
              /\ \A f \in DOMAIN before \ {"entries"} : after[f] = before[f] \/ (a.kind = "boss" /\ f = "policy")
              /\ IF a.kind = "order" THEN Fronted(before.entries, after.entries, a.base[a.to[1]][1])
                 ELSE SameEntriesBut(before.entries, after.entries, "weight",
                                     [r \in {share[1] : share \in Range(a.base)} |-> Share(a, r)])

\* An operation that read before it writes leaves everything of the configuration as it finds it but what
\* it was asked for, and gives that the value it was asked, whatever other hosts changed in between: a
\* switch its own route's `on`, or a new route and the gateway it needs; an effort that of one entry of one
\* pool; advice the weights of the routes it names, or the place of one, in one pool or Boss profile, whose
\* policy then is by weight (setEnabled, setPoolEntryThinkingEffort, updatePoolWeights, updateBossWeights,
\* moveRoute).  It may undo what another host gave that same value: StaleAdviceIsLeft is about that.
EditsStayLocal ==
    [][\A h \in Hosts :
          /\ Switch(h) => SwitchIsLocal(h)
          /\ SetEffort(h) => EffortIsLocal(h)
          /\ ApplyChange(h) => AdviceIsLocal(h)]_vars

\* "Stale recommendation protection" (docs/CURRENT_STATE.md): advice changes the weights or the order it
\* was given for, never others that have taken their place (RecommendationApplicationService.apply, which
\* compares in one read of the configuration and changes in a later one).
StaleAdviceIsLeft ==
    [][\A h \in Hosts : ApplyChange(h) /\ document' # document =>
          Fits(EntriesOf(Current, task[h].advised), task[h].advised)]_vars

OnlyTightened(d, o) ==
    LET r == Resolved(d, o.project, o.trusted, o.mission) IN
    r # Rejected =>
        /\ DocumentOk(r) /\ d.protected \subseteq r.protected
        /\ \A k \in DOMAIN d.limits : r.limits[k] <= d.limits[k]
        /\ ~o.trusted => r = Resolved(d, Empty, TRUE, o.mission)

\* Over every configuration that edits and imports lead to, an override may tighten a ceiling and protect
\* more, in whatever layers it comes; an untrusted project changes nothing (resolveConfig, mergeSafety).
OverridesOnlyTighten ==
    [][document' # document => \A o \in Overrides : OnlyTightened(document', o)]_vars

================================================================================
