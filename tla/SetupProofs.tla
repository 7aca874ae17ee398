------------------------------ MODULE SetupProofs ------------------------------
(***************************************************************************)
(* Theorems about Setup, for any hosts, gateways, answers, configurations  *)
(* and overrides: models reach Pi under the gateway that listed them, an   *)
(* override never loosens a ceiling of the configuration it is laid on,    *)
(* and an edit that was decided on before other edits changes only what it *)
(* was asked to, for a document that was read is migrated already - and    *)
(* valid, as migration keeps it.                                           *)
(***************************************************************************)
EXTENDS Setup, SequenceTheorems, TLAPS

-------------------------------------------------------------------------------
(* Answers of a gateway                                                    *)

LEMMA NothingInErrors == \A kind : Error(kind).entries = {} /\ Error(kind).error = kind
BY DEF Error

\* A catalogue is all of an answer, as entries of the gateway that was asked, or nothing of it.
LEMMA AllOrNothing ==
    ASSUME NEW data, NEW url
    PROVE  \/ \E kind \in Errors : ParseCatalog(data, url) = Error(kind)
           \/ /\ Faults(data) = {}
              /\ ParseCatalog(data, url) =
                     [error |-> "none", entries |-> {ParseEntry(data[i], url) : i \in DOMAIN data}]
BY DEF ParseCatalog, Errors

LEMMA FetchedOrNothing ==
    ASSUME NEW a, NEW url
    PROVE  \/ \E kind \in Errors : ListModels(a, url) = Error(kind)
           \/ ListModels(a, url) = ParseCatalog(a.data, url)
BY DEF ListModels, FetchCatalog, Errors

LEMMA ListedAt == ASSUME NEW a, NEW url PROVE \A e \in ListModels(a, url).entries : e.at = url
<1>1. \A row : ParseEntry(row, url).at = url
      BY DEF ParseEntry
<1> QED BY <1>1, NothingInErrors, AllOrNothing, FetchedOrNothing

\* An answer that names a model twice is refused whole: what a listing gives names every model once, so
\* a model ID tells the entry, and after an error there is nothing (parseCatalog, NineRouterClient).
THEOREM ListingNamesOnce ==
    ASSUME NEW a, NEW url, DOMAIN a.data = 1 .. Len(a.data), Len(a.data) \in Nat
    PROVE  LET l == ListModels(a, url) IN
           /\ \A e, f \in l.entries : e.remote = f.remote => e = f
           /\ \A e \in l.entries : e.remote # NoId
           /\ l.error # "none" => l.entries = {}
<1> DEFINE l == ListModels(a, url)
           data == a.data
<1>1. CASE \E kind \in Errors : l = Error(kind)
      BY <1>1, NothingInErrors
<1>2. CASE /\ Faults(data) = {}
           /\ l = [error |-> "none", entries |-> {ParseEntry(data[i], url) : i \in DOMAIN data}]
  <2>1. \A i \in DOMAIN data : data[i].id # NoId /\ \A k \in 1 .. (i - 1) : data[k].id # data[i].id
        BY <1>2 DEF Faults, Faulty
  <2>2. \A i, k \in DOMAIN data : data[i].id = data[k].id => i = k
    <3> SUFFICES ASSUME NEW i \in DOMAIN data, NEW k \in DOMAIN data, data[i].id = data[k].id, i # k
                 PROVE  FALSE
        OBVIOUS
    <3>1. i \in 1 .. (k - 1) \/ k \in 1 .. (i - 1)
          OBVIOUS
    <3> QED BY <2>1, <3>1
  <2>3. \A row : ParseEntry(row, url).remote = row.id
        BY DEF ParseEntry
  <2>4. \A e \in l.entries : \E i \in DOMAIN data : e = ParseEntry(data[i], url)
        BY <1>2
  <2> QED BY <1>2, <2>1, <2>2, <2>3, <2>4
<1> QED BY <1>1, <1>2, AllOrNothing, FetchedOrNothing

-------------------------------------------------------------------------------
(* The catalogue and what is registered                                    *)

\* Records by their fields, whatever the fields hold.
IsCache(c) ==
    c \in [kind : {c.kind}, url : {c.url}, gen : {c.gen}, entries : {c.entries}, failed : {c.failed}]
IsTask(t) ==
    t \in [step : {t.step}, url : {t.url}, external : {t.external}, prior : {t.prior}, remote : {t.remote},
           on : {t.on}, route : {t.route}, entry : {t.entry}, pool : {t.pool}, effort : {t.effort},
           advised : {t.advised}]

\* A catalogue holds what its own gateway listed.
CacheOK(c) ==
    /\ IsCache(c)
    /\ c.kind = "valid" => \A e \in c.entries : e.at = c.url
    /\ c.kind # "valid" => c.entries = {}

\* Only a host whose Pi has a 9Router of its own learns of models from Pi.
HostOK(h) ==
    /\ IsTask(task[h]) /\ CacheOK(task[h].prior)
    /\ task[h].step \in {"asked", "listing"} => task[h].url \in Urls
    /\ h \notin External => pi[h] = NoPi /\ ~task[h].external
    /\ h \in External => registered[h] = NotRegistered
    /\ \A e \in registered[h].models : e.at = registered[h].url

\* What a read gives is the migrated form of a document that was found to be valid.
DocOK(d) == \E c : DocumentOk(c) /\ d = Migrated(c)

\* The inductive invariant.
CatalogueInv ==
    /\ DocOK(document)
    /\ CacheOK(cache)
    /\ task = [h \in Hosts |-> task[h]]
    /\ pi = [h \in Hosts |-> pi[h]]
    /\ registered = [h \in Hosts |-> registered[h]]
    /\ \A h \in Hosts : HostOK(h)

LEMMA NoCacheOK == CacheOK(NoCache) /\ NoCache.entries = {}
BY DEF CacheOK, IsCache, NoCache

LEMMA IdleOK == IsTask(Idle) /\ Idle.prior = NoCache /\ ~Idle.external /\ Idle.step = "idle"
BY DEF Idle, IsTask

LEMMA CacheForOK == ASSUME NEW c, CacheOK(c), NEW url
                    PROVE  CacheOK(CacheFor(c, url)) /\ \A e \in CacheFor(c, url).entries : e.at = url
BY NoCacheOK DEF CacheFor, CacheOK

LEMMA MigratedSame ==
    ASSUME NEW c, DocumentOk(c)
    PROVE  /\ Migrated(c) = [f \in Fields |-> Migrated(c)[f]]
           /\ \A f \in Fields \ {"pools", "bosses"} : Migrated(c)[f] = c[f]
<1>1. DOMAIN c = Fields
      BY DEF DocumentOk, StructureOk
<1> QED BY <1>1 DEF Migrated

LEMMA UpdateKeeps == ASSUME DocOK(document), NEW d, Update(d) PROVE DocOK(document')
BY DEF Update, DocOK

LEMMA GatewayKnown == ASSUME NEW d, DocOK(d), Configured(d) PROVE GatewayOf(d).url \in Urls
<1>1. PICK c : DocumentOk(c) /\ d = Migrated(c)
      BY DEF DocOK
<1>2. d.gateways = c.gateways /\ FieldOk("gateways", c.gateways)
      BY <1>1, MigratedSame DEF Fields, KeyedMaps, DocumentOk, StructureOk
<1> QED BY <1>2 DEF FieldOk, GatewayOk, GatewayOf, Configured

\* A step of one host that changes its task, and perhaps the configuration and the catalogue.
LEMMA TaskStep ==
    ASSUME CatalogueInv, NEW h \in Hosts, NEW t, Become(h, t), IsTask(t), CacheOK(t.prior),
           t.step \in {"asked", "listing"} => t.url \in Urls,
           h \notin External => ~t.external, UNCHANGED <<pi, registered>>, CacheOK(cache'), DocOK(document')
    PROVE  CatalogueInv'
<1>1. task' = [k \in Hosts |-> IF k = h THEN t ELSE task[k]]
      BY DEF CatalogueInv, Become
<1> QED BY <1>1 DEF CatalogueInv, HostOK

\* Every change of the configuration goes through ConfigStore.update.
LEMMA Updates ==
    ASSUME Next
    PROVE  UNCHANGED document \/ \E d : Update(d)
<1>1. ASSUME NEW h \in Hosts, Screens(h) PROVE UNCHANGED document \/ \E d : Update(d)
  <2>1. \A url, secret : Configure(h, url, secret) => \E d : Update(d)
        BY DEF Configure
  <2>2. \A p, r : AddRoute(p, r) \/ EditEntry(p, r) => \E d : Update(d)
        BY DEF AddRoute, EditEntry, SetEntries
  <2>3. EditPool(h) => \E d : Update(d)
        BY <2>2 DEF EditPool, SetPolicy
  <2>4. EditBoss(h) => \E d : Update(d)
        BY DEF EditBoss, SaveBoss
  <2>5. \A i : Import(h, i) => \E d : Update(d)
        BY DEF Import
  <2>6. \/ Refresh(h) \/ (\E models \in Catalogues : SyncPi(h, models))
        \/ (\E remote \in Remotes : Toggle(h, remote))
        \/ (\E p, r, effort : AskEffort(h, p, r, effort))
        \/ (\E of, kind : Propose(h, of, kind)) \/ Ignore(h) \/ Apply(h)
        => UNCHANGED document
        BY DEF Refresh, SyncPi, Toggle, AskEffort, Propose, Ignore, Apply
  <2> QED BY <1>1, <2>1, <2>3, <2>4, <2>5, <2>6 DEF Screens
<1>2. ASSUME NEW h \in Hosts, Awaits(h) PROVE UNCHANGED document \/ \E d : Update(d)
  <2>1. ReadPrior(h) \/ Answered(h) \/ Look(h) \/ ApplyMark(h) \/ Reconcile(h) => UNCHANGED document
        BY DEF ReadPrior, Answered, Listed, NotListed, Look, ApplyMark, Reconcile
  <2>2. Switch(h) \/ SetEffort(h) => UNCHANGED document \/ \E d : Update(d)
        BY DEF Switch, SetEffort, SetEntries
  <2>3. ApplyChange(h) => UNCHANGED document \/ \E d : Update(d)
        BY DEF ApplyChange, SaveBoss, SetEntries
  <2> QED BY <1>2, <2>1, <2>2, <2>3 DEF Awaits
<1>3. \A h \in Hosts : LosePi(h) \/ Restart(h) => UNCHANGED document
      BY DEF LosePi, Restart
<1>4. DamageCache => UNCHANGED document
      BY DEF DamageCache
<1> QED BY <1>1, <1>2, <1>3, <1>4 DEF Next

LEMMA DocumentKeeps == ASSUME DocOK(document), Next PROVE DocOK(document')
BY Updates, UpdateKeeps

\* What the steps that begin an operation, or leave one, do to the invariant.
LEMMA PlainSteps ==
    ASSUME CatalogueInv, DocOK(document'), NEW h \in Hosts, UNCHANGED <<cache, pi, registered>>,
           \/ UNCHANGED task
           \/ \E step : step \notin {"asked", "listing"} /\ Goto(h, step)
           \/ \E t : Become(h, t) /\ IsTask(t) /\ t.prior = NoCache
                     /\ (t.step \in {"asked", "listing"} => t.url \in Urls) /\ (t.external => h \in External)
    PROVE  CatalogueInv'
<1> DEFINE t == task[h]
<1>1. /\ CacheOK(cache') /\ IsTask(t) /\ CacheOK(t.prior) /\ (h \notin External => ~t.external)
      BY DEF CatalogueInv, HostOK, CacheOK, IsCache
<1>2. CASE UNCHANGED task
      BY <1>2 DEF CatalogueInv, HostOK, CacheOK, IsCache
<1>3. ASSUME NEW step, step \notin {"asked", "listing"}, Goto(h, step) PROVE CatalogueInv'
  <2> DEFINE u == [t EXCEPT !.step = step]
  <2>1. IsTask(u) /\ u.prior = t.prior /\ u.external = t.external /\ u.step = step
        BY <1>1 DEF IsTask
  <2> QED BY <1>1, <1>3, <2>1, TaskStep DEF Goto
<1> QED BY <1>1, <1>2, <1>3, NoCacheOK, TaskStep

LEMMA BeginKeeps ==
    ASSUME CatalogueInv, DocOK(document'), NEW h \in Hosts, UNCHANGED <<cache, pi, registered>>,
           NEW t, Become(h, t), IsTask(t), t.prior = NoCache,
           t.step \in {"asked", "listing"} => t.url \in Urls, t.external => h \in External
    PROVE  CatalogueInv'
BY PlainSteps

LEMMA ScreensKeep ==
    ASSUME CatalogueInv, NEW h \in Hosts, Screens(h)
    PROVE  CatalogueInv'
<1>1. DocOK(document) /\ DocOK(document')
      BY DocumentKeeps DEF CatalogueInv, Next
<1>2. \A external \in BOOLEAN : \A url :
          /\ IsTask(Refreshing(external, url)) /\ Refreshing(external, url).prior = NoCache
          /\ Refreshing(external, url).url = url /\ Refreshing(external, url).external = external
          /\ Refreshing(external, url).step = "asked"
      BY IdleOK DEF Refreshing, IsTask
<1>3. ASSUME NEW url \in Urls, NEW secret, Configure(h, url, secret) PROVE CatalogueInv'
  <2>1. /\ IsTask(Reconciling) /\ Reconciling.prior = NoCache /\ ~Reconciling.external
        /\ Reconciling.step = "reconciling"
        BY IdleOK DEF IsTask, Reconciling
  <2>2. UNCHANGED <<cache, pi, registered>>
        BY <1>3 DEF Configure
  <2>3. Become(h, Following(url, secret))
        BY <1>3 DEF Configure
  <2>4. CASE Following(url, secret) = Refreshing(FALSE, url)
        BY <1>1, <1>2, <2>2, <2>3, <2>4, PlainSteps
  <2>5. CASE Following(url, secret) = Reconciling
        BY <1>1, <2>1, <2>2, <2>3, <2>5, PlainSteps
  <2> QED BY <2>4, <2>5 DEF Following
<1>4. CASE Refresh(h)
  <2>1. UNCHANGED <<cache, pi, registered>>
        BY <1>4 DEF Refresh
  <2>2. CASE h \in External
    <3> DEFINE u == Refreshing(TRUE, PiUrl)
    <3>1. Become(h, u)
          BY <1>4, <2>2 DEF Refresh
    <3>2. IsTask(u) /\ u.prior = NoCache /\ u.url \in Urls
          BY <1>2, SetupAssumption
    <3> HIDE DEF u
    <3> QED BY <1>1, <2>1, <2>2, <3>1, <3>2, BeginKeeps
  <2>3. CASE h \notin External
    <3> DEFINE u == Refreshing(FALSE, GatewayOf(Current).url)
    <3>1. Become(h, u) /\ Configured(Current)
          BY <1>4, <2>3 DEF Refresh
    <3>2. IsTask(u) /\ u.prior = NoCache /\ u.url \in Urls /\ ~u.external
          BY <1>1, <1>2, <3>1, GatewayKnown DEF Current
    <3> HIDE DEF u
    <3> QED BY <1>1, <2>1, <3>1, <3>2, BeginKeeps
  <2> QED BY <2>2, <2>3
<1>5. ASSUME NEW models, SyncPi(h, models) PROVE CatalogueInv'
  <2>1. h \in External /\ UNCHANGED <<cache, registered, task>>
        BY <1>5 DEF SyncPi
  <2>2. pi' = [k \in Hosts |-> pi'[k]] /\ \A k \in Hosts \ {h} : pi'[k] = pi[k]
        BY <1>5 DEF SyncPi, Adopt, CatalogueInv
  <2> QED BY <1>1, <2>1, <2>2 DEF CatalogueInv, HostOK, CacheOK, IsCache
<1>6. ASSUME NEW remote, Toggle(h, remote) PROVE CatalogueInv'
  <2>0. PICK step \in {"switching", "looking"} : \E on, route, entry :
          Become(h, [Idle EXCEPT !.step = step, !.on = on, !.remote = remote, !.route = route, !.entry = entry])
        BY <1>6 DEF Toggle
  <2>1. PICK on, route, entry :
          Become(h, [Idle EXCEPT !.step = step, !.on = on, !.remote = remote, !.route = route, !.entry = entry])
        BY <2>0
  <2>2. LET u == [Idle EXCEPT !.step = step, !.on = on, !.remote = remote, !.route = route, !.entry = entry]
        IN  IsTask(u) /\ u.prior = NoCache /\ ~u.external /\ u.step = step
        BY IdleOK DEF IsTask
  <2>3. UNCHANGED <<cache, pi, registered>>
        BY <1>6 DEF Toggle
  <2> QED BY <1>1, <2>1, <2>2, <2>3, PlainSteps
<1>7. ASSUME NEW p, NEW r, NEW effort, AskEffort(h, p, r, effort) PROVE CatalogueInv'
  <2>1. LET u == [Idle EXCEPT !.step = "effort", !.pool = p, !.route = r, !.effort = effort]
        IN  IsTask(u) /\ u.prior = NoCache /\ ~u.external /\ u.step = "effort"
        BY IdleOK DEF IsTask
  <2> QED BY <1>1, <1>7, <2>1, PlainSteps DEF AskEffort
<1>8. CASE Apply(h)
  <2>1. LET u == [Idle EXCEPT !.step = "applying", !.advised = advice]
        IN  IsTask(u) /\ u.prior = NoCache /\ ~u.external /\ u.step = "applying"
        BY IdleOK DEF IsTask
  <2> QED BY <1>1, <1>8, <2>1, PlainSteps DEF Apply
<1>9. CASE \/ EditPool(h) \/ EditBoss(h) \/ Ignore(h)
           \/ \E of, kind : Propose(h, of, kind)
           \/ \E i : Import(h, i)
  <2>1. UNCHANGED <<cache, pi, registered, task>>
        BY <1>9 DEF EditPool, EditBoss, Ignore, Propose, Import
  <2> QED BY <1>1, <2>1, PlainSteps
<1> QED BY <1>3, <1>4, <1>5, <1>6, <1>7, <1>8, <1>9 DEF Screens

\* What a refresh brings is saved under the gateway that was asked.
LEMMA AnswerKeeps ==
    ASSUME CatalogueInv, NEW h \in Hosts, Answered(h)
    PROVE  CatalogueInv'
<1> DEFINE t == task[h]
<1>1. /\ IsTask(t) /\ CacheOK(t.prior) /\ t.url \in Urls /\ t.step = "listing"
      /\ h \notin External => ~t.external
      BY DEF Answered, At, CatalogueInv, HostOK
<1>2. DocOK(document') /\ UNCHANGED <<document, registered>>
      BY DEF Answered, Listed, NotListed, CatalogueInv
<1>3. PICK l \in Listings[t.url] :
          \/ l.error = "none" /\ l.entries # {} /\ Listed(h, l.entries)
          \/ NotListed(h)
      BY DEF Answered
<1>4. \A e \in l.entries : e.at = t.url
      BY <1>1, <1>3, ListedAt DEF Listings
<1>5. CASE NotListed(h)
  <2> DEFINE c == [t.prior EXCEPT !.failed = TRUE]
  <2>1. CacheOK(c)
        BY <1>1 DEF CacheOK, IsCache
  <2>2. CacheOK(cache')
        BY <1>5, <2>1 DEF NotListed, CatalogueInv, CacheOK, IsCache
  <2>3. Become(h, Idle) /\ UNCHANGED <<pi, registered>>
        BY <1>5 DEF NotListed, Finish
  <2> QED BY <1>2, <2>2, <2>3, IdleOK, NoCacheOK, TaskStep
<1>6. CASE Listed(h, l.entries)
  <2> DEFINE c == [kind |-> "valid", url |-> t.url, gen |-> t.prior.gen + 1, entries |-> l.entries, failed |-> FALSE]
             u == [t EXCEPT !.step = "reconciling"]
  <2>1. CacheOK(c)
        BY <1>4 DEF CacheOK, IsCache
  <2>2. CacheOK(cache')
        BY <1>6, <2>1 DEF Listed
  <2>3. IsTask(u) /\ u.prior = t.prior /\ u.external = t.external /\ u.step = "reconciling"
        BY <1>1 DEF IsTask
  <2>4. Become(h, u)
        BY <1>6 DEF Listed, Goto
  <2>5. CASE t.external
    <3>1. h \in External /\ task' = [k \in Hosts |-> IF k = h THEN u ELSE task[k]]
          BY <1>1, <2>4, <2>5 DEF Become, CatalogueInv
    <3>2. pi' = [k \in Hosts |-> pi'[k]] /\ \A k \in Hosts \ {h} : pi'[k] = pi[k]
          BY <1>6, <2>5 DEF Listed, CatalogueInv
    <3> HIDE DEF u
    <3> QED BY <1>1, <1>2, <2>2, <2>3, <3>1, <3>2 DEF CatalogueInv, HostOK
  <2>6. CASE ~t.external
    <3>1. UNCHANGED <<pi, registered>>
          BY <1>6, <2>6 DEF Listed
    <3> HIDE DEF u
    <3> QED BY <1>1, <1>2, <2>2, <2>3, <2>4, <3>1, TaskStep
  <2> QED BY <2>5, <2>6
<1> QED BY <1>3, <1>5, <1>6

\* What a host without a 9Router of Pi's own registers is of the catalogue of the gateway it registers it under.
LEMMA ReconcileKeeps ==
    ASSUME CatalogueInv, NEW h \in Hosts, Reconcile(h)
    PROVE  CatalogueInv'
<1>1. /\ DocOK(document') /\ UNCHANGED <<document, cache, pi>> /\ CacheOK(cache')
      /\ task' = [k \in Hosts |-> IF k = h THEN Idle ELSE task[k]]
      BY DEF Reconcile, Finish, Become, CatalogueInv, CacheOK, IsCache
<1>2. CASE h \in External
      BY <1>1, <1>2, IdleOK, NoCacheOK DEF Reconcile, CatalogueInv, HostOK
<1>3. CASE h \notin External
  <2> DEFINE r == IF Served(h) = {} \/ GatewayOf(Current).secret \notin {"env", "pi-auth"} THEN NotRegistered
                  ELSE [url |-> GatewayOf(Current).url, models |-> Served(h)]
  <2>1. registered' = [k \in Hosts |-> IF k = h THEN r ELSE registered[k]]
        BY <1>3 DEF Reconcile, CatalogueInv
  <2>2. pi[h] = NoPi
        BY <1>3 DEF CatalogueInv, HostOK
  <2>3. Served(h) = {} \/ Configured(Current)
        BY DEF Served
  <2>4. \A e \in Served(h) : e \in CatalogueOf(h)
        BY DEF Served
  <2>5. \A e \in CatalogueOf(h) : e \in Cached(h).entries
        BY <2>2 DEF CatalogueOf, NoPi
  <2>6. Configured(Current) => \A e \in Cached(h).entries : e.at = GatewayOf(Current).url
        BY CacheForOK DEF Cached, CatalogueUrl, CatalogueInv
  <2>7. \A e \in r.models : e.at = r.url
        BY <2>3, <2>4, <2>5, <2>6 DEF NotRegistered
  <2> HIDE DEF r
  <2> QED BY <1>1, <1>3, <2>1, <2>7, IdleOK, NoCacheOK DEF CatalogueInv, HostOK
<1> QED BY <1>2, <1>3

LEMMA AwaitsKeep ==
    ASSUME CatalogueInv, NEW h \in Hosts, Awaits(h)
    PROVE  CatalogueInv'
<1> DEFINE t == task[h]
<1>1. DocOK(document) /\ DocOK(document')
      BY DocumentKeeps DEF CatalogueInv, Next
<1>2. IsTask(t) /\ CacheOK(t.prior) /\ (h \notin External => ~t.external)
      BY DEF CatalogueInv, HostOK
<1>3. CASE ReadPrior(h)
  <2> DEFINE prior == CacheFor(cache, t.url)
             u == [t EXCEPT !.step = "listing", !.prior = prior]
  <2>1. CacheOK(prior) /\ t.url \in Urls
        BY <1>3, CacheForOK DEF ReadPrior, At, CatalogueInv, HostOK
  <2> HIDE DEF prior
  <2>2. IsTask(u) /\ u.prior = prior /\ u.url = t.url /\ u.external = t.external
        BY <1>2 DEF IsTask
  <2>3. Become(h, u) /\ UNCHANGED <<cache, pi, registered>>
        BY <1>3 DEF ReadPrior, prior
  <2>4. CacheOK(cache')
        BY <2>3 DEF CatalogueInv, CacheOK, IsCache
  <2> HIDE DEF u
  <2> QED BY <1>1, <1>2, <2>1, <2>2, <2>3, <2>4, TaskStep
<1>4. CASE Look(h)
  <2> DEFINE found == Discovered(h, t.remote)
             u == [t EXCEPT !.step = "switching", !.entry = found]
  <2>1. Finish(h) \/ Become(h, u)
        BY <1>4 DEF Look
  <2>2. UNCHANGED <<cache, pi, registered>> /\ CacheOK(cache')
        BY <1>4 DEF Look, CatalogueInv, CacheOK, IsCache
  <2> HIDE DEF found
  <2>3. IsTask(u) /\ u.prior = t.prior /\ u.step = "switching" /\ u.external = t.external
        BY <1>2 DEF IsTask
  <2> HIDE DEF u
  <2>4. CASE Finish(h)
        BY <1>1, <2>2, <2>4, IdleOK, PlainSteps DEF Finish
  <2>5. CASE Become(h, u)
        BY <1>1, <1>2, <2>2, <2>3, <2>5, TaskStep
  <2> QED BY <2>1, <2>4, <2>5
<1>5. CASE \/ Switch(h) \/ SetEffort(h) \/ ApplyChange(h) \/ ApplyMark(h)
  <2>1. UNCHANGED <<cache, pi, registered>>
        BY <1>5 DEF Switch, SetEffort, ApplyChange, ApplyMark
  <2>2. Finish(h) \/ Goto(h, "reconciling") \/ Goto(h, "applied")
        BY <1>5 DEF Switch, SetEffort, ApplyChange, ApplyMark
  <2>3. CASE Finish(h)
        BY <1>1, <2>1, <2>3, IdleOK, PlainSteps DEF Finish
  <2>4. CASE Goto(h, "reconciling") \/ Goto(h, "applied")
        BY <1>1, <2>1, <2>4, PlainSteps
  <2> QED BY <2>2, <2>3, <2>4
<1> QED BY <1>3, <1>4, <1>5, AnswerKeeps, ReconcileKeeps DEF Awaits

LEMMA InitCatalogue == Init => CatalogueInv
<1> SUFFICES ASSUME Init PROVE CatalogueInv
    OBVIOUS
<1>1. DocOK(document)
      BY SetupAssumption DEF Init, DocOK
<1>2. CacheOK(cache)
      BY NoCacheOK DEF Init
<1> QED BY <1>1, <1>2, IdleOK, NoCacheOK DEF Init, CatalogueInv, HostOK, NotRegistered

LEMMA StepCatalogue == ASSUME CatalogueInv, [Next]_vars PROVE CatalogueInv'
<1>1. ASSUME NEW h \in Hosts, LosePi(h) PROVE CatalogueInv'
  <2>1. h \in External /\ UNCHANGED <<document, cache, registered, task>>
        BY <1>1 DEF LosePi
  <2>2. pi' = [k \in Hosts |-> pi'[k]] /\ \A k \in Hosts \ {h} : pi'[k] = pi[k]
        BY <1>1 DEF LosePi, CatalogueInv
  <2> QED BY <2>1, <2>2 DEF CatalogueInv, HostOK, CacheOK, IsCache
<1>2. ASSUME NEW h \in Hosts, Restart(h) PROVE CatalogueInv'
  <2>1. /\ task' = [k \in Hosts |-> IF k = h THEN Idle ELSE task[k]]
        /\ pi' = [k \in Hosts |-> IF k = h THEN NoPi ELSE pi[k]]
        /\ registered' = [k \in Hosts |-> IF k = h THEN NotRegistered ELSE registered[k]]
        /\ UNCHANGED <<document, cache>>
        BY <1>2 DEF Restart, Become, CatalogueInv
  <2>2. DocOK(document') /\ CacheOK(cache')
        BY <2>1 DEF CatalogueInv, CacheOK, IsCache
  <2> QED BY <2>1, <2>2, IdleOK, NoCacheOK DEF CatalogueInv, HostOK, NotRegistered
<1>3. CASE DamageCache
  <2>1. CacheOK(cache')
        BY <1>3, NoCacheOK DEF DamageCache, NoCache, CacheOK, IsCache
  <2>2. UNCHANGED <<document, pi, registered, task>>
        BY <1>3 DEF DamageCache
  <2> QED BY <2>1, <2>2 DEF CatalogueInv, HostOK
<1>4. CASE UNCHANGED vars
      BY <1>4 DEF vars, CatalogueInv, HostOK, CacheOK, IsCache
<1> QED BY <1>1, <1>2, <1>3, <1>4, ScreensKeep, AwaitsKeep DEF Next

\* For any hosts, gateways and answers, whatever refreshes, configurations and other hosts come between,
\* what a host has registered with Pi under a base URL is what that very gateway listed.
THEOREM ServedRight == Spec => []ServedFromItsGateway
<1>1. CatalogueInv => ServedFromItsGateway
      BY DEF CatalogueInv, HostOK, ServedFromItsGateway
<1> QED BY <1>1, InitCatalogue, StepCatalogue, PTL DEF Spec

-------------------------------------------------------------------------------
(* Overrides                                                               *)

LEMMA LimitsAreNumbers ==
    ASSUME NEW limits, LimitsOk(limits)
    PROVE  \A k \in DOMAIN limits : limits[k] \in Int
<1> SUFFICES ASSUME NEW k \in DOMAIN LimitRange, limits[k] \in LimitRange[k]
             PROVE  limits[k] \in Int
    BY DEF LimitsOk
<1> DEFINE bytes == 1024 .. MaxBytes
           many == 1 .. 64
           few == 1 .. 16
<1>1. MaxTimeout \in Int /\ MaxBytes \in Int
      BY DEF MaxTimeout, MaxBytes
<1>2. \A S \in {Timeouts, bytes, many, few} : \A n \in S : n \in Int
      BY <1>1 DEF Timeouts
<1>3. k \in {"agents", "concurrency", "attempts", "timeout", "output", "packet"}
      BY DEF LimitRange
<1>4. /\ LimitRange["agents"] = many /\ LimitRange["concurrency"] = many /\ LimitRange["attempts"] = few
      /\ LimitRange["timeout"] = Timeouts /\ LimitRange["output"] = bytes /\ LimitRange["packet"] = bytes
      BY DEF LimitRange
<1> HIDE DEF bytes, many, few
<1>5. LimitRange[k] \in {Timeouts, bytes, many, few}
      BY <1>3, <1>4
<1> QED BY <1>2, <1>5

\* One layer only tightens, and leaves ceilings that are numbers.
LEMMA OverlayTightens ==
    ASSUME NEW base, NEW o, LimitsOk(base.limits), Overlay(base, o) # Rejected
    PROVE  LET r == Overlay(base, o) IN
           /\ LimitsOk(r.limits)
           /\ base.protected \subseteq r.protected
           /\ \A k \in DOMAIN base.limits : k \in DOMAIN r.limits /\ r.limits[k] <= base.limits[k]
<1> DEFINE r == Overlay(base, o)
<1>1. OverrideOk(o) /\ ~Loosens(base, o) /\ r = [f \in Fields |-> MergedField(base, o, f)]
      BY DEF Overlay
<1>2. r.limits = MergedField(base, o, "limits") /\ r.protected = MergedField(base, o, "protected")
      BY <1>1 DEF Fields
<1>3. base.protected \subseteq r.protected
      BY <1>2 DEF MergedField, KeyedMaps
<1>4. CASE "limits" \notin DOMAIN o
  <2>1. r.limits = base.limits
        BY <1>2, <1>4 DEF MergedField
  <2> QED BY <1>3, <2>1, LimitsAreNumbers
<1>5. CASE "limits" \in DOMAIN o
  <2> DEFINE a == o.limits
             b == base.limits
             m == r.limits
  <2>1. FieldOk("limits", a)
        BY <1>1, <1>5 DEF OverrideOk
  <2>2. LimitsOk(a)
        BY <2>1 DEF FieldOk
  <2>3. \A k \in DOMAIN a \cap DOMAIN b : ~(a[k] > b[k])
        BY <1>1, <1>5 DEF Loosens, Exceeds
  <2>4. m = MergedMap(a, b)
        BY <1>2, <1>5 DEF MergedField, KeyedMaps
  <2> HIDE DEF a, b, m
  <2>5. m = [k \in DOMAIN a \cup DOMAIN b |-> IF k \in DOMAIN a THEN a[k] ELSE b[k]]
        BY <2>4 DEF MergedMap
  <2>6. (\A k \in DOMAIN a : a[k] \in Int) /\ LimitsOk(b) /\ (\A k \in DOMAIN b : b[k] \in Int)
        BY <2>2, LimitsAreNumbers DEF b
  <2>7. LimitsOk(m)
        BY <2>2, <2>5, <2>6 DEF LimitsOk
  <2>8. \A k \in DOMAIN b : k \in DOMAIN m /\ m[k] <= b[k]
        BY <2>3, <2>5, <2>6
  <2> QED BY <1>3, <2>7, <2>8 DEF b, m
<1> QED BY <1>4, <1>5

\* An override that says nothing changes nothing.
LEMMA EmptyOverlay ==
    ASSUME NEW d, d = Rejected \/ d = [f \in Fields |-> d[f]]
    PROVE  Overlay(d, Empty) = d
<1>1. DOMAIN Empty = {}
      BY DEF Empty
<1>2. OverrideOk(Empty) /\ ~Loosens(d, Empty) /\ \A f : MergedField(d, Empty, f) = d[f]
      BY <1>1 DEF OverrideOk, Loosens, MergedField
<1> QED BY <1>2 DEF Overlay

\* In whatever layers overrides come, over a document that may be read.
LEMMA TightenedOnly ==
    ASSUME NEW d, DocOK(d), NEW o
    PROVE  OnlyTightened(d, o)
<1> DEFINE one == IF o.trusted THEN Overlay(d, o.project) ELSE d
           two == Overlay(one, o.mission)
           r == Resolved(d, o.project, o.trusted, o.mission)
<1>1. PICK c : DocumentOk(c) /\ d = Migrated(c)
      BY DEF DocOK
<1>2. d = [f \in Fields |-> d[f]]
      BY <1>1, MigratedSame
<1>3. LimitsOk(d.limits)
  <2>1. d.limits = c.limits /\ FieldOk("limits", c.limits)
        BY <1>1, MigratedSame DEF Fields, KeyedMaps, DocumentOk, StructureOk
  <2> QED BY <2>1 DEF FieldOk
<1>4. ASSUME r # Rejected
      PROVE  /\ DocumentOk(r) /\ d.protected \subseteq r.protected
             /\ \A k \in DOMAIN d.limits : r.limits[k] <= d.limits[k]
  <2>1. r = two /\ two # Rejected /\ DocumentOk(r)
        BY <1>4 DEF Resolved
  <2>2. one # Rejected
        BY <2>1 DEF Overlay
  <2>3. /\ LimitsOk(one.limits) /\ d.protected \subseteq one.protected
        /\ \A k \in DOMAIN d.limits : k \in DOMAIN one.limits /\ one.limits[k] <= d.limits[k]
        BY <1>3, <2>2, OverlayTightens, LimitsAreNumbers
  <2>4. /\ LimitsOk(two.limits) /\ one.protected \subseteq two.protected
        /\ \A k \in DOMAIN one.limits : k \in DOMAIN two.limits /\ two.limits[k] <= one.limits[k]
        BY <2>1, <2>3, OverlayTightens
  <2>5. \A k \in DOMAIN d.limits : {d.limits[k], one.limits[k], two.limits[k]} \subseteq Int
        BY <1>3, <2>3, <2>4, LimitsAreNumbers
  <2> HIDE DEF one, two
  <2> QED BY <2>1, <2>3, <2>4, <2>5
<1>5. ASSUME ~o.trusted PROVE r = Resolved(d, Empty, TRUE, o.mission)
      BY <1>2, <1>5, EmptyOverlay DEF Resolved
<1> QED BY <1>4, <1>5 DEF OnlyTightened

\* Whatever edits and imports make of the configuration, and whatever a project's and a mission's overrides
\* say, what comes of them is refused or valid, with ceilings no higher and no path less protected.
THEOREM OverridesTighten == Spec => OverridesOnlyTighten
<1>1. ASSUME CatalogueInv, [Next]_vars
      PROVE  [document' # document => \A o \in Overrides : OnlyTightened(document', o)]_vars
  <2>1. DocOK(document')
        BY <1>1, StepCatalogue DEF CatalogueInv
  <2>2. \A o \in Overrides : OnlyTightened(document', o)
        BY <2>1, TightenedOnly
  <2> QED BY <2>2
<1> QED BY <1>1, InitCatalogue, StepCatalogue, PTL DEF Spec, OverridesOnlyTighten

-------------------------------------------------------------------------------
(* A document that was read: migrating it again changes nothing              *)

\* The entry of a pool or of a Boss profile, once it was read.
Settled(e, keys) == IsObject(e, keys) /\ e.effort # "none" /\ e.weight # Absent
EntriesSettled(s, keys) == s \in Seq(Range(s)) /\ \A i \in DOMAIN s : Settled(s[i], keys)
PoolSettled(p) == IsObject(p, PoolKeys) /\ p.policy # "none" /\ EntriesSettled(p.entries, PoolEntryKeys)
BossSettled(b) ==
    /\ IsObject(b, BossKeys) /\ b.listed = TRUE /\ b.policy # "none"
    /\ b.routeIds = RoutesOf(b.entries) /\ EntriesSettled(b.entries, EntryKeys)
DocSettled(d) ==
    /\ d = [f \in Fields |-> d[f]]
    /\ \A r \in DOMAIN d.routes : IsObject(d.routes[r], RouteKeys)
    /\ d.pools = [p \in PoolIds |-> d.pools[p]] /\ \A p \in PoolIds : PoolSettled(d.pools[p])
    /\ d.bosses = [b \in DOMAIN d.bosses |-> d.bosses[b]]
    /\ \A b \in DOMAIN d.bosses : BossSettled(d.bosses[b])
    /\ d.boss \in DOMAIN d.bosses

\* The keys that Chosen may set.
Both(keys) == {"effort", "weight"} \subseteq keys

LEMMA BothKeys == Both(EntryKeys) /\ Both(PoolEntryKeys)
BY DEF Both, EntryKeys, PoolEntryKeys

LEMMA ChosenSettles ==
    ASSUME NEW keys, Both(keys), NEW e, IsObject(e, keys), NEW effort, effort # "none"
    PROVE  Settled(Chosen(e, effort), keys)
<1>1. 1 # Absent
      BY DEF Absent
<1> QED BY <1>1 DEF Both, IsObject, Chosen, Settled

\* An entry that is settled but for an effort or a weight it was just given is read as it is.
LEMMA SettledStays ==
    ASSUME NEW keys, Both(keys), NEW e, Settled(e, keys), NEW effort
    PROVE  Chosen(e, effort) = e
BY DEF Both, IsObject, Chosen, Settled

\* A sequence by its elements.
LEMMA MappedArray ==
    ASSUME NEW s, s \in Seq(Range(s)), NEW t, DOMAIN t = DOMAIN s, t = [i \in DOMAIN s |-> t[i]]
    PROVE  t \in Seq(Range(t)) /\ Len(t) = Len(s) /\ DOMAIN t = 1 .. Len(s) /\ Len(s) \in Nat
<1>1. Len(s) \in Nat /\ DOMAIN s = 1 .. Len(s)
      BY LenProperties
<1>2. t \in [1 .. Len(s) -> Range(t)]
      BY <1>1 DEF Range
<1>3. t \in Seq(Range(t))
      BY <1>1, <1>2, SeqDef
<1> QED BY <1>1, <1>2, <1>3, LenProperties

LEMMA EntriesSettle ==
    ASSUME NEW keys, Both(keys), NEW s, s \in Seq(Range(s)), \A i \in DOMAIN s : IsObject(s[i], keys),
           NEW effort, effort # "none"
    PROVE  EntriesSettled([i \in DOMAIN s |-> Chosen(s[i], effort)], keys)
<1> DEFINE t == [i \in DOMAIN s |-> Chosen(s[i], effort)]
<1>1. \A i \in DOMAIN t : Settled(t[i], keys)
      BY ChosenSettles
<1>2. t \in Seq(Range(t))
      BY MappedArray
<1> QED BY <1>1, <1>2 DEF EntriesSettled

LEMMA EntriesStay ==
    ASSUME NEW keys, Both(keys), NEW s, EntriesSettled(s, keys), NEW effort
    PROVE  [i \in DOMAIN s |-> Chosen(s[i], effort)] = s
<1>1. s = [i \in DOMAIN s |-> s[i]]
      BY LenProperties DEF EntriesSettled
<1>2. \A i \in DOMAIN s : Chosen(s[i], effort) = s[i]
      BY SettledStays DEF EntriesSettled
<1> QED BY <1>1, <1>2

LEMMA PoolReads ==
    ASSUME NEW p
    PROVE  /\ PoolOk(p) => PoolSettled(MigratedPool(p))
           /\ PoolSettled(p) => MigratedPool(p) = p
<1>1. ASSUME PoolOk(p) PROVE PoolSettled(MigratedPool(p))
  <2> DEFINE s == p.entries
             t == [i \in DOMAIN s |-> Chosen(s[i], "auto")]
  <2>1. s \in Seq(Range(s)) /\ \A i \in DOMAIN s : IsObject(s[i], PoolEntryKeys)
        BY <1>1 DEF PoolOk, IsArray, PoolEntryOk, Range
  <2>2. EntriesSettled(t, PoolEntryKeys)
        BY <2>1, BothKeys, EntriesSettle
  <2> HIDE DEF t
  <2>3. MigratedPool(p) = [policy |-> IF p.policy = "none" THEN "priority" ELSE p.policy, entries |-> t]
        BY DEF MigratedPool, t
  <2> QED BY <2>2, <2>3 DEF PoolSettled, IsObject, PoolKeys
<1>2. ASSUME PoolSettled(p) PROVE MigratedPool(p) = p
  <2>1. [i \in DOMAIN p.entries |-> Chosen(p.entries[i], "auto")] = p.entries
        BY <1>2, BothKeys, EntriesStay DEF PoolSettled
  <2> QED BY <1>2, <2>1 DEF PoolSettled, MigratedPool, IsObject, PoolKeys
<1> QED BY <1>1, <1>2

LEMMA BossEntryIs == \A r : IsObject(BossEntry(r), EntryKeys)
BY DEF BossEntry, IsObject, EntryKeys

\* What the entries of a Boss profile are read from.
ReadFrom(b) ==
    IF b.listed /\ b.entries = <<>> THEN BossEntries([b EXCEPT !.listed = FALSE]) ELSE BossEntries(b)

LEMMA BossReads ==
    ASSUME NEW b
    PROVE  /\ BossOk(b) => BossSettled(MigratedBoss(b))
           /\ BossSettled(b) => MigratedBoss(b) = b
<1> DEFINE s == ReadFrom(b)
           t == [i \in DOMAIN s |-> Chosen(s[i], "max")]
<1>1. MigratedBoss(b) = [b EXCEPT !.listed = TRUE, !.entries = t, !.routeIds = RoutesOf(s),
                                  !.policy = IF @ = "none" THEN "weighted" ELSE @]
      BY DEF MigratedBoss, ReadFrom
<1>2. ASSUME BossOk(b) PROVE BossSettled(MigratedBoss(b))
  <2>1. s \in Seq(Range(s)) /\ \A i \in DOMAIN s : IsObject(s[i], EntryKeys)
    <3>1. CASE b.listed /\ b.entries # <<>>
      <4>1. s = b.entries
            BY <3>1 DEF ReadFrom, BossEntries
      <4> QED BY <1>2, <3>1, <4>1 DEF BossOk, IsArray, Range
    <3>2. CASE ~(b.listed /\ b.entries # <<>>)
      <4>1. s = [i \in DOMAIN b.routeIds |-> BossEntry(b.routeIds[i])]
            BY <1>2, <3>2 DEF ReadFrom, BossEntries, BossOk, IsObject, BossKeys
      <4>2. b.routeIds \in Seq(Range(b.routeIds))
            BY <1>2 DEF BossOk, IsArray
      <4> HIDE DEF s
      <4>3. DOMAIN s = DOMAIN b.routeIds /\ s = [i \in DOMAIN b.routeIds |-> s[i]]
            BY <4>1
      <4>4. s \in Seq(Range(s))
            BY <4>2, <4>3, MappedArray
      <4> QED BY <4>1, <4>4, BossEntryIs
    <3> QED BY <3>1, <3>2
  <2> HIDE DEF s
  <2>2. EntriesSettled(t, EntryKeys)
        BY <2>1, BothKeys, EntriesSettle
  <2>3. RoutesOf(t) = RoutesOf(s)
    <3>1. \A i \in DOMAIN s : t[i].route = s[i].route
          BY <2>1 DEF Chosen, IsObject, EntryKeys
    <3> QED BY <3>1 DEF RoutesOf
  <2> HIDE DEF t
  <2>4. IsObject(b, BossKeys)
        BY <1>2 DEF BossOk
  <2> QED BY <1>1, <2>2, <2>3, <2>4 DEF BossSettled, IsObject, BossKeys
<1>3. ASSUME BossSettled(b) PROVE MigratedBoss(b) = b
  <2>1. b.entries = [i \in DOMAIN b.entries |-> b.entries[i]] /\ IsObject(b, BossKeys) /\ b.listed
        BY <1>3, LenProperties DEF BossSettled, EntriesSettled
  <2>2. s = b.entries
    <3>1. CASE b.entries # <<>>
          BY <2>1, <3>1 DEF ReadFrom, BossEntries
    <3>2. CASE b.entries = <<>>
      <4>1. DOMAIN b.routeIds = {}
            BY <1>3, <3>2 DEF BossSettled, RoutesOf
      <4>2. s = [i \in DOMAIN b.routeIds |-> BossEntry(b.routeIds[i])]
            BY <2>1, <3>2 DEF ReadFrom, BossEntries, IsObject, BossKeys
      <4> QED BY <3>2, <4>1, <4>2
    <3> QED BY <3>1, <3>2
  <2> HIDE DEF s
  <2>3. t = s
        BY <1>3, <2>2, BothKeys, EntriesStay DEF BossSettled
  <2> HIDE DEF t
  <2>4. MigratedBoss(b) = [b EXCEPT !.listed = TRUE, !.entries = b.entries, !.routeIds = b.routeIds,
                                    !.policy = b.policy]
        BY <1>1, <1>3, <2>1, <2>2, <2>3 DEF BossSettled, IsObject, BossKeys
  <2>5. b.listed = TRUE
        BY <1>3 DEF BossSettled
  <2> HIDE DEF s
  <2> QED BY <2>1, <2>4, <2>5 DEF IsObject, BossKeys
<1> QED BY <1>2, <1>3

\* Every read gives such a document; what is then changed of it is not changed again by the next read.
LEMMA ReadsSettle == ASSUME NEW d, DocOK(d) PROVE DocSettled(d)
<1>1. PICK c : DocumentOk(c) /\ d = Migrated(c)
      BY DEF DocOK
<1>2. /\ DOMAIN c = Fields /\ \A f \in Fields : FieldOk(f, c[f])
      /\ c.boss \in DOMAIN c.bosses
      BY <1>1 DEF DocumentOk, StructureOk, SemanticsOk
<1>3. /\ d.pools = [p \in PoolIds |-> MigratedPool(c.pools[p])]
      /\ d.bosses = [b \in DOMAIN c.bosses |-> MigratedBoss(c.bosses[b])]
      /\ d.routes = c.routes /\ d.boss = c.boss
      BY <1>1, <1>2 DEF Migrated, Fields, KeyedMaps
<1>4. \A r \in DOMAIN c.routes : RouteOk(c.routes[r])
      BY <1>2 DEF FieldOk, Fields, KeyedMaps
<1>5. \A b \in DOMAIN c.bosses : BossOk(c.bosses[b])
      BY <1>2 DEF FieldOk, Fields, KeyedMaps
<1>6. \A p \in PoolIds : PoolOk(c.pools[p])
      BY <1>1, <1>2 DEF FieldOk, Fields, KeyedMaps, DocumentOk, StructureOk
<1>7. d = [f \in Fields |-> d[f]]
      BY <1>1, MigratedSame
<1>8. d.pools = [p \in PoolIds |-> d.pools[p]] /\ \A p \in PoolIds : PoolSettled(d.pools[p])
      BY <1>3, <1>6, PoolReads
<1>9. d.bosses = [b \in DOMAIN d.bosses |-> d.bosses[b]] /\ \A b \in DOMAIN d.bosses : BossSettled(d.bosses[b])
      BY <1>3, <1>5, BossReads
<1> QED BY <1>2, <1>3, <1>4, <1>7, <1>8, <1>9 DEF DocSettled, RouteOk

-------------------------------------------------------------------------------
(* Edits that were decided on some awaits before                             *)

LEMMA WrittenIs ==
    ASSUME NEW d, DocumentOk(d), document' = Migrated(d)
    PROVE  /\ \A f \in Fields \ {"pools", "bosses"} : document'[f] = d[f]
           /\ document'.pools = [p \in PoolIds |-> MigratedPool(d.pools[p])]
           /\ document'.bosses = [b \in DOMAIN d.bosses |-> MigratedBoss(d.bosses[b])]
<1>1. DOMAIN d = Fields
      BY DEF DocumentOk, StructureOk
<1> QED BY <1>1, MigratedSame DEF Migrated, Fields, KeyedMaps

\* What was not edited is read as it was.
LEMMA SamePools == ASSUME NEW d, DocSettled(d) PROVE [p \in PoolIds |-> MigratedPool(d.pools[p])] = d.pools
<1>1. \A p \in PoolIds : MigratedPool(d.pools[p]) = d.pools[p]
      BY PoolReads DEF DocSettled
<1> QED BY <1>1 DEF DocSettled

LEMMA SameBosses == ASSUME NEW d, DocSettled(d) PROVE [b \in DOMAIN d.bosses |-> MigratedBoss(d.bosses[b])] = d.bosses
<1>1. \A b \in DOMAIN d.bosses : MigratedBoss(d.bosses[b]) = d.bosses[b]
      BY BossReads DEF DocSettled
<1> QED BY <1>1 DEF DocSettled

LEMMA SwitchedIs ==
    ASSUME DocSettled(document), NEW h \in Hosts
    PROVE  LET d == Switched(h)
               t == task[h]
           IN
           /\ \A f \in Fields \ {"routes", "gateways"} : d[f] = document[f]
           /\ DOMAIN d.gateways \in {DOMAIN document.gateways, DOMAIN document.gateways \cup {Gateway}}
           /\ \A g \in DOMAIN document.gateways : d.gateways[g] = document.gateways[g]
           /\ DOMAIN d.routes \in {DOMAIN document.routes, DOMAIN document.routes \cup {t.route}}
           /\ \A r \in DOMAIN document.routes :
                 \/ d.routes[r] = document.routes[r]
                 \/ r = t.route /\ d.routes[r] = [document.routes[r] EXCEPT !.on = t.on]
<1> DEFINE t == task[h]
           d == Switched(h)
<1>1. document = [f \in Fields |-> document[f]] /\ "routes" \in Fields /\ "gateways" \in Fields
      BY DEF DocSettled, Fields, KeyedMaps
<1>2. CASE Known(document, t.route)
  <2>1. d = [document EXCEPT !.routes[t.route].on = t.on]
        BY <1>2 DEF Switched, Current
  <2>2. /\ d.routes = [document.routes EXCEPT ![t.route].on = t.on]
        /\ \A f \in Fields \ {"routes"} : d[f] = document[f]
        BY <1>1, <2>1
  <2>3. d.gateways = document.gateways
        BY <1>1, <2>2
  <2> HIDE DEF d
  <2>4. /\ DOMAIN d.routes = DOMAIN document.routes
        /\ \A r \in DOMAIN document.routes :
              \/ d.routes[r] = document.routes[r]
              \/ r = t.route /\ d.routes[r] = [document.routes[r] EXCEPT !.on = t.on]
        BY <2>2
  <2> QED BY <2>2, <2>3, <2>4 DEF d
<1>3. CASE ~Known(document, t.route) /\ ~t.on
  <2>1. d = document
        BY <1>3 DEF Switched, Current
  <2> QED BY <2>1
<1>4. CASE ~Known(document, t.route) /\ t.on
  <2> DEFINE new == [r \in {t.route} |-> NewRoute(CHOOSE e \in t.entry : TRUE)]
             routes == MergedMap(new, document.routes)
             implied == ImpliedGateway(h)
             gateways == MergedMap(implied, document.gateways)
  <2>1. d = [document EXCEPT !.gateways = gateways, !.routes = routes]
        BY <1>4 DEF Switched, Current
  <2>2. DOMAIN new = {t.route}
        OBVIOUS
  <2>3. DOMAIN implied = {} \/ (DOMAIN implied = {Gateway} /\ Gateway \notin DOMAIN document.gateways)
        BY DEF ImpliedGateway, Configured, Current
  <2> HIDE DEF new, implied
  <2>4. /\ DOMAIN routes = DOMAIN document.routes \cup {t.route}
        /\ \A r \in DOMAIN document.routes : routes[r] = document.routes[r]
        BY <1>4, <2>2 DEF Known, MergedMap
  <2>5. /\ DOMAIN gateways \in {DOMAIN document.gateways, DOMAIN document.gateways \cup {Gateway}}
        /\ \A g \in DOMAIN document.gateways : gateways[g] = document.gateways[g]
        BY <2>3 DEF MergedMap
  <2> HIDE DEF routes, gateways, d
  <2>6. /\ d.routes = routes /\ d.gateways = gateways
        /\ \A f \in Fields \ {"routes", "gateways"} : d[f] = document[f]
        BY <1>1, <2>1
  <2> QED BY <2>4, <2>5, <2>6 DEF d
<1> QED BY <1>2, <1>3, <1>4

LEMMA SwitchLocal ==
    ASSUME CatalogueInv, NEW h \in Hosts, Switch(h)
    PROVE  SwitchIsLocal(h)
<1> DEFINE d == Switched(h)
           t == task[h]
<1>1. DocSettled(document)
      BY ReadsSettle DEF CatalogueInv
<1>2. CASE document' = document
      BY <1>2 DEF SwitchIsLocal, Current
<1>3. CASE DocumentOk(d) /\ document' = Migrated(d)
  <2>1. /\ \A f \in Fields \ {"routes", "gateways"} : d[f] = document[f]
        /\ DOMAIN d.gateways \in {DOMAIN document.gateways, DOMAIN document.gateways \cup {Gateway}}
        /\ \A g \in DOMAIN document.gateways : d.gateways[g] = document.gateways[g]
        /\ DOMAIN d.routes \in {DOMAIN document.routes, DOMAIN document.routes \cup {t.route}}
        /\ \A r \in DOMAIN document.routes :
              \/ d.routes[r] = document.routes[r]
              \/ r = t.route /\ d.routes[r] = [document.routes[r] EXCEPT !.on = t.on]
        BY <1>1, SwitchedIs
  <2>2. /\ \A f \in Fields \ {"pools", "bosses"} : document'[f] = d[f]
        /\ document'.pools = [p \in PoolIds |-> MigratedPool(d.pools[p])]
        /\ document'.bosses = [b \in DOMAIN d.bosses |-> MigratedBoss(d.bosses[b])]
        BY <1>3, WrittenIs
  <2> HIDE DEF d
  <2>3. d.pools = document.pools /\ d.bosses = document.bosses
        BY <2>1 DEF Fields, KeyedMaps
  <2>4. document'.pools = document.pools /\ document'.bosses = document.bosses
        BY <1>1, <2>2, <2>3, SamePools, SameBosses
  <2>5. document'.routes = d.routes /\ document'.gateways = d.gateways
        BY <2>2 DEF Fields, KeyedMaps
  <2>6. \A f \in Fields \ {"routes", "gateways"} : document'[f] = document[f]
    <3>1. ASSUME NEW f \in Fields \ {"routes", "gateways"} PROVE document'[f] = document[f]
      <4>1. CASE f \in {"pools", "bosses"}
            BY <2>4, <4>1
      <4>2. CASE f \notin {"pools", "bosses"}
            BY <2>1, <2>2, <4>2
      <4> QED BY <4>1, <4>2
    <3> QED BY <3>1
  <2> QED BY <2>1, <2>5, <2>6 DEF SwitchIsLocal, Current
<1> QED BY <1>2, <1>3 DEF Switch, Update

\* A value that a read does not put another in the place of.
Full(field, v) == IF field = "effort" THEN v # "none" ELSE v # Absent
\* The entry as it was, or with what was asked for its route.
Edit(x, e, field, asked) ==
    \/ x = e
    \/ /\ e.route \in DOMAIN asked /\ Full(field, asked[e.route])
       /\ x = [e EXCEPT ![field] = asked[e.route]]

LEMMA EditStays ==
    ASSUME NEW keys, Both(keys), NEW e, Settled(e, keys), NEW field \in {"effort", "weight"}, NEW asked,
           NEW x, Edit(x, e, field, asked), NEW effort
    PROVE  /\ Chosen(x, effort) = x /\ DOMAIN x = DOMAIN e
           /\ \A f \in DOMAIN e :
                 x[f] = e[f] \/ (f = field /\ e.route \in DOMAIN asked /\ x[f] = asked[e.route])
           /\ "route" \in keys => x.route = e.route
<1>1. DOMAIN e = keys /\ e = [k \in keys |-> e[k]] /\ "effort" \in keys /\ "weight" \in keys
      BY DEF Settled, IsObject, Both
<1>2. CASE x = e
      BY <1>2, SettledStays
<1>3. CASE /\ e.route \in DOMAIN asked /\ Full(field, asked[e.route])
           /\ x = [e EXCEPT ![field] = asked[e.route]]
  <2> DEFINE v == asked[e.route]
  <2>1. DOMAIN x = keys /\ x[field] = v /\ \A k \in keys \ {field} : x[k] = e[k]
        BY <1>1, <1>3
  <2>2. x = [k \in keys |-> x[k]]
        BY <1>1, <1>3
  <2> HIDE DEF v
  <2>3. x.effort # "none"
    <3>1. CASE field = "effort"
          BY <1>3, <2>1, <3>1 DEF Full, v
    <3>2. CASE field = "weight"
          BY <1>1, <2>1, <3>2 DEF Settled
    <3> QED BY <3>1, <3>2
  <2>4. x.weight # Absent
    <3>1. CASE field = "weight"
          BY <1>3, <2>1, <3>1 DEF Full, v
    <3>2. CASE field = "effort"
          BY <1>1, <2>1, <3>2 DEF Settled
    <3> QED BY <3>1, <3>2
  <2>5. Settled(x, keys)
        BY <2>1, <2>2, <2>3, <2>4 DEF Settled, IsObject
  <2>6. Chosen(x, effort) = x
        BY <2>5, SettledStays
  <2> QED BY <1>1, <1>3, <2>1, <2>6 DEF v
<1> QED BY <1>2, <1>3 DEF Edit

\* Entries of which one field was given what was asked are read as that.
LEMMA EditsRead ==
    ASSUME NEW keys, Both(keys), "route" \in keys, NEW s, EntriesSettled(s, keys),
           NEW field \in {"effort", "weight"}, NEW asked, NEW effort, NEW u, DOMAIN u = DOMAIN s,
           \A i \in DOMAIN s : Edit(u[i], s[i], field, asked)
    PROVE  /\ SameEntriesBut(s, [i \in DOMAIN u |-> Chosen(u[i], effort)], field, asked)
           /\ RoutesOf(u) = RoutesOf(s)
<1> DEFINE read == [i \in DOMAIN u |-> Chosen(u[i], effort)]
<1>1. ASSUME NEW i \in DOMAIN s
      PROVE  /\ read[i] = u[i] /\ DOMAIN u[i] = DOMAIN s[i] /\ u[i].route = s[i].route
             /\ \A f \in DOMAIN s[i] :
                   u[i][f] = s[i][f] \/ (f = field /\ s[i].route \in DOMAIN asked /\ u[i][f] = asked[s[i].route])
  <2> DEFINE e == s[i]
             x == u[i]
  <2>1. Settled(e, keys) /\ Edit(x, e, field, asked)
        BY DEF EntriesSettled
  <2> HIDE DEF e, x
  <2>2. /\ Chosen(x, effort) = x /\ DOMAIN x = DOMAIN e /\ x.route = e.route
        /\ \A f \in DOMAIN e :
              x[f] = e[f] \/ (f = field /\ e.route \in DOMAIN asked /\ x[f] = asked[e.route])
        BY <2>1, EditStays
  <2>3. read[i] = Chosen(x, effort)
        BY DEF x
  <2> QED BY <2>2, <2>3 DEF e, x
<1>2. DOMAIN read = DOMAIN s
      OBVIOUS
<1> HIDE DEF read
<1>3. SameEntriesBut(s, read, field, asked)
      BY <1>1, <1>2 DEF SameEntriesBut
<1> QED BY <1>1, <1>3 DEF RoutesOf, read

\* SetEntries of a pool: what is read afterwards.
LEMMA EntriesSet ==
    ASSUME DocSettled(document), NEW of \in PoolIds, NEW entries, SetEntries(of, entries)
    PROVE  \/ document' = document
           \/ /\ OnlyAt("pools", of) /\ document'.pools[of].policy = document.pools[of].policy
              /\ DOMAIN document'.pools[of] = PoolKeys
              /\ document'.pools[of].entries = [i \in DOMAIN entries |-> Chosen(entries[i], "auto")]
<1> DEFINE d == [document EXCEPT !.pools[of].entries = entries]
           p == document.pools[of]
           q == [p EXCEPT !.entries = entries]
<1>1. SUFFICES ASSUME DocumentOk(d), document' = Migrated(d)
               PROVE  /\ OnlyAt("pools", of) /\ document'.pools[of].policy = p.policy
                      /\ DOMAIN document'.pools[of] = PoolKeys
                      /\ document'.pools[of].entries = [i \in DOMAIN entries |-> Chosen(entries[i], "auto")]
      BY DEF SetEntries, Update, Current
<1>2. /\ document = [f \in Fields |-> document[f]] /\ document.pools = [k \in PoolIds |-> document.pools[k]]
      /\ IsObject(p, PoolKeys) /\ p.policy # "none"
      BY DEF DocSettled, PoolSettled
<1>3. /\ \A f \in Fields \ {"pools"} : d[f] = document[f]
      /\ d.pools = [document.pools EXCEPT ![of] = q]
      BY <1>2 DEF Fields, KeyedMaps
<1>4. /\ \A f \in Fields \ {"pools", "bosses"} : document'[f] = d[f]
      /\ document'.pools = [k \in PoolIds |-> MigratedPool(d.pools[k])]
      /\ document'.bosses = [b \in DOMAIN d.bosses |-> MigratedBoss(d.bosses[b])]
      BY <1>1, WrittenIs
<1>5. q.entries = entries /\ q.policy = p.policy
      BY <1>2 DEF IsObject, PoolKeys
<1> HIDE DEF d, q, p
<1>6. d.bosses = document.bosses
      BY <1>3 DEF Fields, KeyedMaps
<1>7. document'.bosses = document.bosses
      BY <1>4, <1>6, SameBosses
<1>8. \A f \in Fields \ {"pools"} : document'[f] = document[f]
  <2> SUFFICES ASSUME NEW f \in Fields \ {"pools"} PROVE document'[f] = document[f]
      OBVIOUS
  <2>1. CASE f = "bosses"
        BY <1>7, <2>1
  <2>2. CASE f # "bosses"
        BY <1>3, <1>4, <2>2
  <2> QED BY <2>1, <2>2
<1>9. /\ d.pools[of] = q /\ \A k \in PoolIds \ {of} : d.pools[k] = document.pools[k]
      BY <1>2, <1>3
<1>10. \A k \in PoolIds \ {of} : document'.pools[k] = document.pools[k]
       BY <1>4, <1>9, PoolReads DEF DocSettled
<1>11. DOMAIN document.pools = PoolIds /\ DOMAIN document'.pools = PoolIds
       BY <1>2, <1>4
<1>12. OnlyAt("pools", of)
       BY <1>8, <1>10, <1>11 DEF OnlyAt, Current
<1>13. document'.pools[of] = MigratedPool(q)
       BY <1>4, <1>9
<1> QED BY <1>2, <1>5, <1>12, <1>13 DEF MigratedPool, PoolKeys, p

\* SaveBoss of entries of the same routes: what is read afterwards.
LEMMA BossSaved ==
    ASSUME DocSettled(document), NEW b \in DOMAIN document.bosses, NEW entries,
           RoutesOf(entries) = RoutesOf(document.bosses[b].entries),
           SaveBoss(b, [document.bosses[b] EXCEPT !.entries = entries])
    PROVE  \/ document' = document
           \/ /\ OnlyAt("bosses", b)
              /\ \A f \in DOMAIN document.bosses[b] \ {"entries", "policy"} :
                    document'.bosses[b][f] = document.bosses[b][f]
              /\ document'.bosses[b].entries = [i \in DOMAIN entries |-> Chosen(entries[i], "max")]
<1> DEFINE was == document.bosses[b]
           profile == [was EXCEPT !.entries = entries]
           saved == [profile EXCEPT !.routeIds = RoutesOf(profile.entries), !.policy = "weighted"]
           d == [document EXCEPT !.bosses[b] = saved]
<1>1. SUFFICES ASSUME DocumentOk(d), document' = Migrated(d)
               PROVE  /\ OnlyAt("bosses", b)
                      /\ \A f \in DOMAIN was \ {"entries", "policy"} : document'.bosses[b][f] = was[f]
                      /\ document'.bosses[b].entries = [i \in DOMAIN entries |-> Chosen(entries[i], "max")]
      BY DEF SaveBoss, Update, Current
<1>2. /\ document = [f \in Fields |-> document[f]]
      /\ document.bosses = [c \in DOMAIN document.bosses |-> document.bosses[c]]
      /\ IsObject(was, BossKeys) /\ was.listed = TRUE /\ was.routeIds = RoutesOf(was.entries)
      BY DEF DocSettled, BossSettled
<1> HIDE DEF was
<1>3. saved = [k \in BossKeys |-> saved[k]] /\ DOMAIN saved = BossKeys
  <2>1. DOMAIN was = BossKeys
        BY <1>2 DEF IsObject
  <2>2. DOMAIN profile = BossKeys
        BY <2>1
  <2> HIDE DEF profile
  <2> QED BY <2>2
<1>4. saved.listed = TRUE /\ saved.entries = entries /\ saved.routeIds = RoutesOf(entries) /\ saved.on = was.on
      BY <1>2 DEF IsObject, BossKeys
<1> HIDE DEF saved
<1>5. d.bosses = [document.bosses EXCEPT ![b] = saved] /\ \A f \in Fields \ {"bosses"} : d[f] = document[f]
      BY <1>2 DEF Fields, KeyedMaps
<1>6. /\ \A f \in Fields \ {"pools", "bosses"} : document'[f] = d[f]
      /\ document'.pools = [p \in PoolIds |-> MigratedPool(d.pools[p])]
      /\ document'.bosses = [c \in DOMAIN d.bosses |-> MigratedBoss(d.bosses[c])]
      BY <1>1, WrittenIs
<1> HIDE DEF d
<1>7. DOMAIN document'.bosses = DOMAIN document.bosses /\ document'.bosses[b] = MigratedBoss(saved)
      BY <1>2, <1>5, <1>6
<1>8. \A c \in DOMAIN document.bosses \ {b} : document'.bosses[c] = document.bosses[c]
  <2>1. \A c \in DOMAIN document.bosses \ {b} : d.bosses[c] = document.bosses[c]
        BY <1>2, <1>5
  <2> QED BY <1>2, <1>5, <1>6, <2>1, BossReads DEF DocSettled
<1>9. d.pools = document.pools
      BY <1>5 DEF Fields, KeyedMaps
<1>10. document'.pools = document.pools
       BY <1>6, <1>9, SamePools
<1>11. \A f \in Fields \ {"bosses"} : document'[f] = document[f]
  <2> SUFFICES ASSUME NEW f \in Fields \ {"bosses"} PROVE document'[f] = document[f]
      OBVIOUS
  <2>1. CASE f = "pools"
        BY <1>10, <2>1
  <2>2. CASE f # "pools"
        BY <1>5, <1>6, <2>2
  <2> QED BY <2>1, <2>2
<1>12. OnlyAt("bosses", b)
       BY <1>7, <1>8, <1>11 DEF OnlyAt, Current
<1>13. LET m == MigratedBoss(saved) IN
       /\ m.entries = [i \in DOMAIN entries |-> Chosen(entries[i], "max")]
       /\ m.routeIds = RoutesOf(entries) /\ m.listed = TRUE /\ m.on = was.on
  <2> DEFINE r == ReadFrom(saved)
             m == MigratedBoss(saved)
  <2>1. r = entries \/ (entries = <<>> /\ DOMAIN r = {})
    <3>1. CASE entries # <<>>
          BY <1>4, <3>1 DEF ReadFrom, BossEntries
    <3>2. CASE entries = <<>>
      <4>1. r = [i \in DOMAIN saved.routeIds |-> BossEntry(saved.routeIds[i])]
            BY <1>3, <1>4, <3>2 DEF ReadFrom, BossEntries, BossKeys
      <4> QED BY <1>4, <3>2, <4>1 DEF RoutesOf
    <3> QED BY <3>1, <3>2
  <2>2. /\ m.entries = [i \in DOMAIN r |-> Chosen(r[i], "max")]
        /\ m.routeIds = RoutesOf(r) /\ m.listed = TRUE /\ m.on = saved.on
        BY <1>3 DEF MigratedBoss, ReadFrom, BossKeys
  <2> HIDE DEF r, m
  <2>3. RoutesOf(r) = RoutesOf(entries)
        BY <2>1 DEF RoutesOf
  <2>4. [i \in DOMAIN r |-> Chosen(r[i], "max")] = [i \in DOMAIN entries |-> Chosen(entries[i], "max")]
        BY <2>1
  <2> QED BY <1>4, <2>2, <2>3, <2>4 DEF m
<1> DEFINE m == MigratedBoss(saved)
<1>14. /\ m.entries = [i \in DOMAIN entries |-> Chosen(entries[i], "max")]
       /\ m.routeIds = was.routeIds /\ m.listed = was.listed /\ m.on = was.on
       BY <1>2, <1>13 DEF was
<1>15. document'.bosses[b] = m
       BY <1>7
<1> HIDE DEF m
<1>16. DOMAIN was = BossKeys
       BY <1>2 DEF IsObject
<1> QED BY <1>12, <1>14, <1>15, <1>16 DEF BossKeys

\* An entry that moves to the front: those before it step back by one.
LEMMA MovedToFront ==
    ASSUME NEW s, s \in Seq(Range(s)), NEW route, Member(s, route)
    PROVE  LET m == Moved(s, route, 1) IN
           /\ Fronted(s, m, route)
           /\ \A k \in DOMAIN m : \E j \in DOMAIN s : m[k] = s[j]
<1> DEFINE S == Range(s)
           n == Len(s)
           i == Place(s, route)
<1>1. n \in Nat /\ DOMAIN s = 1 .. n /\ \A k \in 1 .. n : s[k] \in S
      BY LenProperties DEF Range
<1>2. i \in 1 .. n /\ s[i].route = route
      BY <1>1 DEF Member, Place
<1> HIDE DEF i, n
<1>3. Max({1, 1}) = 1
      BY DEF Max
<1>4. Min({1, n}) = 1
  <2>1. n \in Nat /\ 1 =< n
        BY <1>1, <1>2
  <2>2. \A x \in {1, n} : (\A y \in {1, n} : x =< y) => x = 1
        BY <2>1
  <2> QED BY <2>1, <2>2 DEF Min
<1> DEFINE before == SubSeq(s, 1, i - 1)
           after == SubSeq(s, i + 1, n)
           rest == before \o after
           none == SubSeq(rest, 1, 0)
           all == SubSeq(rest, 1, Len(rest))
           one == <<s[i]>>
           m == none \o one \o all
<1>5. /\ before \in Seq(S) /\ Len(before) = i - 1
      /\ \A k \in 1 .. i - 1 : before[k] = s[k]
      BY <1>1, <1>2, SubSeqProperties
<1>6. /\ after \in Seq(S) /\ Len(after) = n - i
      /\ \A k \in 1 .. n - i : after[k] = s[k + i]
      BY <1>1, <1>2, SubSeqProperties
<1> HIDE DEF before, after
<1>7. /\ rest \in Seq(S) /\ Len(rest) = n - 1
      /\ \A k \in 1 .. n - 1 : rest[k] = IF k < i THEN s[k] ELSE s[k + 1]
      BY <1>1, <1>2, <1>5, <1>6, ConcatProperties
<1> HIDE DEF rest
<1>8. none = <<>> /\ all = rest
      BY <1>7, SubSeqEmpty, SubSeqFull
<1>9. one \in Seq(S) /\ Len(one) = 1 /\ one[1] = s[i]
      BY <1>1, <1>2
<1> HIDE DEF none, all, one
<1>10. m = one \o rest
      BY <1>8, <1>9, ConcatEmptySeq
<1> HIDE DEF m
<1>11. /\ m \in Seq(S) /\ Len(m) = n
       /\ \A k \in 1 .. n : m[k] = IF k = 1 THEN s[i] ELSE rest[k - 1]
  <2> HIDE DEF S
  <2>1. one \in Seq(S) /\ rest \in Seq(S)
        BY <1>7, <1>9
  <2>2. /\ one \o rest \in Seq(S) /\ Len(one \o rest) = Len(one) + Len(rest)
        /\ \A k \in 1 .. Len(one) + Len(rest) :
              (one \o rest)[k] = IF k <= Len(one) THEN one[k] ELSE rest[k - Len(one)]
        BY <2>1, ConcatProperties
  <2>3. Len(one) = 1 /\ Len(rest) = n - 1 /\ one[1] = s[i] /\ m = one \o rest
        BY <1>7, <1>9, <1>10
  <2> QED BY <1>1, <2>2, <2>3
<1>12. Moved(s, route, 1) = m
  <2>1. InsertAt(RemoveAt(s, i), 1, s[i]) = m
        BY <1>2 DEF InsertAt, RemoveAt, m, none, one, all, rest, before, after, n
  <2> QED BY <1>3, <1>4, <2>1 DEF Moved, i, n
<1>13. DOMAIN m = 1 .. n
      BY <1>11, LenProperties
<1>14. \A k \in 1 .. n : m[k] = IF k = 1 THEN s[i] ELSE IF k - 1 < i THEN s[k - 1] ELSE s[k]
  <2> SUFFICES ASSUME NEW k \in 1 .. n, k # 1 PROVE m[k] = IF k - 1 < i THEN s[k - 1] ELSE s[k]
      BY <1>11
  <2>1. k - 1 \in 1 .. n - 1 /\ (k - 1) + 1 = k
        BY <1>1
  <2> QED BY <1>7, <1>11, <2>1
<1>15. \A k \in 1 .. n : \E j \in 1 .. n : m[k] = s[j]
      BY <1>1, <1>2, <1>14
<1>16. DOMAIN m = DOMAIN s /\ \A k \in DOMAIN m : \E j \in DOMAIN s : m[k] = s[j]
       BY <1>1, <1>13, <1>15
<1>17. Fronted(s, m, route)
  <2>1. \A k \in DOMAIN s : m[k] = IF k = 1 THEN s[i] ELSE IF k <= i THEN s[k - 1] ELSE s[k]
        BY <1>1, <1>2, <1>14
  <2> HIDE DEF m
  <2> QED BY <1>1, <1>2, <1>16, <2>1 DEF Fronted
<1> QED BY <1>12, <1>16, <1>17

\* The weights that advice gives: one for each route it is of.
Asks(given) == [r \in {share[1] : share \in Range(given.base)} |-> Share(given, r)]
\* Every one of them is a weight.
Weighs(given) == given.kind # "order" => \A i \in DOMAIN given.base : given.to[i] # Absent
\* What an operation awaits its change with.
TaskAsks(t) ==
    /\ t.step = "effort" => t.effort # "none" /\ t.pool \in PoolIds
    /\ t.step = "applying" => Weighs(t.advised)
AskedInv == (\A h \in Hosts : TaskAsks(task[h])) /\ Weighs(advice)

\* Advice that is applied asks for the weights of its routes, or moves an entry.
LEMMA AdviceAsks ==
    ASSUME NEW s, NEW given, given.kind # "order", Weighs(given), Applicable(s, given)
    PROVE  LET u == Applied(s, given) IN
           /\ DOMAIN u = DOMAIN s
           /\ \A i \in DOMAIN s : Edit(u[i], s[i], "weight", Asks(given))
<1> DEFINE asked == Asks(given)
           base == {share[1] : share \in Range(given.base)}
<1>1. ASSUME NEW i \in DOMAIN s
      PROVE  /\ s[i].route \in DOMAIN asked /\ asked[s[i].route] = Share(given, s[i].route)
             /\ Share(given, s[i].route) # Absent
  <2> DEFINE r == s[i].route
  <2>1. r \in Range(RoutesOf(s))
        BY DEF Range, RoutesOf
  <2>2. r \in base
        BY <2>1 DEF Applicable
  <2>3. \E j \in DOMAIN given.base : given.base[j][1] = r
        BY <2>2 DEF Range
  <2> HIDE DEF r
  <2>4. Share(given, r) # Absent
        BY <2>3 DEF Share, Weighs
  <2>5. r \in DOMAIN asked /\ asked[r] = Share(given, r)
        BY <2>2 DEF Asks
  <2> QED BY <2>4, <2>5 DEF r
<1> DEFINE u == [i \in DOMAIN s |-> [s[i] EXCEPT !.weight = Share(given, s[i].route)]]
<1>2. Applied(s, given) = u
      BY DEF Applied
<1> HIDE DEF asked
<1>3. \A i \in DOMAIN s : Edit(u[i], s[i], "weight", asked)
      BY <1>1 DEF Edit, Full
<1> QED BY <1>2, <1>3 DEF asked

LEMMA AdviceMoves ==
    ASSUME NEW keys, Both(keys), NEW s, EntriesSettled(s, keys), NEW given, given.kind = "order",
           Applicable(s, given), NEW effort
    PROVE  LET u == Applied(s, given) IN
           Fronted(s, [i \in DOMAIN u |-> Chosen(u[i], effort)], given.base[given.to[1]][1])
<1> DEFINE route == given.base[given.to[1]][1]
           u == Applied(s, given)
           read == [i \in DOMAIN u |-> Chosen(u[i], effort)]
<1>1. CASE given.to[1] = 1
  <2>1. u = s
        BY <1>1 DEF Applied
  <2>2. read = s
        BY <2>1, EntriesStay
  <2> QED BY <2>2 DEF Fronted
<1>2. CASE given.to[1] # 1
  <2>1. Member(s, route)
        BY <1>2 DEF Applicable, Member, Range, RoutesOf
  <2>2. u = Moved(s, route, 1) /\ s \in Seq(Range(s))
        BY <1>2 DEF Applied, EntriesSettled
  <2> HIDE DEF u, route
  <2>3. Fronted(s, u, route) /\ \A k \in DOMAIN u : \E j \in DOMAIN s : u[k] = s[j]
        BY <2>1, <2>2, MovedToFront
  <2>4. \A k \in DOMAIN u : Chosen(u[k], effort) = u[k]
        BY <2>3, SettledStays DEF EntriesSettled
  <2>5. DOMAIN read = DOMAIN u /\ \A k \in DOMAIN u : read[k] = u[k]
        BY <2>4
  <2>6. CASE u = s
    <3>1. read = s
          BY <2>6, EntriesStay
    <3> QED BY <3>1 DEF Fronted, route, u
  <2>7. CASE u # s
    <3> HIDE DEF read
    <3>1. Fronted(s, read, route)
          BY <2>3, <2>5, <2>7 DEF Fronted
    <3> QED BY <3>1 DEF read, route, u
  <2> QED BY <2>6, <2>7
<1> QED BY <1>1, <1>2

LEMMA EffortLocal ==
    ASSUME CatalogueInv, AskedInv, NEW h \in Hosts, SetEffort(h)
    PROVE  EffortIsLocal(h)
<1> DEFINE t == task[h]
           of == t.pool
           s == document.pools[of].entries
           u == Changed(s, t.route, "effort", t.effort)
           asked == [r \in {t.route} |-> t.effort]
           read == [i \in DOMAIN u |-> Chosen(u[i], "auto")]
<1>1. DocSettled(document) /\ of \in PoolIds /\ t.effort # "none"
      BY ReadsSettle DEF CatalogueInv, AskedInv, TaskAsks, SetEffort, At
<1>2. document' = document \/ (Member(s, t.route) /\ SetEntries(of, u))
      BY DEF SetEffort, PoolEntries, Current
<1>3. EntriesSettled(s, PoolEntryKeys)
      BY <1>1 DEF DocSettled, PoolSettled
<1>4. CASE document' = document
  <2>1. SameEntriesBut(s, s, "effort", asked)
        BY DEF SameEntriesBut
  <2> QED BY <1>4, <2>1 DEF EffortIsLocal, OnlyAt, Current
<1>5. CASE document' # document
  <2>1. Member(s, t.route) /\ SetEntries(of, u)
        BY <1>2, <1>5
  <2>2. s = [i \in DOMAIN s |-> s[i]]
        BY <1>3, LenProperties DEF EntriesSettled
  <2> HIDE DEF s
  <2>3. Place(s, t.route) \in DOMAIN s /\ s[Place(s, t.route)].route = t.route
        BY <2>1 DEF Place, Member
  <2>4. DOMAIN u = DOMAIN s /\ \A i \in DOMAIN s : Edit(u[i], s[i], "effort", asked)
    <3> DEFINE k == Place(s, t.route)
    <3>1. u = [s EXCEPT ![k] = [@ EXCEPT !["effort"] = t.effort]]
          BY DEF Changed
    <3> HIDE DEF k, u
    <3>2. DOMAIN u = DOMAIN s /\ \A i \in DOMAIN s \ {k} : u[i] = s[i]
          BY <2>2, <3>1
    <3>3. k \in DOMAIN s /\ s[k].route = t.route
          BY <2>3 DEF k
    <3>4. u[k] = [s[k] EXCEPT !["effort"] = t.effort]
          BY <2>2, <3>1, <3>3
    <3>5. t.route \in DOMAIN asked /\ asked[t.route] = t.effort
          OBVIOUS
    <3> HIDE DEF asked
    <3>6. Edit(u[k], s[k], "effort", asked)
          BY <1>1, <3>3, <3>4, <3>5 DEF Edit, Full
    <3> QED BY <3>2, <3>6 DEF Edit
  <2> HIDE DEF u, asked
  <2>5. SameEntriesBut(s, read, "effort", asked)
    <3>1. "auto" # "none" /\ "effort" \in {"effort", "weight"} /\ "route" \in PoolEntryKeys
          BY DEF PoolEntryKeys, EntryKeys
    <3> QED BY <1>3, <2>4, <3>1, BothKeys, EditsRead
  <2>6. /\ OnlyAt("pools", of) /\ document'.pools[of].policy = document.pools[of].policy
        /\ document'.pools[of].entries = read
        BY <1>1, <1>5, <2>1, EntriesSet
  <2> HIDE DEF read
  <2> QED BY <2>5, <2>6 DEF EffortIsLocal, Current, s, asked
<1> QED BY <1>4, <1>5

LEMMA AdviceLocal ==
    ASSUME CatalogueInv, AskedInv, NEW h \in Hosts, ApplyChange(h)
    PROVE  AdviceIsLocal(h)
<1> DEFINE a == task[h].advised
           of == a.of
           s == EntriesOf(document, a)
           u == Applied(s, a)
           asked == Asks(a)
<1>1. DocSettled(document) /\ Weighs(a)
      BY ReadsSettle DEF CatalogueInv, AskedInv, TaskAsks, ApplyChange, At
<1>2. CASE document' = document
  <2>1. SameEntriesBut(s, s, "weight", asked) /\ \A route : Fronted(s, s, route)
        BY DEF SameEntriesBut, Fronted
  <2>2. OnlyAt(About(a.kind), of)
        BY <1>2 DEF OnlyAt, Current
  <2>3. document'[About(a.kind)][of] = document[About(a.kind)][of]
        BY <1>2
  <2>4. s = document[About(a.kind)][of].entries
        BY DEF EntriesOf
  <2> QED BY <2>1, <2>2, <2>3, <2>4 DEF AdviceIsLocal, Current, Asks
<1>3. CASE document' # document /\ a.kind = "boss"
  <2>1. /\ of \in DOMAIN document.bosses /\ s = document.bosses[of].entries /\ Applicable(s, a)
        /\ SaveBoss(of, [document.bosses[of] EXCEPT !.entries = u])
        BY <1>3 DEF ApplyChange, There, EntriesOf, About, Current, Boss
  <2>2. EntriesSettled(s, EntryKeys)
        BY <1>1, <2>1 DEF DocSettled, BossSettled
  <2>3. DOMAIN u = DOMAIN s /\ \A i \in DOMAIN s : Edit(u[i], s[i], "weight", asked)
        BY <1>1, <1>3, <2>1, AdviceAsks
  <2> DEFINE read == [i \in DOMAIN u |-> Chosen(u[i], "max")]
  <2> HIDE DEF u, s, asked
  <2>4. SameEntriesBut(s, read, "weight", asked) /\ RoutesOf(u) = RoutesOf(s)
    <3>1. "max" # "none" /\ "weight" \in {"effort", "weight"} /\ "route" \in EntryKeys
          BY DEF EntryKeys
    <3> QED BY <2>2, <2>3, <3>1, BothKeys, EditsRead
  <2>5. /\ OnlyAt("bosses", of)
        /\ \A f \in DOMAIN document.bosses[of] \ {"entries", "policy"} :
              document'.bosses[of][f] = document.bosses[of][f]
        /\ document'.bosses[of].entries = read
        BY <1>1, <1>3, <2>1, <2>4, BossSaved
  <2> HIDE DEF read
  <2>6. About(a.kind) = "bosses" /\ a.kind # "order"
        BY <1>3 DEF About
  <2> QED BY <1>3, <2>1, <2>4, <2>5, <2>6 DEF AdviceIsLocal, Current, asked, Asks
<1>4. CASE document' # document /\ a.kind # "boss"
  <2>1. /\ of \in DOMAIN document.pools /\ s = document.pools[of].entries /\ Applicable(s, a)
        /\ SetEntries(of, u)
        BY <1>4 DEF ApplyChange, There, EntriesOf, About, Current
  <2>2. of \in PoolIds /\ DOMAIN document.pools[of] = PoolKeys /\ EntriesSettled(s, PoolEntryKeys)
        BY <1>1, <2>1 DEF DocSettled, PoolSettled, IsObject
  <2> DEFINE read == [i \in DOMAIN u |-> Chosen(u[i], "auto")]
  <2>3. /\ OnlyAt("pools", of) /\ document'.pools[of].policy = document.pools[of].policy
        /\ document'.pools[of].entries = read
        BY <1>1, <1>4, <2>1, <2>2, EntriesSet
  <2>4. About(a.kind) = "pools"
        BY <1>4 DEF About
  <2>5. CASE a.kind = "order"
    <3>1. Fronted(s, read, a.base[a.to[1]][1])
          BY <2>1, <2>2, <2>5, BothKeys, AdviceMoves
    <3> HIDE DEF read, s
    <3> QED BY <2>1, <2>2, <2>3, <2>4, <2>5, <3>1 DEF AdviceIsLocal, Current, PoolKeys
  <2>6. CASE a.kind # "order"
    <3>1. DOMAIN u = DOMAIN s /\ \A i \in DOMAIN s : Edit(u[i], s[i], "weight", asked)
          BY <1>1, <2>1, <2>6, AdviceAsks
    <3> HIDE DEF u, s, asked
    <3>2. SameEntriesBut(s, read, "weight", asked)
      <4>1. "auto" # "none" /\ "weight" \in {"effort", "weight"} /\ "route" \in PoolEntryKeys
            BY DEF PoolEntryKeys, EntryKeys
      <4> QED BY <2>2, <3>1, <4>1, BothKeys, EditsRead
    <3> HIDE DEF read
    <3> QED BY <2>1, <2>2, <2>3, <2>4, <2>6, <3>2 DEF AdviceIsLocal, Current, PoolKeys, asked, Asks
  <2> QED BY <2>5, <2>6
<1> QED BY <1>2, <1>3, <1>4

\* The host comes to await neither a change of an effort nor one that was advised.
Free(h) == UNCHANGED task \/ \E t : Become(h, t) /\ t.step \notin {"effort", "applying"}

AsksEffort(h) ==
    \E p \in Edited, r \in DOMAIN Current.routes, effort \in Explicit \cup {"auto"} : AskEffort(h, p, r, effort)

\* The steps but those that ask for an effort or take advice: none awaits a change of these.
LEMMA OthersAsk ==
    ASSUME CatalogueInv, NEW h \in Hosts, Screens(h) \/ Awaits(h) \/ LosePi(h) \/ Restart(h),
           ~Apply(h), ~AsksEffort(h)
    PROVE  Free(h)
<1>1. IsTask(task[h])
      BY DEF CatalogueInv, HostOK
<1>2. Finish(h) => Free(h)
      BY IdleOK DEF Finish, Free
<1>3. ASSUME NEW step, step \notin {"effort", "applying"}, Goto(h, step) PROVE Free(h)
  <2> DEFINE t == [task[h] EXCEPT !.step = step]
  <2>1. t.step = step
        BY <1>1 DEF IsTask
  <2> HIDE DEF t
  <2>2. Become(h, t)
        BY <1>3 DEF Goto, t
  <2> QED BY <1>3, <2>1, <2>2 DEF Free
<1>4. \A external, url : Refreshing(external, url).step = "asked"
      BY DEF Refreshing, Idle
<1>5. ASSUME NEW url, NEW secret, Configure(h, url, secret) PROVE Free(h)
  <2>1. Become(h, Following(url, secret))
        BY <1>5 DEF Configure
  <2>2. Reconciling.step = "reconciling"
        BY DEF Reconciling, Idle
  <2>3. Following(url, secret).step \in {"asked", "reconciling"}
        BY <1>4, <2>2 DEF Following
  <2> QED BY <2>1, <2>3 DEF Free
<1>6. Refresh(h) => Free(h)
      BY <1>4 DEF Refresh, Free
<1>7. ASSUME NEW remote, Toggle(h, remote) PROVE Free(h)
  <2>1. PICK step \in {"switching", "looking"} : \E on, route, entry :
          Become(h, [Idle EXCEPT !.step = step, !.on = on, !.remote = remote, !.route = route, !.entry = entry])
        BY <1>7 DEF Toggle
  <2>2. PICK on, route, entry :
          Become(h, [Idle EXCEPT !.step = step, !.on = on, !.remote = remote, !.route = route, !.entry = entry])
        BY <2>1
  <2> DEFINE t == [Idle EXCEPT !.step = step, !.on = on, !.remote = remote, !.route = route, !.entry = entry]
  <2>3. t.step = step
        BY DEF Idle
  <2> HIDE DEF t
  <2>4. Become(h, t)
        BY <2>2 DEF t
  <2> QED BY <2>3, <2>4 DEF Free
<1>8. EditPool(h) \/ EditBoss(h) \/ (\E of, kind : Propose(h, of, kind)) \/ Ignore(h)
      \/ (\E models : SyncPi(h, models)) \/ (\E i : Import(h, i)) \/ LosePi(h) => Free(h)
      BY DEF EditPool, EditBoss, Propose, Ignore, SyncPi, Import, LosePi, Free
<1>9. Restart(h) => Free(h)
      BY <1>2 DEF Restart, Finish
<1>10. ASSUME ReadPrior(h) PROVE Free(h)
  <2> DEFINE t == [task[h] EXCEPT !.step = "listing", !.prior = CacheFor(cache, task[h].url)]
  <2>1. t.step = "listing"
        BY <1>1 DEF IsTask
  <2> HIDE DEF t
  <2>2. Become(h, t)
        BY <1>10 DEF ReadPrior, t
  <2> QED BY <2>1, <2>2 DEF Free
<1>11. ASSUME Look(h) PROVE Free(h)
  <2> DEFINE t == [task[h] EXCEPT !.step = "switching", !.entry = Discovered(h, task[h].remote)]
  <2>1. t.step = "switching"
        BY <1>1 DEF IsTask
  <2> HIDE DEF t
  <2>2. Finish(h) \/ Become(h, t)
        BY <1>11 DEF Look, t
  <2> QED BY <1>2, <2>1, <2>2 DEF Free
<1>12. Answered(h) => Free(h)
       BY <1>2, <1>3 DEF Answered, Listed, NotListed
<1>13. Switch(h) \/ SetEffort(h) \/ ApplyChange(h) \/ ApplyMark(h) \/ Reconcile(h) => Free(h)
  <2>1. Switch(h) \/ SetEffort(h) \/ ApplyChange(h) \/ ApplyMark(h) \/ Reconcile(h) =>
           Finish(h) \/ Goto(h, "reconciling") \/ Goto(h, "applied")
        BY DEF Switch, SetEffort, ApplyChange, ApplyMark, Reconcile
  <2>2. Goto(h, "reconciling") \/ Goto(h, "applied") => Free(h)
        BY <1>3
  <2> QED BY <1>2, <2>1, <2>2
<1>14. CASE Screens(h)
  <2>1. \/ \E url, secret : Configure(h, url, secret)
        \/ Refresh(h) \/ EditPool(h) \/ EditBoss(h) \/ Ignore(h)
        \/ \E models : SyncPi(h, models)
        \/ \E remote : Toggle(h, remote)
        \/ \E of, kind : Propose(h, of, kind)
        \/ \E i : Import(h, i)
        BY <1>14 DEF Screens, AsksEffort
  <2> QED BY <1>5, <1>6, <1>7, <1>8, <2>1
<1>15. CASE Awaits(h)
       BY <1>10, <1>11, <1>12, <1>13, <1>15 DEF Awaits
<1> QED BY <1>8, <1>9, <1>14, <1>15

\* What is advised: a weight for each route there is, or a place.
LEMMA AdviceWeighs ==
    ASSUME CatalogueInv, Weighs(advice), NEW h \in Hosts, Screens(h) \/ Awaits(h) \/ LosePi(h) \/ Restart(h)
    PROVE  Weighs(advice')
<1>1. \A w \in Weights : w # Absent
      BY DEF Weights, Absent
<1>2. ASSUME NEW of, NEW kind, Propose(h, of, kind) PROVE Weighs(advice')
  <2> DEFINE entries == EntriesOf(Current, [of |-> of, kind |-> kind])
  <2>1. CASE kind = "order"
        BY <1>2, <2>1 DEF Propose, Weighs
  <2>2. CASE kind # "order"
    <3>1. PICK to \in [DOMAIN entries -> Asked] :
             advice' = [status |-> "proposed", of |-> of, kind |-> kind, base |-> Shares(entries), to |-> to]
          BY <1>2, <2>2 DEF Propose
    <3>2. DOMAIN advice'.base = DOMAIN entries /\ advice'.to = to
          BY <3>1 DEF Shares
    <3> HIDE DEF entries
    <3> QED BY <1>1, <3>1, <3>2, SetupAssumption DEF Weighs
  <2> QED BY <2>1, <2>2
<1>3. ASSUME Ignore(h) \/ ApplyMark(h) PROVE Weighs(advice')
  <2>1. PICK status : advice' = [advice EXCEPT !.status = status]
        BY <1>3 DEF Ignore, ApplyMark
  <2>2. advice'.kind = advice.kind /\ advice'.base = advice.base /\ advice'.to = advice.to
        BY <2>1
  <2> QED BY <2>2 DEF Weighs
<1>4. CASE UNCHANGED advice
      BY <1>4 DEF Weighs
<1>5. \/ UNCHANGED advice \/ Ignore(h) \/ ApplyMark(h) \/ \E of, kind : Propose(h, of, kind)
  <2>1. Screens(h) => \/ UNCHANGED advice \/ Ignore(h) \/ \E of, kind : Propose(h, of, kind)
    <3>1. \A url, secret : Configure(h, url, secret) => UNCHANGED advice
          BY DEF Configure
    <3>2. \A models, remote : SyncPi(h, models) \/ Toggle(h, remote) => UNCHANGED advice
          BY DEF SyncPi, Toggle
    <3>3. Refresh(h) \/ EditPool(h) \/ EditBoss(h) \/ Apply(h) => UNCHANGED advice
          BY DEF Refresh, EditPool, EditBoss, Apply
    <3>4. \A p, r, effort : AskEffort(h, p, r, effort) => UNCHANGED advice
          BY DEF AskEffort
    <3>5. \A i : Import(h, i) => UNCHANGED advice
          BY DEF Import
    <3> QED BY <3>1, <3>2, <3>3, <3>4, <3>5 DEF Screens
  <2>2. Awaits(h) => UNCHANGED advice \/ ApplyMark(h)
        BY DEF Awaits, ReadPrior, Answered, Listed, NotListed, Look, Switch, SetEffort, ApplyChange, Reconcile
  <2>3. LosePi(h) \/ Restart(h) => UNCHANGED advice
        BY DEF LosePi, Restart
  <2> QED BY <2>1, <2>2, <2>3
<1> QED BY <1>2, <1>3, <1>4, <1>5

LEMMA InitAsked == Init => AskedInv
<1> SUFFICES ASSUME Init PROVE AskedInv
    OBVIOUS
<1>1. Weighs(advice)
      BY DEF Init, NoAdvice, Weighs
<1>2. TaskAsks(Idle)
      BY IdleOK DEF TaskAsks
<1> QED BY <1>1, <1>2 DEF Init, AskedInv

LEMMA StepAsked == ASSUME CatalogueInv, AskedInv, [Next]_vars PROVE AskedInv'
<1> DEFINE Step(h) == Screens(h) \/ Awaits(h) \/ LosePi(h) \/ Restart(h)
<1>1. CASE UNCHANGED <<task, advice>>
      BY <1>1 DEF AskedInv, TaskAsks, Weighs
<1>2. ASSUME NEW h \in Hosts, NEW t, Become(h, t), TaskAsks(t), Weighs(advice') PROVE AskedInv'
  <2>1. task' = [k \in Hosts |-> IF k = h THEN t ELSE task[k]]
        BY <1>2 DEF CatalogueInv, Become
  <2> QED BY <1>2, <2>1 DEF AskedInv
<1>3. ASSUME NEW h \in Hosts, Step(h) PROVE AskedInv'
  <2>1. Weighs(advice')
        BY <1>3, AdviceWeighs DEF AskedInv
  <2>2. CASE Apply(h)
    <3> DEFINE t == [Idle EXCEPT !.step = "applying", !.advised = advice]
    <3>1. t.step = "applying" /\ t.advised = advice
          BY DEF Idle
    <3> HIDE DEF t
    <3>2. Become(h, t)
          BY <2>2 DEF Apply, t
    <3>3. TaskAsks(t)
          BY <3>1 DEF TaskAsks, AskedInv
    <3> QED BY <1>2, <2>1, <3>2, <3>3
  <2>3. ASSUME NEW p \in Edited, NEW r, NEW effort \in Explicit \cup {"auto"}, AskEffort(h, p, r, effort)
        PROVE  AskedInv'
    <3> DEFINE t == [Idle EXCEPT !.step = "effort", !.pool = p, !.route = r, !.effort = effort]
    <3>1. t.step = "effort" /\ t.effort = effort /\ t.pool = p
          BY DEF Idle
    <3> HIDE DEF t
    <3>2. Become(h, t)
          BY <2>3 DEF AskEffort, t
    <3>3. effort # "none" /\ p \in PoolIds
          BY SetupAssumption DEF Explicit
    <3>4. TaskAsks(t)
          BY <3>1, <3>3 DEF TaskAsks
    <3> QED BY <1>2, <2>1, <3>2, <3>4
  <2>4. CASE ~Apply(h) /\ ~AsksEffort(h)
    <3>1. \/ UNCHANGED task
          \/ \E t : Become(h, t) /\ t.step \notin {"effort", "applying"}
          BY <1>3, <2>4, OthersAsk DEF Free
    <3>2. CASE UNCHANGED task
          BY <2>1, <3>2 DEF AskedInv, TaskAsks
    <3>3. ASSUME NEW t, Become(h, t), t.step \notin {"effort", "applying"} PROVE AskedInv'
      <4>1. TaskAsks(t)
            BY <3>3 DEF TaskAsks
      <4> QED BY <1>2, <2>1, <3>3, <4>1
    <3> QED BY <3>1, <3>2, <3>3
  <2> QED BY <2>2, <2>3, <2>4 DEF AsksEffort
<1>4. UNCHANGED vars \/ DamageCache => UNCHANGED <<task, advice>>
      BY DEF vars, DamageCache
<1> QED BY <1>1, <1>3, <1>4 DEF Next

\* What an operation was told to change it may have read some awaits ago, and other hosts, other screens
\* and imports come between: of the configuration that is there by then it still changes no other key, entry
\* or field, gives its own the value it was asked, and the next read migrates nothing of it (setEnabled,
\* setPoolEntryThinkingEffort, updatePoolWeights, updateBossWeights, moveRoute).
THEOREM EditsAreLocal == Spec => EditsStayLocal
<1> DEFINE Local == \A h \in Hosts :
                        /\ Switch(h) => SwitchIsLocal(h)
                        /\ SetEffort(h) => EffortIsLocal(h)
                        /\ ApplyChange(h) => AdviceIsLocal(h)
<1>1. ASSUME CatalogueInv, AskedInv, [Next]_vars PROVE [Local]_vars
      BY <1>1, SwitchLocal, EffortLocal, AdviceLocal
<1> QED BY <1>1, InitCatalogue, StepCatalogue, InitAsked, StepAsked, PTL DEF Spec, EditsStayLocal

-------------------------------------------------------------------------------
(* What is read is valid                                                    *)

LEMMA OneIsWeight == 1 \in Weights
<1>1. MaxWeight \in Nat /\ 1 <= MaxWeight
      BY DEF MaxWeight
<1> QED BY <1>1 DEF Weights

LEMMA ChosenValid ==
    ASSUME NEW keys, Both(keys), NEW e, IsObject(e, keys), EntryOk(e), NEW effort \in {"auto", "max"}
    PROVE  /\ EntryOk(Chosen(e, effort))
           /\ \A k \in keys \ {"effort", "weight"} : Chosen(e, effort)[k] = e[k]
<1> DEFINE c == Chosen(e, effort)
<1>1. /\ c.effort = (IF e.effort = "none" THEN effort ELSE e.effort)
      /\ c.weight = (IF e.weight = Absent THEN 1 ELSE e.weight)
      /\ \A k \in keys \ {"effort", "weight"} : c[k] = e[k]
  <2> DEFINE f == IF e.effort = "none" THEN effort ELSE e.effort
             w == IF e.weight = Absent THEN 1 ELSE e.weight
  <2>1. c = [e EXCEPT !.effort = f, !.weight = w]
        BY DEF Chosen
  <2>2. DOMAIN e = keys /\ "effort" \in keys /\ "weight" \in keys
        BY DEF Both, IsObject
  <2> HIDE DEF c, f, w
  <2>3. c.effort = f /\ c.weight = w /\ \A k \in keys \ {"effort", "weight"} : c[k] = e[k]
        BY <2>1, <2>2
  <2> QED BY <2>3 DEF f, w
<1> HIDE DEF c
<1>2. c.effort \in {"none", "auto"} \cup Explicit
  <2>1. e.effort \in {"none", "auto"} \cup Explicit /\ effort \in {"none", "auto"} \cup Explicit
        BY DEF EntryOk, Explicit
  <2> QED BY <1>1, <2>1
<1>3. Given(c.weight, Weights)
  <2>1. Given(e.weight, Weights)
        BY DEF EntryOk
  <2> QED BY <1>1, <2>1, OneIsWeight DEF Given
<1>4. EntryOk(c)
      BY <1>2, <1>3 DEF EntryOk
<1> QED BY <1>1, <1>4 DEF c

\* A sequence of entries with their efforts and weights given: as long, and of the same routes.
LEMMA ChosenEntries ==
    ASSUME NEW s, IsArray(s), NEW keys, Both(keys), "route" \in keys,
           \A i \in DOMAIN s : IsObject(s[i], keys) /\ EntryOk(s[i]), NEW effort \in {"auto", "max"},
           NEW t, t = [i \in DOMAIN s |-> Chosen(s[i], effort)]
    PROVE  /\ IsArray(t) /\ DOMAIN t = DOMAIN s /\ RoutesOf(t) = RoutesOf(s)
           /\ \A i \in DOMAIN t :
                 /\ IsObject(t[i], keys) /\ EntryOk(t[i])
                 /\ \A k \in keys \ {"effort", "weight"} : t[i][k] = s[i][k]
<1>1. DOMAIN t = DOMAIN s /\ t = [i \in DOMAIN s |-> t[i]] /\ \A i \in DOMAIN s : t[i] = Chosen(s[i], effort)
      OBVIOUS
<1>2. IsArray(t)
      BY <1>1, MappedArray DEF IsArray
<1>3. \A i \in DOMAIN s : EntryOk(t[i]) /\ \A k \in keys \ {"effort", "weight"} : t[i][k] = s[i][k]
      BY <1>1, ChosenValid
<1>4. \A i \in DOMAIN s : IsObject(t[i], keys)
      BY <1>1, ChosenSettles DEF Settled
<1>5. RoutesOf(t) = RoutesOf(s)
  <2>1. \A i \in DOMAIN s : t[i].route = s[i].route
        BY <1>3
  <2> QED BY <1>1, <2>1 DEF RoutesOf
<1> QED BY <1>1, <1>2, <1>3, <1>4, <1>5

\* The sequence of routes of entries.
LEMMA RoutesArray ==
    ASSUME NEW s, IsArray(s)
    PROVE  IsArray(RoutesOf(s)) /\ DOMAIN RoutesOf(s) = DOMAIN s
<1> DEFINE t == RoutesOf(s)
<1>1. DOMAIN t = DOMAIN s /\ t = [i \in DOMAIN s |-> t[i]]
      BY DEF RoutesOf
<1> HIDE DEF t
<1>2. IsArray(t)
      BY <1>1, MappedArray DEF IsArray
<1> QED BY <1>1, <1>2 DEF t

LEMMA PoolStaysValid ==
    ASSUME NEW c, NEW d, d.routes = c.routes, d.limits = c.limits, NEW p, PoolOk(p), PoolSound(c, p)
    PROVE  PoolOk(MigratedPool(p)) /\ PoolSound(d, MigratedPool(p))
<1> DEFINE s == p.entries
           t == [i \in DOMAIN s |-> Chosen(s[i], "auto")]
           q == MigratedPool(p)
<1>1. /\ IsArray(s)
      /\ \A i \in DOMAIN s : PoolEntryOk(s[i]) /\ Known(c, s[i].route)
                             /\ ~Exceeds(c, s[i].timeout, "timeout") /\ ~Exceeds(c, s[i].attempts, "attempts")
      BY DEF PoolOk, PoolSound, Range
<1>2. "route" \in PoolEntryKeys /\ "timeout" \in PoolEntryKeys /\ "attempts" \in PoolEntryKeys
      BY DEF PoolEntryKeys, EntryKeys
<1>3. \A i \in DOMAIN s : IsObject(s[i], PoolEntryKeys) /\ EntryOk(s[i])
      BY <1>1 DEF PoolEntryOk
<1>4. q.policy \in Policies /\ q.entries = t /\ IsObject(q, PoolKeys)
  <2> HIDE DEF t
  <2>1. q = [policy |-> IF p.policy = "none" THEN "priority" ELSE p.policy, entries |-> t]
        BY DEF MigratedPool, t
  <2> QED BY <2>1 DEF PoolOk, Policies, IsObject, PoolKeys
<1> HIDE DEF q
<1>5. /\ IsArray(t) /\ DOMAIN t = DOMAIN s /\ RoutesOf(t) = RoutesOf(s)
      /\ \A i \in DOMAIN t :
            /\ IsObject(t[i], PoolEntryKeys) /\ EntryOk(t[i])
            /\ \A k \in PoolEntryKeys \ {"effort", "weight"} : t[i][k] = s[i][k]
      BY <1>1, <1>2, <1>3, BothKeys, ChosenEntries
<1> HIDE DEF t
<1>6. \A i \in DOMAIN t : t[i].route = s[i].route /\ t[i].timeout = s[i].timeout /\ t[i].attempts = s[i].attempts
      BY <1>2, <1>5
<1>7. \A i \in DOMAIN t : PoolEntryOk(t[i])
      BY <1>1, <1>5, <1>6 DEF PoolEntryOk
<1>8. PoolOk(q)
      BY <1>4, <1>5, <1>7 DEF PoolOk, Range
<1>9. IsInjective(RoutesOf(t))
      BY <1>5 DEF PoolSound
<1>10. \A i \in DOMAIN t : Known(d, t[i].route) /\ ~Exceeds(d, t[i].timeout, "timeout") /\ ~Exceeds(d, t[i].attempts, "attempts")
      BY <1>1, <1>5, <1>6 DEF Known, Exceeds
<1>11. PoolSound(d, q)
      BY <1>4, <1>9, <1>10 DEF PoolSound, Range
<1> QED BY <1>8, <1>11 DEF q

LEMMA BossStaysValid ==
    ASSUME NEW c, NEW d, d.routes = c.routes, NEW b, BossOk(b), BossSound(c, b)
    PROVE  BossOk(MigratedBoss(b)) /\ BossSound(d, MigratedBoss(b))
<1> DEFINE s == ReadFrom(b)
           t == [i \in DOMAIN s |-> Chosen(s[i], "max")]
           q == MigratedBoss(b)
<1>1. /\ q.listed /\ q.entries = t /\ q.routeIds = RoutesOf(s) /\ q.policy \in Policies
      /\ IsObject(q, BossKeys)
  <2> DEFINE ids == RoutesOf(s)
  <2> HIDE DEF t, ids
  <2>1. q = [b EXCEPT !.listed = TRUE, !.entries = t, !.routeIds = ids,
                      !.policy = IF @ = "none" THEN "weighted" ELSE @]
        BY DEF MigratedBoss, ReadFrom, t, ids
  <2>2. IsObject(b, BossKeys) /\ b.policy \in Policies \cup {"none"}
        BY DEF BossOk
  <2> HIDE DEF q
  <2>3. /\ q.listed /\ q.entries = t /\ q.routeIds = ids /\ IsObject(q, BossKeys)
        /\ q.policy = (IF b.policy = "none" THEN "weighted" ELSE b.policy)
        BY <2>1, <2>2 DEF IsObject, BossKeys
  <2>4. q.policy \in Policies
        BY <2>2, <2>3 DEF Policies
  <2> QED BY <2>3, <2>4 DEF ids
<1> HIDE DEF q
<1>2. /\ IsArray(s) /\ \A i \in DOMAIN s : IsObject(s[i], EntryKeys) /\ EntryOk(s[i]) /\ Known(c, s[i].route)
      /\ IsInjective(RoutesOf(s))
  <2>1. CASE b.listed /\ b.entries # <<>>
    <3>1. s = b.entries
          BY <2>1 DEF ReadFrom, BossEntries
    <3>2. /\ IsArray(b.entries) /\ IsInjective(RoutesOf(b.entries))
          /\ \A e \in Range(b.entries) : IsObject(e, EntryKeys) /\ EntryOk(e) /\ Known(c, e.route)
          BY <2>1 DEF BossOk, BossSound
    <3> HIDE DEF s
    <3>3. \A i \in DOMAIN s : s[i] \in Range(b.entries)
          BY <3>1 DEF Range
    <3> QED BY <3>1, <3>2, <3>3
  <2>2. CASE ~(b.listed /\ b.entries # <<>>)
    <3>1. s = [i \in DOMAIN b.routeIds |-> BossEntry(b.routeIds[i])]
          BY <2>2 DEF ReadFrom, BossEntries, BossOk, IsObject, BossKeys
    <3>2. IsArray(b.routeIds) /\ IsInjective(b.routeIds) /\ \A i \in DOMAIN b.routeIds : Known(c, b.routeIds[i])
          BY DEF BossOk, BossSound, Range
    <3> HIDE DEF s
    <3>3. DOMAIN s = DOMAIN b.routeIds /\ s = [i \in DOMAIN b.routeIds |-> s[i]]
          BY <3>1
    <3>4. IsArray(s)
          BY <3>2, <3>3, MappedArray DEF IsArray
    <3>5. \A r : EntryOk(BossEntry(r)) /\ BossEntry(r).route = r
          BY OneIsWeight DEF EntryOk, BossEntry, Explicit, Given
    <3>6. \A i \in DOMAIN s : IsObject(s[i], EntryKeys) /\ EntryOk(s[i]) /\ s[i].route = b.routeIds[i]
          BY <3>1, <3>5, BossEntryIs
    <3>7. RoutesOf(s) = [i \in DOMAIN b.routeIds |-> b.routeIds[i]]
          BY <3>3, <3>6 DEF RoutesOf
    <3>8. IsInjective(RoutesOf(s))
          BY <3>2, <3>7 DEF IsInjective
    <3> QED BY <3>2, <3>3, <3>4, <3>6, <3>8
  <2> QED BY <2>1, <2>2
<1> HIDE DEF s
<1>3. "route" \in EntryKeys
      BY DEF EntryKeys
<1>4. /\ IsArray(t) /\ DOMAIN t = DOMAIN s /\ RoutesOf(t) = RoutesOf(s)
      /\ \A i \in DOMAIN t :
            /\ IsObject(t[i], EntryKeys) /\ EntryOk(t[i])
            /\ \A k \in EntryKeys \ {"effort", "weight"} : t[i][k] = s[i][k]
      BY <1>2, <1>3, BothKeys, ChosenEntries
<1> HIDE DEF t
<1>5. \A i \in DOMAIN t : Known(d, t[i].route)
  <2>1. \A i \in DOMAIN t : t[i].route = s[i].route
        BY <1>3, <1>4
  <2> QED BY <1>2, <1>4, <2>1 DEF Known
<1>6. IsArray(q.routeIds) /\ IsInjective(q.routeIds)
      BY <1>1, <1>2, RoutesArray
<1>7. BossOk(q)
      BY <1>1, <1>4, <1>6 DEF BossOk, Range
<1>8. \A r \in Range(q.routeIds) : Known(d, r)
  <2>1. q.routeIds = [i \in DOMAIN t |-> t[i].route]
        BY <1>1, <1>4 DEF RoutesOf
  <2>2. ASSUME NEW r \in Range(q.routeIds) PROVE Known(d, r)
    <3>1. PICK i \in DOMAIN t : r = t[i].route
          BY <2>1, <2>2 DEF Range
    <3> QED BY <1>5, <3>1
  <2> QED BY <2>2
<1>9. BossSound(d, q)
      BY <1>1, <1>2, <1>4, <1>5, <1>8 DEF BossSound, Range
<1> QED BY <1>7, <1>9 DEF q

\* A valid document is migrated to a valid one.
LEMMA MigratedValid == ASSUME NEW c, DocumentOk(c) PROVE DocumentOk(Migrated(c))
<1> DEFINE d == Migrated(c)
<1>1. /\ DOMAIN c = Fields /\ DOMAIN c.pools = PoolIds /\ \A f \in Fields : FieldOk(f, c[f])
      /\ \A p \in PoolIds : PoolSound(c, c.pools[p])
      /\ \A b \in DOMAIN c.bosses : BossSound(c, c.bosses[b])
      BY DEF DocumentOk, StructureOk, SemanticsOk
<1>2. /\ d.pools = [p \in PoolIds |-> MigratedPool(c.pools[p])]
      /\ d.bosses = [b \in DOMAIN c.bosses |-> MigratedBoss(c.bosses[b])]
      /\ DOMAIN d = Fields
      BY <1>1 DEF Migrated, Fields, KeyedMaps
<1>3. \A f \in Fields \ {"pools", "bosses"} : d[f] = c[f]
      BY MigratedSame
<1> HIDE DEF d
<1>4. /\ d.gateways = c.gateways /\ d.routes = c.routes /\ d.limits = c.limits /\ d.profiles = c.profiles
      /\ d.boss = c.boss /\ d.profile = c.profile /\ d.routing = c.routing
      BY <1>3 DEF Fields, KeyedMaps
<1>5. \A p \in PoolIds : PoolOk(d.pools[p]) /\ PoolSound(d, d.pools[p])
  <2>1. \A p \in PoolIds : PoolOk(c.pools[p])
        BY <1>1 DEF FieldOk, Fields, KeyedMaps
  <2> QED BY <1>1, <1>2, <1>4, <2>1, PoolStaysValid
<1>6. \A b \in DOMAIN d.bosses : BossOk(d.bosses[b]) /\ BossSound(d, d.bosses[b])
  <2>1. \A b \in DOMAIN c.bosses : BossOk(c.bosses[b])
        BY <1>1 DEF FieldOk, Fields, KeyedMaps
  <2> QED BY <1>1, <1>2, <1>4, <2>1, BossStaysValid
<1>7. \A f \in Fields : FieldOk(f, d[f])
  <2>1. FieldOk("pools", d["pools"])
        BY <1>2, <1>5 DEF FieldOk
  <2>2. FieldOk("bosses", d["bosses"])
        BY <1>6 DEF FieldOk
  <2>3. \A f \in Fields \ {"pools", "bosses"} : FieldOk(f, d[f])
        BY <1>1, <1>3
  <2> QED BY <2>1, <2>2, <2>3
<1>8. StructureOk(d)
      BY <1>2, <1>7 DEF StructureOk
<1>9. SemanticsOk(d)
  <2>1. SemanticsOk(c)
        BY DEF DocumentOk
  <2>2. \A p : ProfileSound(d, p) = ProfileSound(c, p)
        BY <1>4 DEF ProfileSound, Exceeds
  <2>3. DOMAIN d.bosses = DOMAIN c.bosses
        BY <1>2
  <2> QED BY <1>4, <1>5, <1>6, <2>1, <2>2, <2>3 DEF SemanticsOk, Exceeds
<1> QED BY <1>8, <1>9 DEF DocumentOk, d

\* Whatever users, hosts and gateways do, a read of the configuration gives a document that is itself valid
\* and that migration leaves as it is, so that a change of any part of it can be validated and written
\* (validateStored, store.ts:316).
THEOREM ReadsAreValid == Spec => [](DocumentOk(document) /\ Migrated(document) = document)
<1>1. ASSUME CatalogueInv PROVE DocumentOk(document) /\ Migrated(document) = document
  <2>1. DocOK(document)
        BY <1>1 DEF CatalogueInv
  <2>2. DocumentOk(document)
        BY <2>1, MigratedValid DEF DocOK
  <2>3. DocSettled(document)
        BY <2>1, ReadsSettle
  <2>4. /\ [p \in PoolIds |-> MigratedPool(document.pools[p])] = document.pools
        /\ [b \in DOMAIN document.bosses |-> MigratedBoss(document.bosses[b])] = document.bosses
        BY <2>3, SamePools, SameBosses
  <2>5. document = [f \in Fields |-> document[f]]
        BY <2>3 DEF DocSettled
  <2>6. Migrated(document) = document
        BY <2>4, <2>5 DEF Migrated
  <2> QED BY <2>2, <2>6
<1>2. Init => CatalogueInv
      BY InitCatalogue
<1>3. CatalogueInv /\ [Next]_vars => CatalogueInv'
      BY StepCatalogue
<1> QED BY <1>1, <1>2, <1>3, PTL DEF Spec
===============================================================================
