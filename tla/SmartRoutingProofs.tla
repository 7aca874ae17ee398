-------------------------- MODULE SmartRoutingProofs --------------------------
(***************************************************************************)
(* Theorems about SmartRouting, for any hosts, prompts, earlier choices    *)
(* and bounds: a cancelled prompt takes back its own choice only, memory   *)
(* never answers for a risky prompt that it be run normally, and it takes  *)
(* three choices for what was learned from them to decide a prompt.        *)
(***************************************************************************)
EXTENDS SmartRouting, SequenceTheorems, FiniteSetTheorems, TLAPS

-------------------------------------------------------------------------------
(* The files and the sessions                                              *)

\* A user can ask for missions only: no explicit rule says to run normally.
Rules == {rs \in SUBSET Rule : \A r \in rs : r.source = "explicit" => r.action = "mission"}

SettingsRow == [enabled : BOOLEAN, memory : BOOLEAN, learn : BOOLEAN, triage : BOOLEAN,
                primary : Routes \cup {"none"}, fallback : Routes \cup {"none"}]

FilesOK ==
    /\ memory \in [kind : {"missing", "valid", "invalid"}, gen : Nat, rules : Rules]
    /\ issued \in Nat
    /\ settings \in [kind : {"missing", "valid", "corrupt"}, value : SettingsRow]
    /\ damaged \in BOOLEAN

Row == [step : Steps, prompt : Prompts \cup {NoPrompt}, aborted : BOOLEAN, probe : BOOLEAN,
        learn : BOOLEAN, match : [kind : {"none", "conflict", "strong"}, source : Sources \cup {"none"},
                                  action : Actions \cup {"none"}],
        routes : Seq(Routes), source : Sources, action : Actions \cup {"none"},
        snap : [gen : Nat, rules : Rules], wrote : Nat, made : Int, fresh : BOOLEAN, left : Rules]

\* What a step reads is there: a prompt, and before a choice is learned, the choice.
RowOK(s) ==
    /\ s \in Row
    /\ s.step # "idle" => s.prompt \in Prompts
    /\ s.step \in {"matching", "deciding", "triage", "asking"} => s.source = "learned"
    /\ s.step \in {"backup", "learning"} => s.action \in Actions /\ (s.source = "explicit" => s.action = "mission")

\* What memory told a session is for a prompt that is not risky, where it says "run normally".
ToldSafely(s) == s.step = "deciding" /\ s.match.action = "normal" => ~Risky(Sig[s.prompt])

\* Nobody has written since generation g, when the rules were these, or the generation shows it.
SinceThen(g, rules, file, spoilt) ==
    ~spoilt => file.gen >= g /\ (file.gen = g => file.rules = rules)

\* Only Pi's signal aborts a prompt; from its backup to its choice a session that has one knows the
\* file it backed up, and from then on the file it left.
Knows(h, s, file, spoilt) ==
    /\ s.aborted => h \in Cancellable
    /\ s.step = "learning" /\ h \in Cancellable => SinceThen(s.snap.gen, s.snap.rules, file, spoilt)
    /\ s.step = "learned" => SinceThen(s.wrote, s.left, file, spoilt)
    /\ s.step = "learned" /\ h \in Cancellable /\ ~spoilt /\ s.wrote = s.snap.gen + 1 => s.fresh

SessionOK(h, s, file, spoilt) == RowOK(s) /\ ToldSafely(s) /\ Knows(h, s, file, spoilt)

\* The inductive invariant.
SmartInv ==
    /\ FilesOK
    /\ session = [h \in Hosts |-> session[h]]
    /\ \A h \in Hosts : SessionOK(h, session[h], memory, damaged)

\* What every write of the file does to its generation, unless it is spoilt.
Grows == ~damaged' => ~damaged /\ (memory' = memory \/ memory'.gen = memory.gen + 1)

-------------------------------------------------------------------------------
(* The operations on the file                                              *)

LEMMA SeenBound == ASSUME NEW n \in 1 .. MaxSeen PROVE Least(MaxSeen, n + 1) \in 1 .. MaxSeen
BY RoutingMemoryAssumption DEF Least

LEMMA MergedRule == ASSUME NEW r \in Rule
                    PROVE  /\ Merged(r) \in Rule
                           /\ Merged(r).source = r.source /\ Merged(r).action = r.action
BY SeenBound DEF Merged, Rule

LEMMA NewIsRule ==
    ASSUME NEW id \in Nat, NEW sig \in Signatures, NEW source \in Sources, NEW action \in Actions
    PROVE  /\ NewRule(id, sig, source, action) \in Rule
           /\ NewRule(id, sig, source, action).source = source
           /\ NewRule(id, sig, source, action).action = action
BY RoutingMemoryAssumption DEF NewRule, Rule

\* A write of rules that may be kept leaves a file that may be kept, one generation on.
LEMMA CommitKeeps ==
    ASSUME FilesOK, NEW rules \in Rules, Commit(rules)
    PROVE  /\ memory' \in [kind : {"missing", "valid", "invalid"}, gen : Nat, rules : Rules]
           /\ memory'.gen = memory.gen + 1 /\ memory'.rules = rules
BY DEF Commit, SavedMemory, FilesOK

LEMMA MutateKeeps ==
    ASSUME FilesOK, NEW rules \in Rules, Mutate(rules)
    PROVE  /\ memory' \in [kind : {"missing", "valid", "invalid"}, gen : Nat, rules : Rules]
           /\ memory' = memory \/ memory'.gen = memory.gen + 1
BY CommitKeeps DEF Mutate, FilesOK

\* Learning from a choice.
LEMMA LearningKeeps ==
    ASSUME FilesOK, NEW sig \in Signatures, NEW source \in Sources, NEW action \in Actions,
           source = "explicit" => action = "mission",
           Merge(sig, source, action) \/ Create(sig, source, action)
    PROVE  /\ memory' \in [kind : {"missing", "valid", "invalid"}, gen : Nat, rules : Rules]
           /\ issued' \in Nat
           /\ memory'.gen = memory.gen + 1
<1>1. CASE Merge(sig, source, action)
  <2>1. PICK r \in Mergeable(memory.rules, sig, source, action) :
            Commit((memory.rules \ {r}) \cup {Merged(r)})
        BY <1>1 DEF Merge
  <2>2. r \in Rule /\ r \in memory.rules
        BY DEF Mergeable, OfSource, FilesOK, Rules
  <2>3. (memory.rules \ {r}) \cup {Merged(r)} \in Rules
        BY <2>2, MergedRule DEF FilesOK, Rules
  <2> QED BY <1>1, <2>1, <2>3, CommitKeeps DEF Merge, FilesOK
<1>2. CASE Create(sig, source, action)
  <2>1. PICK gone : Commit((memory.rules \ gone) \cup {NewRule(issued, sig, source, action)})
        BY <1>2 DEF Create
  <2> DEFINE new == NewRule(issued, sig, source, action)
  <2>2. new \in Rule /\ new.source = source /\ new.action = action
        BY NewIsRule DEF FilesOK
  <2> HIDE DEF new
  <2>3. (memory.rules \ gone) \cup {new} \in Rules
        BY <2>2 DEF FilesOK, Rules
  <2> QED BY <1>2, <2>1, <2>3, CommitKeeps DEF Create, FilesOK, new
<1> QED BY <1>1, <1>2

LEMMA FewerRules == ASSUME NEW rules \in Rules, NEW few \in SUBSET rules PROVE few \in Rules
BY DEF Rules

\* What users, rollbacks and accidents do to the file.
LEMMA EditsKeep ==
    ASSUME FilesOK,
           \/ ForgetLearned \/ ResetMemory
           \/ \E id \in 0 .. issued, on \in BOOLEAN : SwitchRule(id, on)
           \/ \E id \in Int : DeleteRule(id)
           \/ \E rules \in Rules, g \in Nat : RestoreAt(rules, g)
    PROVE  /\ memory' \in [kind : {"missing", "valid", "invalid"}, gen : Nat, rules : Rules]
           /\ issued' \in Nat
           /\ memory' = memory \/ memory'.gen = memory.gen + 1
<1>1. memory.rules \in Rules
      BY DEF FilesOK
<1>2. CASE ForgetLearned
      BY <1>1, <1>2, FewerRules, MutateKeeps DEF ForgetLearned, OfSource, FilesOK
<1>3. CASE ResetMemory
  <2>1. {} \in Rules
        BY DEF Rules
  <2> QED BY <1>3, <2>1, CommitKeeps DEF ResetMemory, FilesOK
<1>4. ASSUME NEW id \in 0 .. issued, NEW on \in BOOLEAN, SwitchRule(id, on)
      PROVE  /\ memory' \in [kind : {"missing", "valid", "invalid"}, gen : Nat, rules : Rules]
             /\ issued' \in Nat
             /\ memory' = memory \/ memory'.gen = memory.gen + 1
  <2> DEFINE Switched(r) == IF r.id = id THEN [r EXCEPT !.enabled = on] ELSE r
  <2>1. \A r \in Rule : Switched(r) \in Rule /\ Switched(r).source = r.source /\ Switched(r).action = r.action
        BY DEF Rule
  <2>2. {Switched(r) : r \in memory.rules} \in Rules
        BY <1>1, <2>1 DEF Rules
  <2> QED BY <1>4, <2>2, MutateKeeps DEF SwitchRule, FilesOK
<1>5. ASSUME NEW id \in Int, DeleteRule(id)
      PROVE  /\ memory' \in [kind : {"missing", "valid", "invalid"}, gen : Nat, rules : Rules]
             /\ issued' \in Nat
             /\ memory' = memory \/ memory'.gen = memory.gen + 1
      BY <1>1, <1>5, FewerRules, MutateKeeps DEF DeleteRule, FilesOK
<1>6. ASSUME NEW rules \in Rules, NEW g \in Nat, RestoreAt(rules, g)
      PROVE  /\ memory' \in [kind : {"missing", "valid", "invalid"}, gen : Nat, rules : Rules]
             /\ issued' \in Nat
             /\ memory' = memory \/ memory'.gen = memory.gen + 1
      BY <1>6, CommitKeeps DEF RestoreAt, FilesOK
<1> QED BY <1>2, <1>3, <1>4, <1>5, <1>6

LEMMA DamageKeeps ==
    ASSUME FilesOK, DamageMemory
    PROVE  memory' \in [kind : {"missing", "valid", "invalid"}, gen : Nat, rules : Rules] /\ issued' \in Nat
<1>1. memory.rules \in Rules /\ {} \in Rules
      BY DEF FilesOK, Rules
<1>2. CASE memory' = DamagedMemory
      BY <1>1, <1>2 DEF DamageMemory, DamagedMemory, MissingMemory, FilesOK
<1>3. ASSUME NEW r \in memory.rules, memory' = [memory EXCEPT !.rules = @ \ {r}]
      PROVE  memory' \in [kind : {"missing", "valid", "invalid"}, gen : Nat, rules : Rules]
      BY <1>1, <1>3, FewerRules DEF FilesOK
<1> QED BY <1>2, <1>3 DEF DamageMemory, FilesOK

\* A rule that says "run normally" and matches a prompt vouches that the prompt is not risky.
LEMMA MatchIsSafe ==
    ASSUME NEW rules \in Rules, NEW sig \in Signatures
    PROVE  /\ Match(rules, sig) \in [kind : {"none", "conflict", "strong"}, source : Sources \cup {"none"},
                                     action : Actions \cup {"none"}]
           /\ Match(rules, sig).action = "normal" => ~Risky(sig)
<1> DEFINE strong == {r \in rules : Strong(sig, r)}
           explicit == OfSource(strong, "explicit")
           effective == IF explicit # {} THEN explicit ELSE strong
           actions == {r.action : r \in effective}
<1>1. actions \subseteq Actions
      BY DEF Rules, Rule, OfSource
<1>2. actions # {} => (CHOOSE a \in actions : TRUE) \in actions
      OBVIOUS
<1>3. ASSUME "normal" \in actions PROVE ~Risky(sig)
  <2>1. PICK r \in effective : r.action = "normal"
        BY <1>3
  <2>2. r \in rules /\ r \in Rule /\ Strong(sig, r)
        BY DEF OfSource, Rules
  <2>3. r.source = "learned"
        BY <2>1, <2>2 DEF Rules, Rule, Sources
  <2> QED BY <2>1, <2>2, <2>3 DEF Strong, LearnedNormalCompatible
<1>4. Match(rules, sig) =
          CASE actions = {} -> NoMatch
            [] Cardinality(actions) = 2 -> [NoMatch EXCEPT !.kind = "conflict"]
            [] OTHER -> [kind |-> "strong", action |-> CHOOSE a \in actions : TRUE,
                         source |-> IF explicit # {} THEN "explicit" ELSE "learned"]
      BY DEF Match
<1> HIDE DEF actions, explicit
<1>5. \/ Match(rules, sig) = NoMatch
      \/ Match(rules, sig) = [NoMatch EXCEPT !.kind = "conflict"]
      \/ /\ actions # {}
         /\ Match(rules, sig) = [kind |-> "strong", action |-> CHOOSE a \in actions : TRUE,
                                 source |-> IF explicit # {} THEN "explicit" ELSE "learned"]
      BY <1>4
<1> QED BY <1>1, <1>2, <1>3, <1>5 DEF NoMatch, Sources, Actions

-------------------------------------------------------------------------------
(* One step                                                                *)

LEMMA IdleOK == \A h, file, spoilt : SessionOK(h, Idle, file, spoilt)
<1>1. {} \in Rules
      BY DEF Rules
<1>2. Idle \in Row
      BY <1>1 DEF Idle, Row, Steps, NoMatch, Sources, NoFile
<1> QED BY <1>2 DEF SessionOK, RowOK, ToldSafely, Knows, Idle

\* A session that takes no step knows as much as before, whatever others write.
LEMMA OthersKnow ==
    ASSUME FilesOK, FilesOK', Grows, NEW h, NEW s, SessionOK(h, s, memory, damaged)
    PROVE  SessionOK(h, s, memory', damaged')
<1>1. s.snap.gen \in Nat /\ s.wrote \in Nat
      BY DEF SessionOK, RowOK, Row
<1>2. memory.gen \in Nat /\ memory'.gen \in Nat
      BY DEF FilesOK
<1>3. \A g \in Nat : \A rules : SinceThen(g, rules, memory, damaged) => SinceThen(g, rules, memory', damaged')
      BY <1>2 DEF SinceThen, Grows
<1> QED BY <1>1, <1>3 DEF SessionOK, Knows, Grows

\* The step of one session leaves the invariant if it leaves that session and the files right.
LEMMA OneSession ==
    ASSUME SmartInv, FilesOK', Grows, NEW h \in Hosts, NEW s, Become(h, s),
           SessionOK(h, s, memory', damaged')
    PROVE  SmartInv'
<1>1. session' = [k \in Hosts |-> IF k = h THEN s ELSE session[k]]
      BY DEF SmartInv, Become
<1>2. \A k \in Hosts : SessionOK(k, session'[k], memory', damaged')
      BY <1>1, OthersKnow DEF SmartInv
<1> QED BY <1>1, <1>2 DEF SmartInv

\* Where a session's step leaves the files alone.
LEMMA QuietStep ==
    ASSUME SmartInv, Untouched, NEW h \in Hosts, NEW s, Become(h, s), SessionOK(h, s, memory, damaged)
    PROVE  SmartInv'
<1>1. FilesOK' /\ Grows /\ SessionOK(h, s, memory', damaged')
      BY DEF Untouched, Unmoved, memoryVars, SmartInv, FilesOK, Grows
<1> QED BY <1>1, OneSession

LEMMA SettingsRead == ASSUME FilesOK PROVE Loaded \in SettingsRow /\ Draft \in SettingsRow
BY SmartRoutingAssumption DEF FilesOK, Loaded, Draft, Disabled, Defaults, SettingsRow

LEMMA TriageRoutesOK == ASSUME NEW value \in SettingsRow PROVE TriageRoutes(value) \in Seq(Routes)
BY DEF TriageRoutes, SettingsRow

LEMMA SignatureKnown == ASSUME NEW x \in Prompts PROVE Sig[x] \in Signatures
BY DEF Sig, Signatures

\* Sessions on their way to a mission or a normal run, before anything is learned.
LEMMA PromptKeeps ==
    ASSUME SmartInv, NEW h \in Hosts,
           \/ \E x \in Prompts : Submit(h, x)
           \/ MatchMemory(h) \/ DecideRoute(h) \/ TriageAnswers(h) \/ Answer(h) \/ MissionRuns(h)
           \/ Backup(h) \/ Close(h) \/ Abort(h) \/ Crash(h)
    PROVE  SmartInv'
<1> DEFINE s == session[h]
<1>1. /\ FilesOK /\ SessionOK(h, s, memory, damaged)
      /\ RowOK(s) /\ s \in Row /\ Knows(h, s, memory, damaged)
      BY DEF SmartInv, SessionOK, RowOK
<1>2. Untouched /\ Finish(h) => SmartInv'
      BY QuietStep, IdleOK DEF Finish
<1>3. \A t : Untouched /\ Become(h, t) /\ SessionOK(h, t, memory, damaged) => SmartInv'
      BY QuietStep
<1> HIDE DEF s
<1>4. ASSUME NEW x \in Prompts, Submit(h, x) PROVE SmartInv'
  <2> DEFINE t == [Idle EXCEPT !.step = "matching", !.prompt = x, !.learn = Loaded.learn,
                               !.probe = Loaded.enabled /\ Loaded.memory]
  <2>1. Loaded.learn \in BOOLEAN /\ (Loaded.enabled /\ Loaded.memory) \in BOOLEAN
        BY <1>1, SettingsRead DEF SettingsRow
  <2>2. Idle \in Row
        BY IdleOK DEF SessionOK, RowOK
  <2>3. /\ t \in Row /\ t.step = "matching" /\ t.prompt = x /\ t.source = "learned" /\ ~t.aborted
        BY <2>1, <2>2 DEF Row, Steps, Idle
  <2> HIDE DEF t
  <2>4. SessionOK(h, t, memory', damaged')
        BY <2>3 DEF SessionOK, RowOK, ToldSafely, Knows
  <2>5. FilesOK' /\ Grows /\ Become(h, t)
        BY <1>1, <1>4 DEF Submit, Unmoved, memoryVars, FilesOK, Grows, t
  <2> QED BY <2>4, <2>5, OneSession
<1>5. ASSUME NEW step \in Steps, step \notin {"idle", "deciding", "learning", "learned"},
             step \in {"matching", "deciding", "triage", "asking"} => s.source = "learned",
             step = "backup" => s.action \in Actions /\ (s.source = "explicit" => s.action = "mission"),
             s.step # "idle",
             NEW routes \in Seq(Routes)
      PROVE  /\ SessionOK(h, [s EXCEPT !.step = step], memory, damaged)
             /\ SessionOK(h, [s EXCEPT !.step = step, !.routes = routes], memory, damaged)
  <2>1. ASSUME NEW t \in Row, t.step = step, t.prompt = s.prompt, t.source = s.source, t.action = s.action,
               t.aborted = s.aborted
        PROVE  SessionOK(h, t, memory, damaged)
        BY <1>1, <1>5, <2>1 DEF SessionOK, RowOK, ToldSafely, Knows
  <2> QED BY <1>1, <2>1 DEF Row
<1>6. <<>> \in Seq(Routes)
      OBVIOUS
<1>7. ASSUME Suggest(h), Untouched, s.step # "idle", s.source = "learned" PROVE SmartInv'
  <2>1. SessionOK(h, [s EXCEPT !.step = "asking", !.routes = <<>>], memory, damaged)
        BY <1>5, <1>6, <1>7 DEF Steps
  <2> QED BY <1>2, <1>3, <1>7, <2>1 DEF Suggest, s
<1>8. CASE MatchMemory(h)
  <2> DEFINE told == IF s.probe /\ memory.kind # "invalid" THEN Match(memory.rules, Signature(h)) ELSE NoMatch
             t == [s EXCEPT !.step = "deciding", !.match = told]
  <2>1. s.prompt \in Prompts /\ s.source = "learned" /\ s.step = "matching"
        BY <1>1, <1>8 DEF MatchMemory, At, RowOK, s
  <2>2. memory.rules \in Rules /\ Signature(h) \in Signatures /\ Signature(h) = Sig[s.prompt]
        BY <1>1, <2>1, SignatureKnown DEF FilesOK, Signature, s
  <2>3. /\ told \in [kind : {"none", "conflict", "strong"}, source : Sources \cup {"none"},
                     action : Actions \cup {"none"}]
        /\ told.action = "normal" => ~Risky(Sig[s.prompt])
        BY <2>2, MatchIsSafe DEF NoMatch
  <2> HIDE DEF told
  <2>4. /\ t \in Row /\ t.step = "deciding" /\ t.prompt = s.prompt /\ t.source = s.source
        /\ t.aborted = s.aborted /\ t.match = told
        BY <1>1, <2>3 DEF Row, Steps
  <2>5. Untouched /\ Become(h, t)
        BY <1>8 DEF MatchMemory, t, told, s
  <2> HIDE DEF t
  <2>6. SessionOK(h, t, memory, damaged)
        BY <1>1, <2>1, <2>3, <2>4 DEF SessionOK, RowOK, ToldSafely, Knows
  <2> QED BY <1>3, <2>5, <2>6
<1>9. CASE DecideRoute(h)
  <2>1. Untouched /\ s.step = "deciding" /\ s.source = "learned"
        BY <1>1, <1>9 DEF DecideRoute, At, RowOK, s
  <2>2. TriageRoutes(Loaded) \in Seq(Routes)
        BY <1>1, SettingsRead, TriageRoutesOK
  <2>3. SessionOK(h, [s EXCEPT !.step = "triage", !.routes = TriageRoutes(Loaded)], memory, damaged)
        BY <1>5, <2>1, <2>2 DEF Steps
  <2>4. SessionOK(h, [s EXCEPT !.step = "running"], memory, damaged)
        BY <1>5, <1>6, <2>1 DEF Steps
  <2>5. \/ Become(h, [s EXCEPT !.step = "triage", !.routes = TriageRoutes(Loaded)])
        \/ Finish(h) \/ Become(h, [s EXCEPT !.step = "running"]) \/ Suggest(h)
        BY <1>9 DEF DecideRoute, Goto, s
  <2> QED BY <1>2, <1>3, <1>7, <2>1, <2>3, <2>4, <2>5
<1>10. CASE TriageAnswers(h)
  <2>1. Untouched /\ s.step = "triage" /\ s.source = "learned" /\ s.routes \in Seq(Routes)
        BY <1>1, <1>10 DEF TriageAnswers, At, RowOK, Row, s
  <2>2. CASE Len(s.routes) = 2 /\ Become(h, [s EXCEPT !.routes = Tail(s.routes)])
    <3>1. Tail(s.routes) \in Seq(Routes)
      <4>1. s.routes # <<>>
            BY <2>2
      <4> QED BY <2>1, <4>1, HeadTailProperties
    <3>2. [s EXCEPT !.routes = Tail(s.routes)] = [s EXCEPT !.step = "triage", !.routes = Tail(s.routes)]
          BY <1>1, <2>1 DEF Row
    <3>3. SessionOK(h, [s EXCEPT !.step = "triage", !.routes = Tail(s.routes)], memory, damaged)
          BY <1>5, <2>1, <3>1 DEF Steps
    <3> QED BY <1>3, <2>1, <2>2, <3>2, <3>3
  <2> QED BY <1>2, <1>7, <1>10, <2>1, <2>2 DEF TriageAnswers, s
<1>11. CASE Answer(h)
  <2>1. s.step = "asking" /\ s.source = "learned" /\ s.prompt \in Prompts
        BY <1>1, <1>11 DEF Answer, At, RowOK, s
  <2>2. FilesOK' /\ Grows /\ memory' = memory /\ damaged' = damaged
        BY <1>1, <1>11 DEF Answer, memoryVars, FilesOK, Grows
  <2>3. \A t : Become(h, t) /\ SessionOK(h, t, memory, damaged) => SmartInv'
        BY <2>2, OneSession
  <2>4. ASSUME NEW source \in Sources, NEW t,
               t = [s EXCEPT !.step = "running", !.source = source, !.action = "mission"]
        PROVE  SessionOK(h, t, memory, damaged)
    <3>1. t \in Row /\ t.step = "running" /\ t.prompt = s.prompt /\ t.aborted = s.aborted
          BY <1>1, <2>4 DEF Row, Steps, Sources, Actions
    <3> QED BY <1>1, <2>1, <3>1 DEF SessionOK, RowOK, ToldSafely, Knows
  <2>5. ASSUME NEW t, t = [s EXCEPT !.step = "backup", !.action = "normal"]
        PROVE  SessionOK(h, t, memory, damaged)
    <3>1. t \in Row /\ t.step = "backup" /\ t.prompt = s.prompt /\ t.aborted = s.aborted
          /\ t.source = s.source /\ t.action = "normal"
          BY <1>1, <2>5 DEF Row, Steps, Sources, Actions
    <3> QED BY <1>1, <2>1, <3>1 DEF SessionOK, RowOK, ToldSafely, Knows, Actions
  <2>6. \/ Finish(h)
        \/ \E source \in Sources : Become(h, [s EXCEPT !.step = "running", !.source = source, !.action = "mission"])
        \/ Become(h, [s EXCEPT !.step = "backup", !.action = "normal"])
        BY <1>11 DEF Answer, s
  <2> QED BY <2>3, <2>4, <2>5, <2>6, IdleOK DEF Finish
<1>12. CASE MissionRuns(h)
  <2>1. Untouched /\ s.step = "running"
        BY <1>12 DEF MissionRuns, At, s
  <2>2. CASE s.action = "mission" /\ Become(h, [s EXCEPT !.step = "backup"])
    <3>1. SessionOK(h, [s EXCEPT !.step = "backup"], memory, damaged)
          BY <1>5, <1>6, <2>1, <2>2 DEF Steps, Actions
    <3> QED BY <1>3, <2>1, <2>2, <3>1
  <2> QED BY <1>2, <1>12, <2>1, <2>2 DEF MissionRuns, Goto, s
<1>13. CASE Backup(h)
  <2> DEFINE snap == IF h \in Cancellable THEN [gen |-> memory.gen, rules |-> memory.rules] ELSE NoFile
             t == [s EXCEPT !.step = "learning", !.snap = snap]
  <2>1. Untouched /\ s.step = "backup"
        BY <1>13 DEF Backup, At, s
  <2>2. snap \in [gen : Nat, rules : Rules]
        BY <1>1 DEF FilesOK, NoFile, Rules
  <2>3. h \in Cancellable => snap.gen = memory.gen /\ snap.rules = memory.rules
        OBVIOUS
  <2> HIDE DEF snap
  <2>4. /\ t \in Row /\ t.step = "learning" /\ t.prompt = s.prompt /\ t.aborted = s.aborted
        /\ t.source = s.source /\ t.action = s.action /\ t.snap = snap
        BY <1>1, <2>2 DEF Row, Steps
  <2> HIDE DEF t
  <2>5. SessionOK(h, t, memory, damaged)
        BY <1>1, <2>1, <2>2, <2>3, <2>4 DEF SessionOK, RowOK, ToldSafely, Knows, SinceThen
  <2>6. Finish(h) \/ Become(h, t)
        BY <1>13 DEF Backup, t, snap, s
  <2> QED BY <1>2, <1>3, <2>1, <2>5, <2>6
<1>14. CASE Close(h)
  <2>1. SessionOK(h, [s EXCEPT !.step = "closing"], memory, damaged)
        BY <1>5, <1>6, <1>14 DEF Close, At, Steps, s
  <2> QED BY <1>3, <1>14, <2>1 DEF Close, Goto, s
<1>15. CASE Abort(h)
  <2> DEFINE t == [s EXCEPT !.aborted = TRUE]
  <2>1. /\ t \in Row /\ t.step = s.step /\ t.prompt = s.prompt /\ t.source = s.source /\ t.action = s.action
        /\ t.match = s.match /\ t.snap = s.snap /\ t.wrote = s.wrote /\ t.left = s.left /\ t.fresh = s.fresh
        BY <1>1 DEF Row
  <2>2. Untouched /\ Become(h, t) /\ h \in Cancellable
        BY <1>15 DEF Abort, s
  <2> HIDE DEF t
  <2>3. SessionOK(h, t, memory, damaged)
        BY <1>1, <2>1, <2>2 DEF SessionOK, RowOK, ToldSafely, Knows
  <2> QED BY <1>3, <2>2, <2>3
<1>16. CASE Crash(h)
      BY <1>2, <1>16 DEF Crash
<1> QED BY <1>4, <1>8, <1>9, <1>10, <1>11, <1>12, <1>13, <1>14, <1>15, <1>16

\* A choice is learned, kept or undone.
LEMMA ChoiceKeeps ==
    ASSUME SmartInv, NEW h \in Hosts, Learn(h) \/ Rollback(h) \/ Closed(h)
    PROVE  SmartInv'
<1> DEFINE s == session[h]
<1>1. /\ FilesOK /\ RowOK(s) /\ s \in Row /\ Knows(h, s, memory, damaged)
      BY DEF SmartInv, SessionOK, RowOK
<1>2. /\ UNCHANGED <<settings, damaged>>
      BY DEF Learn, Rollback, Closed, Unmoved
<1>3. ASSUME /\ memory' \in [kind : {"missing", "valid", "invalid"}, gen : Nat, rules : Rules]
             /\ issued' \in Nat
             /\ memory' = memory \/ memory'.gen = memory.gen + 1
      PROVE  FilesOK' /\ Grows
      BY <1>1, <1>2, <1>3 DEF FilesOK, Grows
<1>4. UNCHANGED memoryVars => FilesOK' /\ Grows
      BY <1>1, <1>3 DEF memoryVars, FilesOK
<1>5. FilesOK' /\ Grows /\ Finish(h) => SmartInv'
      BY OneSession, IdleOK DEF Finish
<1> HIDE DEF s
<1>6. CASE Learn(h)
  <2>1. /\ s.step = "learning" /\ Signature(h) \in Signatures
        /\ s.source \in Sources /\ s.action \in Actions /\ (s.source = "explicit" => s.action = "mission")
        BY <1>1, <1>6, SignatureKnown DEF Learn, At, RowOK, Row, Signature, s
  <2>2. ASSUME NEW made \in Int, Learned(h, made),
               \/ Merge(Signature(h), s.source, s.action)
               \/ Create(Signature(h), s.source, s.action)
        PROVE  SmartInv'
    <3> DEFINE same == s.snap.rules = memory.rules
               t == [s EXCEPT !.step = "learned", !.wrote = memory.gen + 1, !.made = made,
                       !.fresh = same, !.left = memory'.rules]
    <3>1. /\ memory' \in [kind : {"missing", "valid", "invalid"}, gen : Nat, rules : Rules]
          /\ issued' \in Nat
          /\ memory'.gen = memory.gen + 1
          BY <1>1, <2>1, <2>2, LearningKeeps
    <3>2. FilesOK' /\ Grows
          BY <1>3, <3>1
    <3>3. memory.gen \in Nat /\ memory'.rules \in Rules
          BY <1>1, <3>1 DEF FilesOK
    <3>4. same \in BOOLEAN /\ "learned" \in Steps /\ memory.gen + 1 \in Nat
          BY <3>3 DEF Steps
    <3> HIDE DEF same
    <3>5. /\ t \in Row /\ t.step = "learned" /\ t.prompt = s.prompt /\ t.aborted = s.aborted
          /\ t.snap = s.snap /\ t.wrote = memory.gen + 1 /\ t.left = memory'.rules
          /\ t.fresh = same
          BY <1>1, <2>2, <3>3, <3>4 DEF Row
    <3>6. Become(h, t)
          BY <2>2 DEF Learned, same, s
    <3> HIDE DEF t
    <3>7. s.snap.gen \in Nat
          BY <1>1 DEF Row
    <3>8. RowOK(t) /\ ToldSafely(t)
          BY <1>1, <2>1, <3>5 DEF RowOK, ToldSafely
    <3>9. SinceThen(t.wrote, t.left, memory', damaged')
          BY <3>1, <3>3, <3>5 DEF SinceThen
    <3>10. h \in Cancellable /\ ~damaged /\ t.wrote = t.snap.gen + 1 => same
          BY <1>1, <2>1, <3>3, <3>5, <3>7 DEF Knows, SinceThen, same
    <3>11. Knows(h, t, memory', damaged')
          BY <1>1, <1>2, <3>5, <3>9, <3>10 DEF Knows
    <3> QED BY <3>2, <3>6, <3>8, <3>11, OneSession DEF SessionOK
  <2>3. issued \in Int /\ -1 \in Int
        BY <1>1 DEF FilesOK
  <2> QED BY <1>4, <1>5, <1>6, <2>2, <2>3 DEF Learn, s
<1>7. CASE Rollback(h)
  <2>1. s.snap.rules \in Rules /\ s.wrote \in Nat
        BY <1>1 DEF Row
  <2>2. RestoreAt(s.snap.rules, s.wrote) => FilesOK' /\ Grows
        BY <1>1, <1>3, <2>1, EditsKeep
  <2> QED BY <1>4, <1>5, <1>7, <2>2 DEF Rollback, s
<1>8. CASE Closed(h)
  <2>1. s.made \in Int
        BY <1>1 DEF Row
  <2>2. DeleteRule(s.made) => FilesOK' /\ Grows
        BY <1>1, <1>3, <2>1, EditsKeep
  <2> QED BY <1>4, <1>5, <1>8, <2>2 DEF Closed, s
<1> QED BY <1>6, <1>7, <1>8

\* What users and the environment do besides.
LEMMA WorldKeeps ==
    ASSUME SmartInv, ChangeSettings \/ DamageSettings \/ ChangeRules \/ DamageRules
    PROVE  SmartInv'
<1>1. FilesOK /\ UNCHANGED session
      BY DEF SmartInv, ChangeSettings, DamageSettings, ChangeRules, DamageRules, Move
<1>2. ASSUME FilesOK', Grows PROVE SmartInv'
  <2>1. \A k \in Hosts : SessionOK(k, session[k], memory', damaged')
        BY <1>1, <1>2, OthersKnow DEF SmartInv
  <2> QED BY <1>1, <1>2, <2>1 DEF SmartInv
<1>3. CASE ChangeSettings
  <2>1. Draft \in SettingsRow
        BY <1>1, SettingsRead
  <2>2. ASSUME NEW value \in SettingsRow, UpdateSettings(value), UNCHANGED <<memoryVars, damaged>>
        PROVE  SmartInv'
        BY <1>1, <1>2, <2>2 DEF UpdateSettings, memoryVars, FilesOK, Grows
  <2>3. ASSUME NEW switch \in Switches, NEW on \in BOOLEAN
        PROVE  [Draft EXCEPT ![switch] = on] \in SettingsRow
    <3>1. CASE switch = "enabled" BY <2>1, <3>1 DEF SettingsRow
    <3>2. CASE switch = "memory" BY <2>1, <3>2 DEF SettingsRow
    <3>3. CASE switch = "learn" BY <2>1, <3>3 DEF SettingsRow
    <3>4. CASE switch = "triage" BY <2>1, <3>4 DEF SettingsRow
    <3> QED BY <3>1, <3>2, <3>3, <3>4 DEF Switches
  <2>4. \A r \in Routes : [Draft EXCEPT !.primary = r, !.triage = TRUE] \in SettingsRow
        BY <2>1 DEF SettingsRow
  <2>5. [Draft EXCEPT !.primary = "none", !.triage = FALSE] \in SettingsRow
        BY <2>1 DEF SettingsRow
  <2>6. \A r \in Routes \cup {"none"} : [Draft EXCEPT !.fallback = r] \in SettingsRow
        BY <2>1 DEF SettingsRow
  <2> QED BY <1>3, <2>2, <2>3, <2>4, <2>5, <2>6 DEF ChangeSettings
<1>4. CASE DamageSettings
  <2>1. Defaults \in SettingsRow
        BY DEF Defaults, SettingsRow
  <2> QED BY <1>1, <1>2, <1>4, <2>1 DEF DamageSettings, memoryVars, FilesOK, Grows
<1>5. CASE ChangeRules
  <2>1. issued \in Nat /\ UNCHANGED <<settings, damaged>>
        BY <1>1, <1>5 DEF ChangeRules, FilesOK
  <2>2. \A id \in 0 .. issued : id \in Int
        BY <2>1
  <2>3. /\ memory' \in [kind : {"missing", "valid", "invalid"}, gen : Nat, rules : Rules]
        /\ issued' \in Nat
        /\ memory' = memory \/ memory'.gen = memory.gen + 1
        BY <1>1, <1>5, <2>2, EditsKeep DEF ChangeRules
  <2> QED BY <1>1, <1>2, <2>1, <2>3 DEF FilesOK, Grows
<1>6. CASE DamageRules
      BY <1>1, <1>2, <1>6, DamageKeeps DEF DamageRules, FilesOK, Grows
<1> QED BY <1>3, <1>4, <1>5, <1>6

-------------------------------------------------------------------------------
(* The theorems                                                            *)

LEMMA SmartInit == ASSUME Init PROVE SmartInv
<1>1. FilesOK
  <2>1. /\ settings \in [kind : {"missing", "valid", "corrupt"}, value : SettingsRow]
        /\ damaged \in BOOLEAN
    <3>1. Defaults \in SettingsRow
          BY DEF Defaults, SettingsRow
    <3>2. PICK kind \in {"missing", "valid"} : settings = [kind |-> kind, value |-> Defaults]
          BY DEF Init
    <3>3. damaged \in BOOLEAN
          BY DEF Init
    <3> QED BY <3>1, <3>2, <3>3
  <2>2. CASE memory = MissingMemory /\ issued = 0
        BY <2>1, <2>2 DEF FilesOK, MissingMemory, Rules
  <2>3. ASSUME NEW past \in Pasts,
               memory = SavedMemory(past.times, {[NewRule(0, Sig[past.prompt], "learned", past.action)
                                                     EXCEPT !.seen = past.times]}),
               issued = 1
        PROVE  FilesOK
    <3> DEFINE rule == [NewRule(0, Sig[past.prompt], "learned", past.action) EXCEPT !.seen = past.times]
    <3>1. past.prompt \in Prompts /\ past.action \in Actions /\ past.times \in 1 .. MaxSeen
          BY SmartRoutingAssumption
    <3>2. Sig[past.prompt] \in Signatures
          BY <3>1, SignatureKnown
    <3>3. rule \in Rule /\ rule.source = "learned"
          BY <3>1, <3>2, NewIsRule DEF Rule, Sources, NewRule
    <3> HIDE DEF rule
    <3>4. {rule} \in Rules /\ past.times \in Nat
          BY <3>1, <3>3, RoutingMemoryAssumption DEF Rules
    <3>5. memory = SavedMemory(past.times, {rule})
          BY <2>3 DEF rule
    <3> QED BY <2>1, <2>3, <3>4, <3>5 DEF FilesOK, SavedMemory
  <2> QED BY <2>2, <2>3 DEF Init
<1> QED BY <1>1, IdleOK DEF Init, SmartInv

LEMMA SmartStep == ASSUME SmartInv, [Next]_vars PROVE SmartInv'
<1>1. CASE UNCHANGED vars
  <2>1. FilesOK' /\ Grows /\ UNCHANGED <<session, memory, damaged>>
        BY <1>1 DEF vars, memoryVars, SmartInv, FilesOK, Grows
  <2> QED BY <2>1 DEF SmartInv
<1> QED BY <1>1, PromptKeeps, ChoiceKeeps, WorldKeeps DEF Next, HostStep

\* The files, the sessions and what the sessions know stay right, whatever hosts, users and damage do.
THEOREM SmartCorrect == Spec => []SmartInv
BY SmartInit, SmartStep, PTL DEF Spec

\* Memory never lets a sensitive or destructive prompt through: the rules that say "run normally" are
\* learned ones, and one that matches vouches that the prompt is not risky (match, decide).
THEOREM RiskIsAsked == Spec => []RiskStaysAsked
<1>1. SmartInv => RiskStaysAsked
      BY DEF SmartInv, SessionOK, ToldSafely, RiskStaysAsked, Remembered, NoMatch, At, Signature
<1> QED BY <1>1, SmartCorrect, PTL

\* The rollback of a cancelled prompt overwrites only the file that prompt left, and puts back the rules
\* that were there when it chose, unless the file was spoilt: a write by another host between its backup
\* and its choice, or after it, shows in the generation (prepareRoutingMemoryRollback).
THEOREM RollbackTakesBackItsOwn == Spec => RollbackIsAlone
<1>1. SmartInv /\ [Next]_vars =>
          [\A h \in Hosts : Rollback(h) /\ memory' # memory /\ ~damaged =>
              session[h].fresh /\ memory.rules = session[h].left]_vars
  <2> SUFFICES ASSUME SmartInv, NEW h \in Hosts, Rollback(h), memory' # memory, ~damaged
               PROVE  session[h].fresh /\ memory.rules = session[h].left
      OBVIOUS
  <2>1. RowOK(session[h]) /\ Knows(h, session[h], memory, damaged)
        BY DEF SmartInv, SessionOK
  <2>2. session[h].step = "learned" /\ session[h].aborted
        BY DEF Rollback, At, Aborted
  <2>3. Undoable(session[h]) /\ memory.gen = session[h].wrote
        BY DEF Rollback, RestoreAt, memoryVars
  <2> QED BY <2>1, <2>2, <2>3 DEF Knows, SinceThen, Undoable, RowOK, Row
<1> QED BY <1>1, SmartCorrect, PTL DEF Spec, RollbackIsAlone

-------------------------------------------------------------------------------
(* Every observation of a learned rule is a choice                         *)

Made(C, sig, a) == UNION {{x} \X (1 .. C[x][a]) : x \in Like(sig)}

\* A session that will learn from a choice already made for a prompt like one with this signature.
Owes(s, sig, a) ==
    /\ s.step \in {"running", "backup", "learning"} /\ s.source = "learned" /\ s.action = a
    /\ s.prompt \in Like(sig)
Owing(S, sig, a) == {h \in Hosts : Owes(S[h], sig, a)}

\* There were n choices besides those that are yet to be learned from.
Covered(n, S, C, sig, a) == n + Cardinality(Owing(S, sig, a)) <= Cardinality(Made(C, sig, a))
RulesCovered(rules, S, C) ==
    \A r \in rules : r.source = "learned" => Covered(r.seen, S, C, r.sig, r.action)

\* What a learned preference told a session was chosen three times.
ToldOften(s, C) ==
    s.match.source = "learned" =>
        /\ s.match.action \in Actions
        /\ \E y \in Prompts : /\ Alike[Sig[s.prompt], Sig[y]] >= MatchThreshold("learned")
                              /\ Cardinality(Made(C, Sig[y], s.match.action)) >= 3
Undecided(s) == s.step \in {"matching", "deciding", "triage", "asking"} => s.action = "none"

\* The inductive invariant: the rules of the file, and those a rollback may put back, were all observed.
EvidenceInv ==
    /\ chosen \in [Prompts -> [Actions -> Nat]]
    /\ \A sig \in Signatures, a \in Actions :
          IsFiniteSet(Made(chosen, sig, a)) /\ Covered(0, session, chosen, sig, a)
    /\ RulesCovered(memory.rules, session, chosen)
    /\ \A h \in Hosts : /\ RulesCovered(session[h].snap.rules, session, chosen)
                        /\ ToldOften(session[h], chosen) /\ Undecided(session[h])

LEMMA RuleFields ==
    ASSUME NEW rules \in Rules, NEW r \in rules
    PROVE  /\ r.sig \in Signatures /\ r.action \in Actions /\ r.seen \in Nat /\ r.source \in Sources
           /\ r \in Rule
BY RoutingMemoryAssumption DEF Rules, Rule

LEMMA OwingFinite == ASSUME NEW S, NEW sig, NEW a
                     PROVE  IsFiniteSet(Owing(S, sig, a)) /\ Cardinality(Owing(S, sig, a)) \in Nat
<1>1. Owing(S, sig, a) \in SUBSET Hosts
      BY DEF Owing
<1> QED BY <1>1, SmartRoutingAssumption, FS_Subset, FS_CardinalityType

\* Where no session owes more, none is owed more; where one has paid, one less.
LEMMA OwedLess ==
    ASSUME NEW S, NEW T, NEW sig, NEW a, \A k \in Hosts : Owes(T[k], sig, a) => Owes(S[k], sig, a)
    PROVE  /\ Cardinality(Owing(T, sig, a)) <= Cardinality(Owing(S, sig, a))
           /\ \A h \in Hosts : Owes(S[h], sig, a) /\ ~Owes(T[h], sig, a) =>
                 Cardinality(Owing(T, sig, a)) <= Cardinality(Owing(S, sig, a)) - 1
<1> DEFINE P == Owing(S, sig, a)
           Q == Owing(T, sig, a)
<1>1. Q \in SUBSET P /\ IsFiniteSet(P)
      BY OwingFinite DEF Owing
<1>2. ASSUME NEW h \in Hosts, Owes(S[h], sig, a), ~Owes(T[h], sig, a)
      PROVE  Cardinality(Q) <= Cardinality(P) - 1
  <2>1. h \in P /\ Q \in SUBSET (P \ {h})
        BY <1>1, <1>2 DEF Owing
  <2> HIDE DEF P, Q
  <2>2. IsFiniteSet(P \ {h}) /\ Cardinality(P \ {h}) = Cardinality(P) - 1
        BY <1>1, <2>1, FS_RemoveElement
  <2> QED BY <2>1, <2>2, FS_Subset
<1> HIDE DEF P, Q
<1>3. Cardinality(Q) <= Cardinality(P)
      BY <1>1, FS_Subset
<1> QED BY <1>2, <1>3 DEF P, Q

LEMMA OwedMore ==
    ASSUME NEW S, NEW T, NEW sig, NEW a, NEW h, \A k \in Hosts \ {h} : Owes(T[k], sig, a) => Owes(S[k], sig, a)
    PROVE  Cardinality(Owing(T, sig, a)) <= Cardinality(Owing(S, sig, a)) + 1
<1> DEFINE P == Owing(S, sig, a)
           Q == Owing(T, sig, a)
<1>1. Q \in SUBSET (P \cup {h}) /\ IsFiniteSet(P) /\ Cardinality(P) \in Nat
      BY OwingFinite DEF Owing
<1>2. IsFiniteSet(Q) /\ Cardinality(Q) \in Nat
      BY OwingFinite
<1> HIDE DEF P, Q
<1>3. IsFiniteSet(P \cup {h}) /\ Cardinality(P \cup {h}) \in {Cardinality(P), Cardinality(P) + 1}
      BY <1>1, FS_AddElement
<1>4. Cardinality(Q) <= Cardinality(P \cup {h})
      BY <1>1, <1>3, FS_Subset
<1> QED BY <1>1, <1>2, <1>3, <1>4 DEF P, Q

ChosenOnce(C, x, b) == [C EXCEPT ![x][b] = @ + 1]

\* A choice adds one to the choices for every prompt it is like, and takes none away.
LEMMA MadeMore ==
    ASSUME NEW C \in [Prompts -> [Actions -> Nat]], NEW x \in Prompts, NEW b \in Actions,
           NEW D, D = ChosenOnce(C, x, b),
           NEW sig, NEW a \in Actions, IsFiniteSet(Made(C, sig, a))
    PROVE  /\ D \in [Prompts -> [Actions -> Nat]]
           /\ IsFiniteSet(Made(D, sig, a))
           /\ Cardinality(Made(D, sig, a)) >= Cardinality(Made(C, sig, a))
           /\ a = b /\ x \in Like(sig) => Cardinality(Made(D, sig, a)) = Cardinality(Made(C, sig, a)) + 1
<1> DEFINE n == C[x][b]
<1>0. n \in Nat
      OBVIOUS
<1>1. D \in [Prompts -> [Actions -> Nat]]
      BY DEF ChosenOnce
<1>2. \A y \in Prompts : D[y][a] = IF y = x /\ a = b THEN n + 1 ELSE C[y][a]
      BY DEF ChosenOnce
<1> HIDE DEF n
<1>3. Like(sig) \subseteq Prompts
      BY DEF Like
<1>4. 1 .. (n + 1) = 1 .. n \cup {n + 1}
      BY <1>0
<1>5. CASE a = b /\ x \in Like(sig)
  <2>1. Made(D, sig, a) = Made(C, sig, a) \cup {<<x, n + 1>>}
    <3>1. \A y \in Like(sig) : {y} \X (1 .. D[y][a]) =
              IF y = x THEN ({y} \X (1 .. C[y][a])) \cup {<<x, n + 1>>} ELSE {y} \X (1 .. C[y][a])
          BY <1>2, <1>3, <1>4, <1>5 DEF n
    <3> QED BY <1>5, <3>1 DEF Made
  <2>2. <<x, n + 1>> \notin Made(C, sig, a)
    <3>1. \A y : <<x, n + 1>> \in {y} \X (1 .. C[y][a]) => y = x /\ n + 1 \in 1 .. n
          BY <1>5 DEF n
    <3>2. n + 1 \notin 1 .. n
          BY <1>0
    <3> QED BY <3>1, <3>2 DEF Made
  <2>3. Cardinality(Made(C, sig, a)) \in Nat
        BY FS_CardinalityType
  <2>4. /\ IsFiniteSet(Made(D, sig, a))
        /\ Cardinality(Made(D, sig, a)) = Cardinality(Made(C, sig, a)) + 1
    <3> DEFINE made == Made(C, sig, a)
    <3>1. IsFiniteSet(made) /\ <<x, n + 1>> \notin made
          BY <2>2
    <3> HIDE DEF made
    <3>2. IsFiniteSet(made \cup {<<x, n + 1>>}) /\ Cardinality(made \cup {<<x, n + 1>>}) = Cardinality(made) + 1
          BY <3>1, FS_AddElement
    <3> QED BY <2>1, <3>2 DEF made
  <2>5. Cardinality(Made(D, sig, a)) >= Cardinality(Made(C, sig, a))
        BY <2>3, <2>4
  <2> QED BY <1>1, <2>4, <2>5
<1>6. CASE ~(a = b /\ x \in Like(sig))
  <2>1. Made(D, sig, a) = Made(C, sig, a)
    <3>1. \A y \in Like(sig) : D[y][a] = C[y][a]
          BY <1>2, <1>3, <1>6
    <3> QED BY <3>1 DEF Made
  <2>2. Cardinality(Made(C, sig, a)) \in Nat
        BY FS_CardinalityType
  <2> QED BY <1>1, <1>6, <2>1, <2>2
<1> QED BY <1>5, <1>6

\* The rules that may be in the file after a step which learns nothing: those it had, and those that a
\* session has backed up, switched on or off.
Stems(r) ==
    \E q \in memory.rules \cup UNION {session[h].snap.rules : h \in Hosts} :
        q.source = r.source /\ q.sig = r.sig /\ q.action = r.action /\ q.seen = r.seen

LEMMA StemsCovered ==
    ASSUME SmartInv, EvidenceInv, NEW r, Stems(r), r.source = "learned"
    PROVE  Covered(r.seen, session, chosen, r.sig, r.action)
BY DEF Stems, EvidenceInv, RulesCovered

\* A step that makes no choice, after which no session owes more.
LEMMA EvidenceCarried ==
    ASSUME SmartInv, SmartInv', EvidenceInv, UNCHANGED chosen,
           \A h \in Hosts : \A sig \in Signatures, a \in Actions :
               Owes(session'[h], sig, a) => Owes(session[h], sig, a),
           \A r \in memory'.rules : r.source = "learned" =>
               Stems(r) \/ Covered(r.seen, session', chosen', r.sig, r.action),
           \A h \in Hosts : /\ session'[h].snap.rules \in Rules
                            /\ \A r \in session'[h].snap.rules : Stems(r)
                            /\ ToldOften(session'[h], chosen') /\ Undecided(session'[h])
    PROVE  EvidenceInv'
<1>1. memory'.rules \in Rules
      BY DEF SmartInv, FilesOK
<1>2. ASSUME NEW n \in Nat, NEW sig \in Signatures, NEW a \in Actions, Covered(n, session, chosen, sig, a)
      PROVE  Covered(n, session', chosen', sig, a)
  <2>1. Cardinality(Owing(session', sig, a)) <= Cardinality(Owing(session, sig, a))
        BY OwedLess
  <2>2. IsFiniteSet(Made(chosen, sig, a))
        BY DEF EvidenceInv
  <2>3. /\ Cardinality(Owing(session', sig, a)) \in Nat /\ Cardinality(Owing(session, sig, a)) \in Nat
        /\ Cardinality(Made(chosen, sig, a)) \in Nat
        BY <2>2, OwingFinite, FS_CardinalityType
  <2> QED BY <1>2, <2>1, <2>3 DEF Covered
<1>3. ASSUME NEW rules \in Rules, NEW r \in rules, r.source = "learned", Stems(r)
      PROVE  Covered(r.seen, session', chosen', r.sig, r.action)
  <2>1. Covered(r.seen, session, chosen, r.sig, r.action)
        BY <1>3, StemsCovered
  <2> QED BY <1>2, <1>3, <2>1, RuleFields
<1>4. RulesCovered(memory'.rules, session', chosen')
      BY <1>1, <1>3 DEF RulesCovered
<1>5. \A h \in Hosts : RulesCovered(session'[h].snap.rules, session', chosen')
      BY <1>3 DEF RulesCovered
<1>6. \A sig \in Signatures, a \in Actions :
         IsFiniteSet(Made(chosen', sig, a)) /\ Covered(0, session', chosen', sig, a)
      BY <1>2 DEF EvidenceInv
<1> QED BY <1>4, <1>5, <1>6 DEF EvidenceInv

\* The step of one session that makes no choice, and leaves only such rules in the file.
RulesStem ==
    \A r \in memory'.rules : r.source = "learned" =>
        Stems(r) \/ Covered(r.seen, session', chosen', r.sig, r.action)

LEMMA SessionCarried ==
    ASSUME SmartInv, SmartInv', EvidenceInv, UNCHANGED chosen, RulesStem, NEW h \in Hosts, NEW t, Become(h, t),
           \A sig \in Signatures, a \in Actions : Owes(t, sig, a) => Owes(session[h], sig, a),
           \A r \in t.snap.rules : Stems(r), ToldOften(t, chosen), Undecided(t)
    PROVE  EvidenceInv'
<1>1. session' = [k \in Hosts |-> IF k = h THEN t ELSE session[k]]
      BY DEF SmartInv, Become
<1>2. \A k \in Hosts : session'[k] = IF k = h THEN t ELSE session[k]
      BY <1>1
<1>3. \A k \in Hosts : session'[k].snap.rules \in Rules
      BY DEF SmartInv, SessionOK, RowOK, Row
<1>4. \A k \in Hosts : \A sig \in Signatures, a \in Actions : Owes(session'[k], sig, a) => Owes(session[k], sig, a)
      BY <1>2
<1>5. ASSUME NEW k \in Hosts
      PROVE  /\ \A r \in session'[k].snap.rules : Stems(r)
             /\ ToldOften(session'[k], chosen') /\ Undecided(session'[k])
  <2>1. CASE k = h
        BY <1>2, <2>1
  <2>2. CASE k # h
    <3>1. session'[k] = session[k]
          BY <1>2, <2>2
    <3> QED BY <3>1 DEF EvidenceInv, Stems
  <2> QED BY <2>1, <2>2
<1> QED BY <1>3, <1>4, <1>5, EvidenceCarried DEF RulesStem

\* A session that starts afresh, or goes on with what it was told and backed up.
Learning == {"running", "backup", "learning"}
Lesser(s, t) ==
    \/ t.match = NoMatch /\ t.snap = NoFile /\ t.step \notin Learning
    \/ /\ t.prompt = s.prompt /\ t.match = s.match /\ t.snap = s.snap
       /\ t.step \in Learning /\ t.source = "learned" /\ t.action \in Actions =>
             s.step \in Learning /\ s.source = "learned" /\ s.action = t.action

LEMMA LesserCarried ==
    ASSUME SmartInv, SmartInv', EvidenceInv, UNCHANGED chosen, RulesStem, NEW h \in Hosts, NEW t, Become(h, t),
           Lesser(session[h], t), Undecided(t)
    PROVE  EvidenceInv'
<1>1. \A sig \in Signatures, a \in Actions : Owes(t, sig, a) => Owes(session[h], sig, a)
      BY DEF Owes, Lesser, Learning
<1>2. t.snap.rules \in {{}, session[h].snap.rules}
      BY DEF Lesser, NoFile
<1>3. \A r \in t.snap.rules : Stems(r)
      BY <1>2 DEF Stems
<1>4. ToldOften(session[h], chosen) => ToldOften(t, chosen)
  <2>1. CASE t.match = NoMatch
    <3>1. t.match.source # "learned"
          BY <2>1 DEF NoMatch
    <3> QED BY <3>1 DEF ToldOften
  <2>2. CASE t.prompt = session[h].prompt /\ t.match = session[h].match
        BY <2>2 DEF ToldOften
  <2> QED BY <2>1, <2>2 DEF Lesser
<1> QED BY <1>1, <1>3, <1>4, SessionCarried DEF EvidenceInv

LEMMA SameStem == ASSUME SmartInv, memory'.rules \subseteq memory.rules PROVE RulesStem
BY DEF RulesStem, Stems

LEMMA IdleIs == Idle.match = NoMatch /\ Idle.snap = NoFile /\ Idle.step = "idle" /\ Idle.action = "none"
BY DEF Idle

LEMMA FinishCarried ==
    ASSUME SmartInv, SmartInv', EvidenceInv, UNCHANGED chosen, RulesStem, NEW h \in Hosts, Finish(h)
    PROVE  EvidenceInv'
<1>1. Lesser(session[h], Idle) /\ Undecided(Idle)
      BY IdleIs DEF Lesser, Undecided, Learning
<1> QED BY <1>1, LesserCarried DEF Finish

-------------------------------------------------------------------------------
(* One step, and what is learned of a choice                               *)

\* A learned preference is that of a rule observed three times, for a prompt like this one.
LEMMA MatchIsBacked ==
    ASSUME NEW rules \in Rules, NEW sig \in Signatures, Match(rules, sig).source = "learned"
    PROVE  \E r \in rules : /\ r.source = "learned" /\ r.action = Match(rules, sig).action /\ r.seen >= 3
                            /\ Alike[sig, r.sig] >= MatchThreshold("learned")
<1> DEFINE strong == {r \in rules : Strong(sig, r)}
           explicit == OfSource(strong, "explicit")
           effective == IF explicit # {} THEN explicit ELSE strong
           actions == {r.action : r \in effective}
<1>1. Match(rules, sig) =
          CASE actions = {} -> NoMatch
            [] Cardinality(actions) = 2 -> [NoMatch EXCEPT !.kind = "conflict"]
            [] OTHER -> [kind |-> "strong", action |-> CHOOSE a \in actions : TRUE,
                         source |-> IF explicit # {} THEN "explicit" ELSE "learned"]
      BY DEF Match
<1> HIDE DEF actions
<1>2. actions # {} /\ explicit = {} /\ Match(rules, sig).action = (CHOOSE a \in actions : TRUE)
      BY <1>1 DEF NoMatch
<1>3. Match(rules, sig).action \in actions
      BY <1>2
<1>4. PICK r \in strong : r.action = Match(rules, sig).action
      BY <1>2, <1>3 DEF actions
<1>5. r \in rules /\ Strong(sig, r) /\ r.source \in Sources
      BY RuleFields
<1>6. r.source = "learned"
      BY <1>2, <1>5 DEF OfSource, Sources
<1> QED BY <1>4, <1>5, <1>6 DEF Strong, Near, Established

LEMMA CoveredIsMade ==
    ASSUME EvidenceInv, NEW r \in memory.rules, memory.rules \in Rules, r.source = "learned", r.seen >= 3
    PROVE  Cardinality(Made(chosen, r.sig, r.action)) >= 3
<1>1. Covered(r.seen, session, chosen, r.sig, r.action)
      BY DEF EvidenceInv, RulesCovered
<1>2. r.sig \in Signatures /\ r.action \in Actions /\ r.seen \in Nat
      BY RuleFields
<1>3. IsFiniteSet(Made(chosen, r.sig, r.action))
      BY <1>2 DEF EvidenceInv
<1>4. Cardinality(Made(chosen, r.sig, r.action)) \in Nat /\ Cardinality(Owing(session, r.sig, r.action)) \in Nat
      BY <1>3, FS_CardinalityType, OwingFinite
<1> QED BY <1>1, <1>2, <1>4 DEF Covered

\* What memory tells a session.
LEMMA MatchEvidence ==
    ASSUME SmartInv, SmartInv', EvidenceInv, NEW h \in Hosts, MatchMemory(h)
    PROVE  EvidenceInv'
<1> DEFINE s == session[h]
           match == IF s.probe /\ memory.kind # "invalid" THEN Match(memory.rules, Signature(h)) ELSE NoMatch
           t == [s EXCEPT !.step = "deciding", !.match = match]
<1>1. /\ s \in Row /\ s.step = "matching" /\ s.prompt \in Prompts /\ memory.rules \in Rules
      /\ s.action = "none"
      BY DEF SmartInv, SessionOK, RowOK, FilesOK, MatchMemory, At, EvidenceInv, Undecided
<1>2. Become(h, t) /\ UNCHANGED <<chosen, memory>>
      BY DEF MatchMemory, Untouched, Unmoved, memoryVars
<1>3. /\ t.step = "deciding" /\ t.match = match /\ t.prompt = s.prompt /\ t.snap = s.snap /\ t.action = "none"
      BY <1>1 DEF Row
<1>4. ToldOften(t, chosen)
  <2> SUFFICES ASSUME match.source = "learned"
               PROVE  /\ match.action \in Actions
                      /\ \E y \in Prompts : /\ Alike[Sig[s.prompt], Sig[y]] >= MatchThreshold("learned")
                                            /\ Cardinality(Made(chosen, Sig[y], match.action)) >= 3
      BY <1>3 DEF ToldOften
  <2>1. match = Match(memory.rules, Signature(h))
        BY DEF NoMatch
  <2>2. Signature(h) = Sig[s.prompt] /\ Signature(h) \in Signatures
        BY <1>1, SignatureKnown DEF Signature
  <2> HIDE DEF match
  <2>3. PICK r \in memory.rules : /\ r.source = "learned" /\ r.action = match.action /\ r.seen >= 3
                                  /\ Alike[Sig[s.prompt], r.sig] >= MatchThreshold("learned")
    <3>1. Match(memory.rules, Sig[s.prompt]).source = "learned" /\ match = Match(memory.rules, Sig[s.prompt])
          BY <2>1, <2>2
    <3> HIDE DEF s
    <3> QED BY <1>1, <2>2, <3>1, MatchIsBacked
  <2>4. Cardinality(Made(chosen, r.sig, match.action)) >= 3
        BY <1>1, <2>3, CoveredIsMade
  <2>5. PICK y \in Prompts : r.sig = Sig[y]
        BY <1>1, RuleFields DEF Signatures
  <2>6. match.action \in Actions
        BY <1>1, <2>3, RuleFields
  <2> QED BY <2>3, <2>4, <2>5, <2>6
<1> HIDE DEF t
<1>5. \A sig \in Signatures, a \in Actions : Owes(t, sig, a) => Owes(s, sig, a)
      BY <1>3 DEF Owes
<1>6. \A r \in t.snap.rules : Stems(r)
      BY <1>3 DEF Stems
<1>7. Undecided(t)
      BY <1>3 DEF Undecided
<1>8. RulesStem
      BY <1>2, SameStem
<1> QED BY <1>2, <1>4, <1>5, <1>6, <1>7, <1>8, SessionCarried

\* The backup keeps the rules of the file for a rollback.
LEMMA BackupEvidence ==
    ASSUME SmartInv, SmartInv', EvidenceInv, NEW h \in Hosts, Backup(h)
    PROVE  EvidenceInv'
<1> DEFINE s == session[h]
           snap == IF h \in Cancellable THEN [gen |-> memory.gen, rules |-> memory.rules] ELSE NoFile
           t == [s EXCEPT !.step = "learning", !.snap = snap]
<1>1. s \in Row /\ s.step = "backup"
      BY DEF SmartInv, SessionOK, RowOK, Backup, At
<1>2. UNCHANGED <<chosen, memory>> /\ (Finish(h) \/ Become(h, t))
      BY DEF Backup, Untouched, Unmoved, memoryVars
<1>3. /\ t.step = "learning" /\ t.match = s.match /\ t.prompt = s.prompt /\ t.action = s.action
      /\ t.source = s.source /\ t.snap.rules \in {memory.rules, {}}
      BY <1>1 DEF Row, NoFile
<1> HIDE DEF t
<1>4. \A sig \in Signatures, a \in Actions : Owes(t, sig, a) => Owes(s, sig, a)
      BY <1>1, <1>3 DEF Owes
<1>5. \A r \in t.snap.rules : Stems(r)
      BY <1>3 DEF Stems
<1>6. ToldOften(t, chosen) /\ Undecided(t)
      BY <1>3 DEF EvidenceInv, ToldOften, Undecided
<1>7. RulesStem
      BY <1>2, SameStem
<1> QED BY <1>2, <1>4, <1>5, <1>6, <1>7, SessionCarried, FinishCarried

\* The other steps of a session that make no choice and learn nothing.
LEMMA QuietEvidence ==
    ASSUME SmartInv, SmartInv', EvidenceInv, NEW h \in Hosts,
           \/ \E x \in Prompts : Submit(h, x)
           \/ DecideRoute(h) \/ TriageAnswers(h) \/ MissionRuns(h) \/ Close(h) \/ Abort(h) \/ Crash(h)
    PROVE  EvidenceInv'
<1> DEFINE s == session[h]
<1>1. s \in Row /\ Undecided(s)
      BY DEF SmartInv, SessionOK, RowOK, EvidenceInv
<1>2. UNCHANGED <<chosen, memory>>
      BY DEF Submit, DecideRoute, TriageAnswers, MissionRuns, Close, Abort, Crash, Untouched, Unmoved, memoryVars
<1>3. RulesStem
      BY <1>2, SameStem
<1>4. ASSUME NEW t, Become(h, t), Lesser(s, t), Undecided(t) PROVE EvidenceInv'
      BY <1>2, <1>3, <1>4, LesserCarried
<1>5. Finish(h) => EvidenceInv'
      BY <1>2, <1>3, FinishCarried
<1>6. ASSUME NEW step, NEW t, t = [s EXCEPT !.step = step], Become(h, t),
             \/ step \notin Learning \cup {"matching", "deciding", "triage", "asking"}
             \/ s.step \in {"deciding", "triage"}
             \/ s.step \in Learning /\ step \in Learning
      PROVE  EvidenceInv'
  <2>1. /\ t.step = step /\ t.match = s.match /\ t.prompt = s.prompt /\ t.action = s.action
        /\ t.source = s.source /\ t.snap = s.snap
        BY <1>1, <1>6 DEF Row
  <2>2. s.step \in {"deciding", "triage"} => s.action \notin Actions /\ s.action = "none"
        BY <1>1 DEF Undecided, Actions
  <2>3. Lesser(s, t) /\ Undecided(t)
        BY <1>1, <1>6, <2>1, <2>2 DEF Lesser, Undecided, Learning
  <2> QED BY <1>4, <1>6, <2>3
<1>7. ASSUME NEW step \in {"triage", "asking"}, NEW routes, NEW t,
             t = [s EXCEPT !.step = step, !.routes = routes], Become(h, t), s.step \in {"deciding", "triage"}
      PROVE  EvidenceInv'
  <2>1. /\ t.step = step /\ t.match = s.match /\ t.prompt = s.prompt /\ t.action = s.action
        /\ t.source = s.source /\ t.snap = s.snap
        BY <1>1, <1>7 DEF Row
  <2>2. Lesser(s, t) /\ Undecided(t)
        BY <1>1, <1>7, <2>1 DEF Lesser, Undecided, Learning
  <2> QED BY <1>4, <1>7, <2>2
<1>8. ASSUME NEW x \in Prompts, Submit(h, x) PROVE EvidenceInv'
  <2> DEFINE t == [Idle EXCEPT !.step = "matching", !.prompt = x, !.learn = Loaded.learn,
                               !.probe = Loaded.enabled /\ Loaded.memory]
  <2>1. t.step = "matching" /\ t.match = NoMatch /\ t.snap = NoFile /\ t.action = "none"
        BY DEF Idle
  <2>2. Become(h, t)
        BY <1>8 DEF Submit
  <2> HIDE DEF t
  <2>3. Lesser(s, t) /\ Undecided(t)
        BY <2>1 DEF Lesser, Undecided, Learning
  <2> QED BY <1>4, <2>2, <2>3
<1>9. s.step \in {"deciding", "triage"} /\ Suggest(h) => EvidenceInv'
      BY <1>5, <1>7 DEF Suggest
<1>10. CASE DecideRoute(h)
  <2>1. s.step = "deciding"
        BY <1>10 DEF DecideRoute, At
  <2>2. \/ Finish(h) \/ Suggest(h) \/ Become(h, [s EXCEPT !.step = "running"])
        \/ Become(h, [s EXCEPT !.step = "triage", !.routes = TriageRoutes(Loaded)])
        BY <1>10 DEF DecideRoute, Goto
  <2> QED BY <1>5, <1>6, <1>7, <1>9, <2>1, <2>2
<1>11. CASE TriageAnswers(h)
  <2>1. s.step = "triage"
        BY <1>11 DEF TriageAnswers, At
  <2>2. \/ Finish(h) \/ Suggest(h)
        \/ Become(h, [s EXCEPT !.step = "triage", !.routes = Tail(s.routes)])
    <3>1. [s EXCEPT !.routes = Tail(s.routes)] = [s EXCEPT !.step = "triage", !.routes = Tail(s.routes)]
          BY <1>1, <2>1 DEF Row
    <3> QED BY <1>11, <3>1 DEF TriageAnswers
  <2> QED BY <1>5, <1>7, <1>9, <2>1, <2>2
<1>12. CASE MissionRuns(h)
  <2>1. s.step = "running" /\ (Finish(h) \/ Become(h, [s EXCEPT !.step = "backup"]))
        BY <1>12 DEF MissionRuns, At, Goto
  <2> QED BY <1>5, <1>6, <2>1 DEF Learning
<1>13. CASE Close(h)
  <2>1. Become(h, [s EXCEPT !.step = "closing"])
        BY <1>13 DEF Close, Goto
  <2> QED BY <1>6, <2>1 DEF Learning
<1>14. CASE Abort(h)
  <2> DEFINE t == [s EXCEPT !.aborted = TRUE]
  <2>1. /\ t.step = s.step /\ t.match = s.match /\ t.prompt = s.prompt /\ t.action = s.action
        /\ t.source = s.source /\ t.snap = s.snap /\ Become(h, t)
        BY <1>1, <1>14 DEF Row, Abort
  <2> HIDE DEF t
  <2>2. Lesser(s, t) /\ Undecided(t)
        BY <1>1, <2>1 DEF Lesser, Undecided
  <2> QED BY <1>4, <2>1, <2>2
<1>15. CASE Crash(h)
      BY <1>5, <1>15 DEF Crash
<1> QED BY <1>8, <1>10, <1>11, <1>12, <1>13, <1>14, <1>15

\* A choice, and the session that is to learn from it.
LEMMA ChoiceCarried ==
    ASSUME SmartInv, SmartInv', EvidenceInv, memory' = memory, NEW h \in Hosts, NEW t, Become(h, t),
           NEW x \in Prompts, NEW b \in Actions, chosen' = Counted(x, b),
           \A sig \in Signatures, a \in Actions : Owes(t, sig, a) => a = b /\ x \in Like(sig),
           t.snap = session[h].snap \/ t.snap = NoFile, ToldOften(t, chosen), Undecided(t)
    PROVE  EvidenceInv'
<1>1. /\ memory.rules \in Rules /\ memory' = memory
      /\ \A k \in Hosts : session'[k] = (IF k = h THEN t ELSE session[k]) /\ session[k].snap.rules \in Rules
      BY DEF SmartInv, FilesOK, Become, SessionOK, RowOK, Row
<1>2. chosen \in [Prompts -> [Actions -> Nat]] /\ chosen' = ChosenOnce(chosen, x, b)
      BY DEF EvidenceInv, Counted, ChosenOnce
<1>3. ASSUME NEW sig \in Signatures, NEW a \in Actions
      PROVE  /\ IsFiniteSet(Made(chosen', sig, a))
             /\ Cardinality(Made(chosen', sig, a)) >= Cardinality(Made(chosen, sig, a))
             /\ \A n \in Nat : Covered(n, session, chosen, sig, a) => Covered(n, session', chosen', sig, a)
             /\ Cardinality(Made(chosen, sig, a)) \in Nat /\ Cardinality(Made(chosen', sig, a)) \in Nat
  <2>1. IsFiniteSet(Made(chosen, sig, a))
        BY DEF EvidenceInv
  <2>2. /\ IsFiniteSet(Made(chosen', sig, a))
        /\ Cardinality(Made(chosen', sig, a)) >= Cardinality(Made(chosen, sig, a))
        /\ a = b /\ x \in Like(sig) =>
              Cardinality(Made(chosen', sig, a)) = Cardinality(Made(chosen, sig, a)) + 1
        BY <1>2, <2>1, MadeMore
  <2>3. /\ Cardinality(Owing(session, sig, a)) \in Nat /\ Cardinality(Owing(session', sig, a)) \in Nat
        /\ Cardinality(Made(chosen, sig, a)) \in Nat /\ Cardinality(Made(chosen', sig, a)) \in Nat
        BY <2>1, <2>2, OwingFinite, FS_CardinalityType
  <2>4. CASE a = b /\ x \in Like(sig)
    <3>1. Cardinality(Owing(session', sig, a)) <= Cardinality(Owing(session, sig, a)) + 1
          BY <1>1, OwedMore
    <3> QED BY <2>2, <2>3, <2>4, <3>1 DEF Covered
  <2>5. CASE ~(a = b /\ x \in Like(sig))
    <3>1. Cardinality(Owing(session', sig, a)) <= Cardinality(Owing(session, sig, a))
          BY <1>1, <2>5, OwedLess
    <3> QED BY <2>2, <2>3, <3>1 DEF Covered
  <2> QED BY <2>4, <2>5
<1>4. \A rules \in Rules : RulesCovered(rules, session, chosen) => RulesCovered(rules, session', chosen')
      BY <1>3, RuleFields DEF RulesCovered
<1>5. ASSUME NEW s, ToldOften(s, chosen) PROVE ToldOften(s, chosen')
  <2> SUFFICES ASSUME s.match.source = "learned"
               PROVE  /\ s.match.action \in Actions
                      /\ \E y \in Prompts : /\ Alike[Sig[s.prompt], Sig[y]] >= MatchThreshold("learned")
                                            /\ Cardinality(Made(chosen', Sig[y], s.match.action)) >= 3
      BY DEF ToldOften
  <2>1. s.match.action \in Actions
        BY <1>5 DEF ToldOften
  <2>2. PICK y \in Prompts : /\ Alike[Sig[s.prompt], Sig[y]] >= MatchThreshold("learned")
                             /\ Cardinality(Made(chosen, Sig[y], s.match.action)) >= 3
        BY <1>5 DEF ToldOften
  <2>3. Cardinality(Made(chosen', Sig[y], s.match.action)) >= 3
    <3>1. Sig[y] \in Signatures
          BY SignatureKnown
    <3>2. /\ Cardinality(Made(chosen', Sig[y], s.match.action)) >= Cardinality(Made(chosen, Sig[y], s.match.action))
          /\ Cardinality(Made(chosen, Sig[y], s.match.action)) \in Nat
          /\ Cardinality(Made(chosen', Sig[y], s.match.action)) \in Nat
          BY <1>3, <2>1, <3>1
    <3> DEFINE m == Cardinality(Made(chosen, Sig[y], s.match.action))
               n == Cardinality(Made(chosen', Sig[y], s.match.action))
    <3>3. m \in Nat /\ n \in Nat /\ n >= m /\ m >= 3
          BY <2>2, <3>2
    <3> HIDE DEF m, n
    <3>4. n >= 3
          BY <3>3
    <3> QED BY <3>4 DEF n
  <2> QED BY <2>1, <2>2, <2>3
<1>6. \A S, C : RulesCovered({}, S, C)
      BY DEF RulesCovered
<1>7. \A k \in Hosts : RulesCovered(session'[k].snap.rules, session', chosen')
  <2>1. \A k \in Hosts : session'[k].snap.rules \in {{}, session[k].snap.rules}
        BY <1>1 DEF NoFile
  <2>2. \A k \in Hosts : RulesCovered(session[k].snap.rules, session', chosen')
        BY <1>1, <1>4 DEF EvidenceInv
  <2> QED BY <1>6, <2>1, <2>2
<1>8. \A k \in Hosts : ToldOften(session'[k], chosen') /\ Undecided(session'[k])
      BY <1>1, <1>5 DEF EvidenceInv
<1>9. chosen' \in [Prompts -> [Actions -> Nat]]
      BY <1>2 DEF ChosenOnce
<1>10. RulesCovered(memory'.rules, session', chosen')
      BY <1>1, <1>4 DEF EvidenceInv
<1>11. \A sig \in Signatures, a \in Actions :
         IsFiniteSet(Made(chosen', sig, a)) /\ Covered(0, session', chosen', sig, a)
      BY <1>3 DEF EvidenceInv
<1> QED BY <1>7, <1>8, <1>9, <1>10, <1>11 DEF EvidenceInv

LEMMA AnswerEvidence ==
    ASSUME SmartInv, SmartInv', EvidenceInv, NEW h \in Hosts, Answer(h)
    PROVE  EvidenceInv'
<1> DEFINE s == session[h]
<1>1. /\ s \in Row /\ s.step = "asking" /\ s.prompt \in Prompts /\ s.source = "learned" /\ s.action = "none"
      /\ ToldOften(s, chosen)
      BY DEF SmartInv, SessionOK, RowOK, Answer, At, EvidenceInv, Undecided
<1>2. memory' = memory /\ RulesStem
      BY SameStem DEF Answer, memoryVars
<1>3. ASSUME UNCHANGED chosen, NEW t, t = [s EXCEPT !.step = "running", !.source = "explicit", !.action = "mission"],
             Become(h, t)
      PROVE  EvidenceInv'
  <2>1. /\ t.step = "running" /\ t.match = s.match /\ t.prompt = s.prompt /\ t.source = "explicit"
        /\ t.snap = s.snap
        BY <1>1, <1>3 DEF Row
  <2>2. Lesser(s, t) /\ Undecided(t)
        BY <2>1 DEF Lesser, Undecided
  <2> QED BY <1>2, <1>3, <2>2, LesserCarried
<1>4. ASSUME NEW step \in {"running", "backup"}, NEW b \in Actions, chosen' = Counted(s.prompt, b),
             NEW t, t = [s EXCEPT !.step = step, !.action = b], Become(h, t)
      PROVE  EvidenceInv'
  <2>1. /\ t.step = step /\ t.match = s.match /\ t.prompt = s.prompt /\ t.action = b /\ t.snap = s.snap
        BY <1>1, <1>4 DEF Row
  <2>2. \A sig \in Signatures, a \in Actions : Owes(t, sig, a) => a = b /\ s.prompt \in Like(sig)
        BY <2>1 DEF Owes
  <2>3. ToldOften(t, chosen) /\ Undecided(t)
        BY <1>1, <1>4, <2>1 DEF ToldOften, Undecided
  <2> QED BY <1>1, <1>2, <1>4, <2>1, <2>2, <2>3, ChoiceCarried
<1>5. ASSUME chosen' = Counted(s.prompt, "normal"), Finish(h) PROVE EvidenceInv'
  <2>1. \A sig \in Signatures, a \in Actions : ~Owes(Idle, sig, a)
        BY IdleIs DEF Owes
  <2>2. Idle.match.source # "learned"
        BY IdleIs DEF NoMatch
  <2>3. ToldOften(Idle, chosen) /\ Undecided(Idle)
        BY <2>2, IdleIs DEF ToldOften, Undecided
  <2> QED BY <1>1, <1>2, <1>5, <2>1, <2>3, IdleIs, ChoiceCarried DEF Finish, Actions
<1>6. [s EXCEPT !.step = "running", !.source = "learned", !.action = "mission"]
         = [s EXCEPT !.step = "running", !.action = "mission"]
      BY <1>1 DEF Row
<1>7. \/ UNCHANGED chosen /\ Finish(h)
      \/ UNCHANGED chosen /\ Become(h, [s EXCEPT !.step = "running", !.source = "explicit", !.action = "mission"])
      \/ /\ chosen' = Counted(s.prompt, "mission")
         /\ Become(h, [s EXCEPT !.step = "running", !.source = "learned", !.action = "mission"])
      \/ /\ chosen' = Counted(s.prompt, "normal")
         /\ Finish(h) \/ Become(h, [s EXCEPT !.step = "backup", !.action = "normal"])
      BY DEF Answer, Sources
<1> QED BY <1>2, <1>3, <1>4, <1>5, <1>6, <1>7, FinishCarried DEF Actions

\* What is learned counts once: the session owed it, and does not any more.
LEMMA PaidCovers ==
    ASSUME SmartInv, EvidenceInv, UNCHANGED chosen, NEW h \in Hosts, NEW t, Become(h, t), t.step \notin Learning,
           NEW sig \in Signatures, NEW a \in Actions, Owes(session[h], sig, a),
           NEW n \in Nat, NEW m \in Nat, m <= n + 1, Covered(n, session, chosen, sig, a)
    PROVE  Covered(m, session', chosen', sig, a)
<1>1. \A k \in Hosts : session'[k] = IF k = h THEN t ELSE session[k]
      BY DEF SmartInv, Become
<1>2. ~Owes(session'[h], sig, a)
      BY <1>1 DEF Owes, Learning
<1>3. Cardinality(Owing(session', sig, a)) <= Cardinality(Owing(session, sig, a)) - 1
      BY <1>1, <1>2, OwedLess
<1>4. IsFiniteSet(Made(chosen, sig, a))
      BY DEF EvidenceInv
<1>5. /\ Cardinality(Owing(session, sig, a)) \in Nat /\ Cardinality(Owing(session', sig, a)) \in Nat
      /\ Cardinality(Made(chosen, sig, a)) \in Nat
      BY <1>4, OwingFinite, FS_CardinalityType
<1> QED BY <1>3, <1>5 DEF Covered

LEMMA LearnEvidence ==
    ASSUME SmartInv, SmartInv', EvidenceInv, NEW h \in Hosts, Learn(h)
    PROVE  EvidenceInv'
<1> DEFINE s == session[h]
           x == s.prompt
<1>1. /\ s \in Row /\ s.step = "learning" /\ x \in Prompts /\ s.source \in Sources /\ s.action \in Actions
      /\ memory.rules \in Rules /\ UNCHANGED chosen
      BY DEF SmartInv, SessionOK, RowOK, Row, FilesOK, Learn, At, Unmoved
<1>2. Signature(h) = Sig[x] /\ Sig[x] \in Signatures
      BY <1>1, SignatureKnown DEF Signature
<1>3. ASSUME NEW made, Learned(h, made),
             \/ Merge(Signature(h), s.source, s.action) \/ Create(Signature(h), s.source, s.action)
      PROVE  EvidenceInv'
  <2> DEFINE same == s.snap.rules = memory.rules
             t == [s EXCEPT !.step = "learned", !.wrote = memory.gen + 1, !.made = made,
                     !.fresh = same, !.left = memory'.rules]
  <2>1. Become(h, t)
        BY <1>3 DEF Learned
  <2>2. t.step = "learned" /\ t.match = s.match /\ t.prompt = s.prompt /\ t.snap = s.snap
        BY <1>1 DEF Row
  <2> HIDE DEF t
  <2>3. Lesser(s, t) /\ Undecided(t) /\ t.step \notin Learning
        BY <2>2 DEF Lesser, Undecided, Learning
  <2>4. ASSUME NEW n \in Nat, NEW m \in Nat, m <= n + 1, NEW sig \in Signatures, x \in Like(sig),
               s.source = "learned", Covered(n, session, chosen, sig, s.action)
        PROVE  Covered(m, session', chosen', sig, s.action)
    <3>1. Owes(s, sig, s.action)
          BY <1>1, <2>4 DEF Owes
    <3> QED BY <1>1, <2>1, <2>3, <2>4, <3>1, PaidCovers
  <2>5. \A r \in memory.rules : Stems(r)
        BY DEF Stems
  <2>6. ASSUME Merge(Signature(h), s.source, s.action) PROVE RulesStem
    <3>1. PICK q \in Mergeable(memory.rules, Sig[x], s.source, s.action) :
              Commit((memory.rules \ {q}) \cup {Merged(q)})
          BY <1>2, <2>6 DEF Merge
    <3>2. /\ q \in memory.rules /\ q.source = s.source /\ q.action = s.action
          /\ Alike[Sig[x], q.sig] >= MergeThreshold(s.source)
          BY DEF Mergeable, OfSource, Near
    <3>3. q \in Rule /\ q.sig \in Signatures /\ q.seen \in Nat
          BY <1>1, <3>2, RuleFields
    <3>4. memory'.rules = (memory.rules \ {q}) \cup {Merged(q)}
          BY <3>1 DEF Commit, SavedMemory
    <3>5. /\ Merged(q).source = q.source /\ Merged(q).action = q.action /\ Merged(q).sig = q.sig
          /\ Merged(q).seen = Least(MaxSeen, q.seen + 1)
          BY <3>3 DEF Merged, Rule
    <3>6. Merged(q).seen \in Nat /\ Merged(q).seen <= q.seen + 1
          BY <3>3, <3>5, RoutingMemoryAssumption DEF Least
    <3>7. ASSUME q.source = "learned"
          PROVE  Covered(Merged(q).seen, session', chosen', q.sig, q.action)
      <4>1. x \in Like(q.sig)
            BY <1>1, <3>2, <3>7 DEF Like
      <4>2. Covered(q.seen, session, chosen, q.sig, q.action)
            BY <3>2, <3>7 DEF EvidenceInv, RulesCovered
      <4> HIDE DEF s, x
      <4> QED BY <2>4, <3>2, <3>3, <3>6, <3>7, <4>1, <4>2
    <3> QED BY <2>5, <3>4, <3>5, <3>7 DEF RulesStem
  <2>7. ASSUME Create(Signature(h), s.source, s.action) PROVE RulesStem
    <3> DEFINE new == NewRule(issued, Sig[x], s.source, s.action)
    <3>1. PICK gone : Commit((memory.rules \ gone) \cup {new})
          BY <1>2, <2>7 DEF Create
    <3>2. memory'.rules = (memory.rules \ gone) \cup {new}
          BY <3>1 DEF Commit, SavedMemory
    <3>3. new.source = s.source /\ new.action = s.action /\ new.sig = Sig[x] /\ new.seen = 1
          BY DEF NewRule
    <3> HIDE DEF new
    <3>4. ASSUME s.source = "learned" PROVE Covered(1, session', chosen', Sig[x], s.action)
      <4>1. x \in Like(Sig[x])
            BY <1>1 DEF Like
      <4>2. Covered(0, session, chosen, Sig[x], s.action)
            BY <1>1, <1>2 DEF EvidenceInv
      <4> QED BY <1>2, <2>4, <3>4, <4>1, <4>2
    <3> QED BY <2>5, <3>2, <3>3, <3>4 DEF RulesStem
  <2>8. RulesStem
        BY <1>3, <2>6, <2>7
  <2> QED BY <1>1, <2>1, <2>3, <2>8, LesserCarried
<1>4. ASSUME Finish(h), UNCHANGED memoryVars PROVE EvidenceInv'
  <2>1. RulesStem
        BY <1>4, SameStem DEF memoryVars
  <2> QED BY <1>1, <1>4, <2>1, FinishCarried
<1>5. \/ Finish(h) /\ UNCHANGED memoryVars
      \/ Learned(h, -1) /\ Merge(Signature(h), s.source, s.action)
      \/ Learned(h, issued) /\ Create(Signature(h), s.source, s.action)
      BY DEF Learn
<1> QED BY <1>3, <1>4, <1>5

\* What a session undoes.
LEMMA UndoEvidence ==
    ASSUME SmartInv, SmartInv', EvidenceInv, NEW h \in Hosts, Rollback(h) \/ Closed(h)
    PROVE  EvidenceInv'
<1>1. Finish(h) /\ UNCHANGED chosen
      BY DEF Rollback, Closed, Unmoved
<1>2. memory'.rules \in {memory.rules, session[h].snap.rules} => RulesStem
      BY DEF RulesStem, Stems
<1>3. Rollback(h) => memory'.rules \in {memory.rules, session[h].snap.rules}
      BY DEF Rollback, RestoreAt, Commit, SavedMemory, memoryVars
<1>4. Closed(h) => memory'.rules \subseteq memory.rules
      BY DEF Closed, DeleteRule, Mutate, Commit, SavedMemory, memoryVars
<1> QED BY <1>1, <1>2, <1>3, <1>4, SameStem, FinishCarried

\* What users and the environment do to the rules leaves their observations what they were.
LEMMA WorldEvidence ==
    ASSUME SmartInv, SmartInv', EvidenceInv, UNCHANGED <<session, chosen>>,
           ChangeSettings \/ DamageSettings \/ ChangeRules \/ DamageRules \/ UNCHANGED vars
    PROVE  EvidenceInv'
<1>1. memory.rules \in Rules
      BY DEF SmartInv, FilesOK
<1>2. ASSUME NEW id, NEW on, SwitchRule(id, on) PROVE RulesStem
  <2>1. \/ memory'.rules = memory.rules
        \/ memory'.rules = {IF r.id = id THEN [r EXCEPT !.enabled = on] ELSE r : r \in memory.rules}
        BY <1>2 DEF SwitchRule, Mutate, Commit, SavedMemory
  <2>2. \A r \in memory'.rules : \E q \in memory.rules : r \in {q, [q EXCEPT !.enabled = on]}
        BY <2>1
  <2>3. ASSUME NEW r \in memory'.rules
        PROVE  \E q \in memory.rules :
                  q.source = r.source /\ q.sig = r.sig /\ q.action = r.action /\ q.seen = r.seen
    <3>1. PICK q \in memory.rules : r \in {q, [q EXCEPT !.enabled = on]}
          BY <2>2
    <3>2. q \in Rule
          BY <1>1, RuleFields
    <3>3. q.source = r.source /\ q.sig = r.sig /\ q.action = r.action /\ q.seen = r.seen
          BY <3>1, <3>2 DEF Rule
    <3> QED BY <3>3
  <2> QED BY <2>3 DEF RulesStem, Stems
<1>3. ForgetLearned \/ ResetMemory \/ (\E id \in 0 .. issued : DeleteRule(id)) => memory'.rules \subseteq memory.rules
      BY DEF ForgetLearned, ResetMemory, DeleteRule, Mutate, Commit, SavedMemory, OfSource
<1>4. DamageMemory => memory'.rules \subseteq memory.rules
  <2>1. ASSUME NEW r, memory' = [memory EXCEPT !.rules = @ \ {r}] PROVE memory'.rules \subseteq memory.rules
        BY <2>1 DEF SmartInv, FilesOK
  <2> QED BY <2>1 DEF DamageMemory, DamagedMemory, MissingMemory
<1>5. UNCHANGED memory => RulesStem
      BY SameStem
<1>6. RulesStem
      BY <1>2, <1>3, <1>4, <1>5, SameStem
         DEF ChangeSettings, DamageSettings, ChangeRules, DamageRules, vars, memoryVars
<1>7. \A h \in Hosts : /\ session'[h] = session[h] /\ session[h].snap.rules \in Rules
                       /\ \A r \in session[h].snap.rules : Stems(r)
                       /\ ToldOften(session[h], chosen) /\ Undecided(session[h])
      BY DEF SmartInv, SessionOK, RowOK, Row, Stems, EvidenceInv
<1> QED BY <1>6, <1>7, EvidenceCarried DEF RulesStem

LEMMA EvidenceStep == ASSUME SmartInv, EvidenceInv, [Next]_vars PROVE EvidenceInv'
<1>1. SmartInv'
      BY SmartStep
<1>2. ASSUME NEW h \in Hosts, HostStep(h) PROVE EvidenceInv'
      BY <1>1, <1>2, MatchEvidence, BackupEvidence, QuietEvidence, AnswerEvidence, LearnEvidence, UndoEvidence
         DEF HostStep
<1>3. ChangeSettings \/ DamageSettings \/ ChangeRules \/ DamageRules \/ UNCHANGED vars => UNCHANGED <<session, chosen>>
      BY DEF ChangeSettings, DamageSettings, ChangeRules, DamageRules, Move, vars
<1> QED BY <1>1, <1>2, <1>3, WorldEvidence DEF Next

LEMMA EvidenceInit == ASSUME Init PROVE EvidenceInv
<1>1. \A h \in Hosts : session[h] = Idle
      BY DEF Init
<1>2. \A sig, a : Owing(session, sig, a) = {}
      BY <1>1, IdleIs DEF Owing, Owes
<1>3. \A sig, a : Cardinality(Owing(session, sig, a)) = 0
      BY <1>2, FS_EmptySet
<1>4. Idle.match.source # "learned" /\ Idle.snap.rules = {}
      BY IdleIs DEF NoMatch, NoFile
<1>5. \A h \in Hosts : /\ RulesCovered(session[h].snap.rules, session, chosen)
                       /\ ToldOften(session[h], chosen) /\ Undecided(session[h])
      BY <1>1, <1>4, IdleIs DEF RulesCovered, ToldOften, Undecided
<1>6. ASSUME NEW n \in Nat, NEW x \in Prompts, NEW b \in Actions,
             chosen = [y \in Prompts |-> [a \in Actions |-> IF y = x /\ a = b THEN n ELSE 0]]
      PROVE  /\ chosen \in [Prompts -> [Actions -> Nat]]
             /\ \A sig \in Signatures, a \in Actions :
                   IsFiniteSet(Made(chosen, sig, a)) /\ Covered(0, session, chosen, sig, a)
             /\ Covered(n, session, chosen, Sig[x], b)
  <2>1. \A y \in Prompts, a \in Actions : chosen[y][a] = IF y = x /\ a = b THEN n ELSE 0
        BY <1>6
  <2>2. 1 .. 0 = {}
        OBVIOUS
  <2>3. ASSUME NEW sig, NEW a \in Actions, ~(x \in Like(sig) /\ a = b) PROVE Made(chosen, sig, a) = {}
    <3>1. \A y \in Like(sig) : {y} \X (1 .. chosen[y][a]) = {}
          BY <2>1, <2>2, <2>3 DEF Like
    <3> QED BY <3>1 DEF Made
  <2>4. ASSUME NEW sig, x \in Like(sig)
        PROVE  IsFiniteSet(Made(chosen, sig, b)) /\ Cardinality(Made(chosen, sig, b)) = n
    <3>1. \A y \in Like(sig) : {y} \X (1 .. chosen[y][b]) = IF y = x THEN {x} \X (1 .. n) ELSE {}
          BY <2>1, <2>2 DEF Like
    <3>2. Made(chosen, sig, b) = {x} \X (1 .. n)
          BY <2>4, <3>1 DEF Made
    <3>3. IsFiniteSet(1 .. n) /\ Cardinality(1 .. n) = IF 1 > n THEN 0 ELSE n - 1 + 1
          BY FS_Interval
    <3>4. Cardinality(1 .. n) = n
          BY <3>3
    <3>5. IsFiniteSet({x}) /\ Cardinality({x}) = 1
          BY FS_Singleton
    <3> DEFINE one == {x}
               many == 1 .. n
    <3> HIDE DEF one, many
    <3>6. IsFiniteSet(one) /\ Cardinality(one) = 1 /\ IsFiniteSet(many) /\ Cardinality(many) = n
          BY <3>3, <3>4, <3>5 DEF one, many
    <3>7. IsFiniteSet(one \X many) /\ Cardinality(one \X many) = Cardinality(one) * Cardinality(many)
          BY <3>6, FS_Product
    <3>8. Cardinality(one \X many) = n
          BY <3>6, <3>7
    <3> QED BY <3>2, <3>7, <3>8 DEF one, many
  <2>5. \A sig \in Signatures, a \in Actions :
           IsFiniteSet(Made(chosen, sig, a)) /\ Covered(0, session, chosen, sig, a)
    <3> SUFFICES ASSUME NEW sig \in Signatures, NEW a \in Actions
                 PROVE  IsFiniteSet(Made(chosen, sig, a)) /\ Covered(0, session, chosen, sig, a)
        OBVIOUS
    <3>1. IsFiniteSet(Made(chosen, sig, a))
          BY <2>3, <2>4, FS_EmptySet
    <3>2. Cardinality(Made(chosen, sig, a)) \in Nat
          BY <3>1, FS_CardinalityType
    <3> QED BY <1>3, <3>1, <3>2 DEF Covered
  <2>6. x \in Like(Sig[x])
        BY DEF Like
  <2>7. Covered(n, session, chosen, Sig[x], b)
        BY <1>3, <2>4, <2>6 DEF Covered
  <2> QED BY <1>6, <2>5, <2>7
<1>7. CASE memory = MissingMemory /\ chosen = [x \in Prompts |-> [a \in Actions |-> 0]]
  <2>1. memory.rules = {}
        BY <1>7 DEF MissingMemory
  <2>2. chosen \in [Prompts -> [Actions -> Nat]]
        BY <1>7
  <2>3. ASSUME NEW sig \in Signatures, NEW a \in Actions
        PROVE  IsFiniteSet(Made(chosen, sig, a)) /\ Covered(0, session, chosen, sig, a)
    <3>1. \A y \in Like(sig) : {y} \X (1 .. chosen[y][a]) = {}
      <4>1. 1 .. 0 = {}
            OBVIOUS
      <4> QED BY <1>7, <4>1 DEF Like
    <3>2. Made(chosen, sig, a) = {}
          BY <3>1 DEF Made
    <3> QED BY <1>3, <3>2, FS_EmptySet DEF Covered
  <2> QED BY <1>5, <2>1, <2>2, <2>3 DEF EvidenceInv, RulesCovered
<1>8. ASSUME NEW past \in Pasts,
             memory = SavedMemory(past.times, {[NewRule(0, Sig[past.prompt], "learned", past.action)
                                                   EXCEPT !.seen = past.times]}),
             chosen = [x \in Prompts |-> [a \in Actions |->
                          IF x = past.prompt /\ a = past.action THEN past.times ELSE 0]]
      PROVE  EvidenceInv
  <2> DEFINE rule == [NewRule(0, Sig[past.prompt], "learned", past.action) EXCEPT !.seen = past.times]
  <2>1. past.prompt \in Prompts /\ past.action \in Actions /\ past.times \in Nat
        BY SmartRoutingAssumption, RoutingMemoryAssumption
  <2>2. rule.sig = Sig[past.prompt] /\ rule.action = past.action /\ rule.seen = past.times
        BY DEF NewRule
  <2>3. memory.rules = {rule}
        BY <1>8 DEF SavedMemory
  <2> HIDE DEF rule
  <2>4. /\ chosen \in [Prompts -> [Actions -> Nat]]
        /\ \A sig \in Signatures, a \in Actions :
              IsFiniteSet(Made(chosen, sig, a)) /\ Covered(0, session, chosen, sig, a)
        /\ Covered(past.times, session, chosen, Sig[past.prompt], past.action)
        BY <1>6, <1>8, <2>1
  <2>5. RulesCovered(memory.rules, session, chosen)
        BY <2>2, <2>3, <2>4 DEF RulesCovered
  <2> QED BY <1>5, <2>4, <2>5 DEF EvidenceInv
<1> QED BY <1>7, <1>8 DEF Init

\* Whatever hosts, edits, lost files and undone choices do, a learned preference that decides a prompt
\* stands on at least three choices of its action for prompts like it: an observation is counted for a
\* choice that was made and that no other observation counts (observeChoice, match).
THEOREM PreferencesAreEarned == Spec => []RepeatedEvidence
<1>1. SmartInv /\ EvidenceInv /\ [Next]_vars => EvidenceInv'
      BY EvidenceStep
<1>2. Spec => []EvidenceInv
      BY <1>1, EvidenceInit, SmartCorrect, PTL DEF Spec
<1>3. EvidenceInv => RepeatedEvidence
      BY DEF EvidenceInv, ToldOften, RepeatedEvidence, Signature, Evidence, Made
<1> QED BY <1>2, <1>3, PTL

===============================================================================
