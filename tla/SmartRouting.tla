------------------------------ MODULE SmartRouting ------------------------------
(***************************************************************************)
(* What becomes of a prompt before an agent sees it: handleInput in        *)
(* src/src/host/pi-extension.ts with SmartRouter.decide, its settings and  *)
(* routing memory. Several hosts (Pi processes) share the two files.       *)
(*                                                                         *)
(* A session is one prompt on its way through handleInput; an action is    *)
(* the code from one await to the next, and `step` names the await it is   *)
(* in. A host whose Pi passes it a signal can have its prompt aborted in   *)
(* any of them. The mission a prompt becomes is created and run by the     *)
(* rest of the host, which MissionHost and BossLoop describe: here it is   *)
(* there afterwards, or not, or there without the handler being told.      *)
(***************************************************************************)
EXTENDS RoutingMemory

CONSTANTS
    Hosts,          \* processes that read prompts
    Cancellable,    \* those whose Pi passes a signal with the prompt
    Routes,         \* routes the triage may be sent to
    NoPrompt,       \* of a host that has none
    Pasts,          \* the choices made before: [prompt, action, times], or none
    MaxInputs,      \* bound: prompts
    MaxMoves        \* bound: what users and the environment do besides

ASSUME SmartRoutingAssumption ==
    /\ IsFiniteSet(Hosts) /\ Cancellable \subseteq Hosts
    /\ MaxInputs \in Nat /\ MaxMoves \in Nat
    /\ "none" \notin Routes /\ NoPrompt \notin Prompts
    /\ Pasts \subseteq [prompt : Prompts, action : Actions, times : 1 .. MaxSeen]

VARIABLES
    settings,       \* smart-routing.json
    session,        \* the prompt each host is handling
    inputs,         \* prompts so far
    moves,          \* moves so far
    chosen,         \* history: how often users chose each action for each prompt
    damaged         \* history: routing-memory.json was spoilt

vars == <<memoryVars, settings, session, inputs, moves, chosen, damaged>>

-------------------------------------------------------------------------------
(* Settings                                                                *)

Switches == {"enabled", "memory", "learn", "triage"}
Defaults == [enabled |-> TRUE, memory |-> TRUE, learn |-> TRUE, triage |-> FALSE,
             primary |-> "none", fallback |-> "none"]
Disabled == [Defaults EXCEPT !.enabled = FALSE, !.memory = FALSE, !.learn = FALSE]
\* loadSmartRoutingSettings: a corrupt file disables everything.
Loaded == IF settings.kind = "corrupt" THEN Disabled ELSE settings.value

\* Only a file that can be used is changed; else the defaults are.
UpdateSettings(value) ==
    settings' = [kind |-> "valid", value |-> value]
Draft == IF settings.kind = "valid" THEN settings.value ELSE Defaults

-------------------------------------------------------------------------------
(* Sessions                                                                *)

Steps == {"idle", "matching", "deciding", "triage", "asking", "running", "backup", "learning",
          "learned", "closing"}
NoFile == [gen |-> 0, rules |-> {}]
Idle == [step |-> "idle", prompt |-> NoPrompt, aborted |-> FALSE, probe |-> FALSE, learn |-> FALSE,
         match |-> NoMatch, routes |-> <<>>, source |-> "learned", action |-> "none",
         snap |-> NoFile, wrote |-> 0, made |-> -1, fresh |-> FALSE, left |-> {}]

At(h, step) == session[h].step = step
Signature(h) == Sig[session[h].prompt]
Aborted(h) == session[h].aborted

Become(h, s) == session' = [session EXCEPT ![h] = s]
Finish(h) == Become(h, Idle)
Goto(h, step) == Become(h, [session[h] EXCEPT !.step = step])

Unmoved == UNCHANGED <<settings, moves, chosen, damaged>>
Untouched == UNCHANGED <<memoryVars, inputs>> /\ Unmoved

\* handleInput up to its first await: the settings it reads hold for the whole prompt.
Submit(h, x) ==
    /\ At(h, "idle") /\ inputs < MaxInputs /\ inputs' = inputs + 1
    /\ Become(h, [Idle EXCEPT !.step = "matching", !.prompt = x, !.learn = Loaded.learn,
                              !.probe = Loaded.enabled /\ Loaded.memory])
    /\ UNCHANGED memoryVars /\ Unmoved

\* routingMemoryMatch
MatchMemory(h) ==
    /\ At(h, "matching")
    /\ Become(h, [session[h] EXCEPT !.step = "deciding",
          !.match = IF session[h].probe /\ memory.kind # "invalid"
                    THEN Match(memory.rules, Signature(h)) ELSE NoMatch])
    /\ Untouched

\* What memory says where it may: "run normally" is not taken from it for a prompt of consequence.
Remembered(s) ==
    IF s.match.action = "normal" /\ HighConsequence(s.prompt) THEN NoMatch ELSE s.match

TriageRoutes(value) ==
    IF ~value.triage \/ value.primary = "none" THEN <<>>
    ELSE <<value.primary>> \o (IF value.fallback = "none" THEN <<>> ELSE <<value.fallback>>)

\* SmartRouter.decide, before any model is asked.
Decides(s, value) ==
    LET told == Remembered(s)
        path == LocalPath(s.prompt)
    IN  CASE ~value.enabled -> "normal"
          [] value.enabled /\ told.kind = "strong" -> told.action
          [] value.enabled /\ told.kind = "conflict" -> "suggest"
          [] value.enabled /\ told.kind = "none" ->
                 IF path = "simple" THEN "normal"
                 ELSE IF path = "complex" \/ TriageRoutes(value) = <<>> THEN "suggest" ELSE "triage"

\* What is decided is acted upon: without anyone to ask, a suggestion is not made.
Suggest(h) == Finish(h) \/ Become(h, [session[h] EXCEPT !.step = "asking", !.routes = <<>>])

DecideRoute(h) ==
    /\ At(h, "deciding")
    /\ LET decision == Decides(session[h], Loaded) IN
          \/ decision = "triage" /\ Become(h, [session[h] EXCEPT !.step = "triage", !.routes = TriageRoutes(Loaded)])
          \/ decision # "triage" /\ Aborted(h) /\ Finish(h)
          \/ decision = "normal" /\ Finish(h)
          \/ decision = "mission" /\ ~Aborted(h) /\ Goto(h, "running")
          \/ decision = "suggest" /\ ~Aborted(h) /\ Suggest(h)
    /\ Untouched

\* A route answers, or fails and the next is asked; a prompt that was aborted asks no other.
TriageAnswers(h) ==
    /\ At(h, "triage")
    /\ LET routes == session[h].routes IN
          \/ Aborted(h) /\ Finish(h)
          \/ ~Aborted(h) /\ (Finish(h) \/ Suggest(h))
          \/ ~Aborted(h) /\ Len(routes) = 2 /\ Become(h, [session[h] EXCEPT !.routes = Tail(routes)])
    /\ Untouched

Counted(x, a) == [chosen EXCEPT ![x][a] = @ + 1]

\* The user runs the prompt as a mission, perhaps always, or normally, or dismisses the question.
Answer(h) ==
    /\ At(h, "asking")
    /\ \/ /\ Finish(h) /\ UNCHANGED chosen
       \/ /\ ~Aborted(h)
          /\ \/ \E source \in Sources :
                   /\ Become(h, [session[h] EXCEPT !.step = "running", !.source = source, !.action = "mission"])
                   /\ chosen' = IF source = "learned" THEN Counted(session[h].prompt, "mission") ELSE chosen
             \/ /\ chosen' = Counted(session[h].prompt, "normal")
                /\ IF session[h].learn
                   THEN Become(h, [session[h] EXCEPT !.step = "backup", !.action = "normal"]) ELSE Finish(h)
    /\ UNCHANGED <<memoryVars, settings, inputs, moves, damaged>>

\* createInputMission: only a mission the handler is told of is learned from.
MissionRuns(h) ==
    /\ At(h, "running")
    /\ \/ Finish(h)
       \/ /\ session[h].action = "mission" /\ (session[h].learn \/ session[h].source = "explicit")
          /\ Goto(h, "backup")
    /\ Untouched

-------------------------------------------------------------------------------
(* Learning from a choice, and undoing it                                  *)

\* runCancellableMemoryMutation up to its operation: a file that cannot be parsed is not backed up.
Backup(h) ==
    /\ At(h, "backup")
    /\ IF Aborted(h) \/ (h \in Cancellable /\ memory.kind = "invalid") THEN Finish(h)
       ELSE Become(h, [session[h] EXCEPT !.step = "learning",
                          !.snap = IF h \in Cancellable THEN [gen |-> memory.gen, rules |-> memory.rules] ELSE NoFile])
    /\ Untouched

Learned(h, made) ==
    Become(h, [session[h] EXCEPT !.step = "learned", !.wrote = memory.gen + 1, !.made = made,
                  !.fresh = session[h].snap.rules = memory.rules, !.left = memory'.rules])

Learn(h) ==
    /\ At(h, "learning")
    /\ LET s == session[h] IN
          \/ (Aborted(h) \/ (NoRoom(s.source) /\ Mergeable(memory.rules, Signature(h), s.source, s.action) = {}))
             /\ Finish(h) /\ UNCHANGED memoryVars
          \/ ~Aborted(h) /\ Merge(Signature(h), s.source, s.action) /\ Learned(h, -1)
          \/ ~Aborted(h) /\ Create(Signature(h), s.source, s.action) /\ Learned(h, issued)
    /\ UNCHANGED inputs /\ Unmoved

\* rollback: not where another write came between the backup and the choice.
Undoable_Always(s) == TRUE
Undoable(s) == s.wrote = s.snap.gen + 1

Rollback(h) ==
    /\ At(h, "learned") /\ Aborted(h) /\ Finish(h)
    /\ IF Undoable(session[h]) THEN RestoreAt(session[h].snap.rules, session[h].wrote)
       ELSE UNCHANGED memoryVars
    /\ UNCHANGED inputs /\ Unmoved

\* dispose, after which a choice can no longer be undone...
Close(h) == At(h, "learned") /\ ~Aborted(h) /\ Goto(h, "closing") /\ Untouched

\* ... but a rule it created is deleted (discardCancelledMemoryRule).
Closed(h) ==
    /\ At(h, "closing") /\ Finish(h)
    /\ IF Aborted(h) /\ session[h].made >= 0 THEN DeleteRule(session[h].made) ELSE UNCHANGED memoryVars
    /\ UNCHANGED inputs /\ Unmoved

-------------------------------------------------------------------------------
(* The rest of the world                                                   *)

Abort(h) ==
    /\ h \in Cancellable /\ session[h].step # "idle" /\ ~Aborted(h)
    /\ Become(h, [session[h] EXCEPT !.aborted = TRUE])
    /\ Untouched

Crash(h) == session[h].step # "idle" /\ Finish(h) /\ Untouched

Move == moves < MaxMoves /\ moves' = moves + 1 /\ UNCHANGED <<session, inputs, chosen>>

\* openRoutingSettings: what a menu switches to is the opposite of what it showed.
ChangeSettings ==
    /\ Move /\ UNCHANGED <<memoryVars, damaged>>
    /\ \/ \E switch \in Switches, on \in BOOLEAN : UpdateSettings([Draft EXCEPT ![switch] = on])
       \/ \E r \in Routes \ {Draft.fallback} : UpdateSettings([Draft EXCEPT !.primary = r, !.triage = TRUE])
       \/ UpdateSettings([Draft EXCEPT !.primary = "none", !.triage = FALSE])
       \/ \E r \in (Routes \cup {"none"}) \ {Draft.primary} : UpdateSettings([Draft EXCEPT !.fallback = r])

DamageSettings ==
    /\ Move /\ settings.kind = "valid" /\ settings' = [settings EXCEPT !.kind = "corrupt", !.value = Defaults]
    /\ UNCHANGED <<memoryVars, damaged>>

ChangeRules ==
    /\ Move /\ UNCHANGED <<settings, damaged>>
    /\ \/ ForgetLearned
       \/ ResetMemory
       \/ \E id \in 0 .. issued, on \in BOOLEAN : SwitchRule(id, on)
       \/ \E id \in 0 .. issued : DeleteRule(id)

DamageRules == Move /\ DamageMemory /\ damaged' = TRUE /\ UNCHANGED settings

-------------------------------------------------------------------------------
\* Settings that were saved before, or no file; choices made before: a rule that was
\* learned from one prompt, or no file.
Init ==
    /\ \E kind \in {"missing", "valid"} : settings = [kind |-> kind, value |-> Defaults]
    /\ session = [h \in Hosts |-> Idle]
    /\ inputs = 0 /\ moves = 0 /\ damaged = FALSE
    /\ \/ /\ memory = MissingMemory /\ issued = 0
          /\ chosen = [x \in Prompts |-> [a \in Actions |-> 0]]
       \/ \E past \in Pasts :
             /\ memory = SavedMemory(past.times, {[NewRule(0, Sig[past.prompt], "learned", past.action)
                                                      EXCEPT !.seen = past.times]})
             /\ issued = 1
             /\ chosen = [x \in Prompts |-> [a \in Actions |->
                             IF x = past.prompt /\ a = past.action THEN past.times ELSE 0]]

HostStep(h) ==
    \/ \E x \in Prompts : Submit(h, x)
    \/ MatchMemory(h) \/ DecideRoute(h) \/ TriageAnswers(h) \/ Answer(h) \/ MissionRuns(h)
    \/ Backup(h) \/ Learn(h) \/ Rollback(h) \/ Close(h) \/ Closed(h)
    \/ Abort(h) \/ Crash(h)

Next ==
    \/ \E h \in Hosts : HostStep(h)
    \/ ChangeSettings \/ DamageSettings \/ ChangeRules \/ DamageRules

Spec == Init /\ [][Next]_vars

-------------------------------------------------------------------------------
(* Properties                                                              *)

\* The prompts like one with this signature: itself, which may be too vague to be similar even to
\* itself, and those whose choices are merged with its own.
Like(sig) == {x \in Prompts : Sig[x] = sig \/ Alike[Sig[x], sig] >= MergeThreshold("learned")}

\* How often `action` was chosen for prompts like one with this signature.
Evidence(sig, action) == Cardinality(UNION {{x} \X (1 .. chosen[x][action]) : x \in Like(sig)})

\* A learned preference decides a prompt only when users chose its action at least three times for
\* prompts like it, however hosts, edits, lost rules and undone choices interleave (observeChoice, match).
RepeatedEvidence ==
    \A h \in Hosts :
        session[h].match.source = "learned" =>
            \E y \in Prompts :
                /\ Alike[Signature(h), Sig[y]] >= MatchThreshold("learned")
                /\ Evidence(Sig[y], session[h].match.action) >= 3

\* A learned preference decides nothing where users chose the other action for such prompts again and again
\* (docs/ACCEPTANCE_TESTS.md: "contradictory evidence prevents automation"); match weighs against it only
\* rules that are established themselves.
ContradictedIsAsked ==
    \A h \in Hosts :
        LET told == session[h].match IN
        At(h, "deciding") /\ told.source = "learned" =>
            ~\E r \in OfSource(memory.rules, "learned") :
                /\ r.enabled /\ r.action # told.action /\ r.seen >= 2
                /\ Near(Signature(h), r, MatchThreshold("learned"))

\* A prompt that is sensitive or destructive is never let through because memory says so, even if the
\* same prompt was run normally before (learnedNormalCompatible, decide).
RiskStaysAsked ==
    \A h \in Hosts : At(h, "deciding") /\ Remembered(session[h]).action = "normal" => ~Risky(Signature(h))

\* A cancelled prompt takes back its own choice and nobody else's: what its rollback overwrites is what
\* it wrote itself, over what it had backed up, unless the file was spoilt (prepareRoutingMemoryRollback).
RollbackIsAlone ==
    [][\A h \in Hosts : Rollback(h) /\ memory' # memory /\ ~damaged =>
           session[h].fresh /\ memory.rules = session[h].left]_vars

================================================================================
