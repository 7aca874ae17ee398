------------------------------ MODULE BossResponse ------------------------------
(***************************************************************************)
(* What one inference call of the Boss amounts to (invokeBossInference of  *)
(* host/pi-extension.ts, mission/boss-response.ts and the decision check of*)
(* mission/boss.ts): an action, or an error whose kind decides whether the *)
(* goal loop changes the route, repeats the cycle, or stops.               *)
(*                                                                         *)
(* A decision is told by its action and by what its plan looks like; the   *)
(* text of an answer is told by the decisions in it.  Wordings, token      *)
(* counts and the diagnostic kept for the user are left out.               *)
(***************************************************************************)
EXTENDS Integers, Sequences, FiniteSets

CONSTANT Prose      \* what a block says that is no JSON object

Phases == {"plan", "evaluate"}
Actions == {"dispatch", "replan", "complete", "blocked", "awaiting_user"}

\* The kinds of error that the loop tells apart.
Errs == {"infrastructure", "protocol", "cancelled", "safety"}
Answers == Actions \cup Errs

-------------------------------------------------------------------------------
(* A decision, checked as the schema of submit_boss_decision describes it.  *)

\* "malformed" is any field that is not what the schema wants: no summary, tasks that
\* are no array, more than 32 of them, a task without role, class or objective.
RawDecisions == [action : Actions \cup {"unknown"}, tasks : {"none", "some", "malformed"}]

\* An evaluation may ask for a new plan without naming its tasks.
NeedsTasks(action, phase) == action = "dispatch" \/ (action = "replan" /\ phase # "evaluate")

NormalizeBossDecision(d, phase) ==
    IF \/ d.action \notin Actions
       \/ d.tasks = "malformed"
       \/ d.tasks = "none" /\ NeedsTasks(d.action, phase)
      THEN "protocol"
      ELSE d.action

-------------------------------------------------------------------------------
(* The assistant message: blocks of thinking, text and calls of tools.      *)

Blocks == [type : {"thinking", "text", "toolCall"}, says : RawDecisions \cup {Prose}]
StopReasons == {"absent", "stop", "length", "toolUse", "error", "aborted", "pending", "deferred", "other"}

\* refused: the text of a provider's error speaks of a refusal or a content filter.
Message(contents) == [content : contents, stop : StopReasons, refused : BOOLEAN]

Texts(m) == {i \in DOMAIN m.content : m.content[i].type = "text"}
HasText(m) == Texts(m) # {}
Calls(m) == {i \in DOMAIN m.content : m.content[i].type = "toolCall" /\ m.content[i].says # Prose}
FirstCall(m) == m.content[CHOOSE i \in Calls(m) : \A k \in Calls(m) : i <= k].says

\* From the first brace to the last: a text with two objects in it is not JSON.
Objects(m) == {i \in Texts(m) : m.content[i].says # Prose}
ParseDecisionText(m, phase) ==
    IF Cardinality(Objects(m)) = 1
      THEN NormalizeBossDecision(m.content[CHOOSE i \in Objects(m) : TRUE].says, phase)
      ELSE "protocol"

\* Without a text there is nothing to repair, unless the answer was cut off.
WithoutText(m) == IF m.stop = "length" THEN "protocol" ELSE "infrastructure"

\* A call of the decision tool is taken before any text, also of a message that was
\* cut off or stopped for an unknown reason.
ParseBossAssistantResponse(m, phase) ==
    CASE m.stop = "aborted" -> "cancelled"
      [] m.stop = "error" -> IF m.refused THEN "protocol" ELSE "infrastructure"
      [] m.stop \in {"pending", "deferred"} -> "infrastructure"
      [] OTHER ->
           IF Calls(m) # {} THEN NormalizeBossDecision(FirstCall(m), phase)
           ELSE IF HasText(m) THEN ParseDecisionText(m, phase)
           ELSE WithoutText(m)

-------------------------------------------------------------------------------
(* The call: resolving the route, the effort, the request.                  *)

\* A route as the projection of the catalogue, Pi's own provider and the runtime show
\* it: keyed, the projection has an address and a credential of its own.
RouteLooks == [projected : BOOLEAN, external : BOOLEAN, keyed : BOOLEAN, refreshes : BOOLEAN,
               listed : BOOLEAN, effort : BOOLEAN]

ResolveHostRoute(x) ==
    /\ x.projected
    /\ IF x.external THEN x.refreshes ELSE x.keyed /\ x.refreshes
    /\ x.listed

Usable(x) == ResolveHostRoute(x) /\ x.effort

\* What the request throws: a cancellation of the user is one whatever was thrown.
RequestFailures == {"AbortError", "safety", "http_error", "network", "unknown"}
WrapBossRequestFailure(failure) ==
    CASE failure = "AbortError" -> "cancelled"
      [] failure = "safety" -> "safety"
      [] OTHER -> "infrastructure"

\* A message is one that the runtime returns; anything else it returns is no message.
NoMessage == "protocol"

\* Everything an inference of the phase may amount to, for messages of these contents.
AnswersFor(phase, contents) ==
    {"infrastructure" : x \in {y \in RouteLooks : ~Usable(y)}}
    \cup {WrapBossRequestFailure(failure) : failure \in RequestFailures}
    \cup {NoMessage}
    \cup {ParseBossAssistantResponse(m, phase) : m \in Message(contents)}

-------------------------------------------------------------------------------
(* The probe that tells whether a route can serve as a Boss at all.         *)

ProbePasses(m) == m.stop \in {"absent", "stop", "length"} /\ HasText(m)
===============================================================================
