----------------------------- MODULE MCSmartRouting -----------------------------
(* A small instance of SmartRouting for TLC. *)
EXTENDS SmartRouting, TLC

CONSTANTS h1, h2, fast, spare

\* "Update the parser and run its tests"
Update == [cues |-> {"action_requested", "mutation", "tests_requested"}, parts |-> 1,
           words |-> {"action", "mutation", "testing"}, clauses |-> 2]
\* "Refactor the login form and add tests"
Login == [cues |-> {"action_requested", "mutation", "tests_requested"}, parts |-> 1,
          words |-> {"action", "implementation", "mutation", "sensitive", "testing"}, clauses |-> 2]
\* "Make this better if needed"
Vague == [cues |-> {"action_requested", "uncertain"}, parts |-> 1, words |-> {"action"}, clauses |-> 1]

PromptsDef == {Update, Login, Vague}
UpdateOnly == {Update}
Before(x, a, n) == [prompt |-> x, action |-> a, times |-> n]
PastsDef == {Before(Update, "mission", 2), Before(Login, "normal", 3)}

TwoMissions == {Before(Update, "mission", 2)}

\* The three are told apart: each is learned from by itself.
ASSUME \A x, y \in PromptsDef : x # y => Similarity(SignatureOf(x), SignatureOf(y)) < 800
================================================================================
