------------------------------ MODULE MCBossLoop -------------------------------
(* Small instances of BossLoop for TLC. *)
EXTENDS BossLoop

CONSTANTS x1, x2

BothRoutes == <<x1, x2>>

\* No block, or up to two of any kind.
ShortContents == UNION {[1..n -> Blocks] : n \in 0..2}

\* A task of two criteria, or of none; the reviewer words them as the task does, or not.
Key == [c \in Criteria |-> IF c = "no change." THEN "no change" ELSE c]
TwoCriteria == <<"works", "no change">>
FewResults == UNION {[1..n -> Results] : n \in 0..2}
FewSubmissions ==
    [criteria : {<<>>, TwoCriteria}, results : FewResults, checks : {{}, {"passed"}, {"failed"}, {"timed_out"}},
     verdict : Verdicts, investigation : BOOLEAN, untouched : BOOLEAN]

\* Items of the mission, wishes for the child, and a part that is never cut, which may
\* leave no room for anything.
Item(status, chars) == [status |-> status, sensitive |-> FALSE, wanted |-> TRUE, chars |-> chars]
Wish(n) ==
    [f \in {"priorAttempts", "constraints", "relevantArtifactRefs", "relevantFiles", "acceptanceCriteria",
            "allowedActions", "allowedTools", "scopes", "tags"} |->
        IF f \in {"constraints", "acceptanceCriteria"} THEN [i \in 1..n |-> 5] ELSE <<>>]
FewInputs ==
    [source : {<<>>, <<Item("accepted", 4), Item("rejected", 4), Item("none", 9), Item("approved", 4)>>},
     lists : {Wish(n) : n \in 0..2}, objective : {8, 100}, fixed : {10, 50}]
===============================================================================
