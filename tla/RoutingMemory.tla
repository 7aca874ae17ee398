------------------------------ MODULE RoutingMemory ------------------------------
(***************************************************************************)
(* Routing memory: the rules that let a prompt be routed the way prompts   *)
(* like it were routed before, and the file they are kept in               *)
(* (src/src/core/routing-memory/index.ts).                                 *)
(*                                                                         *)
(* Every operation runs under the storage lock, which StorageLock          *)
(* describes, from its first read to its last write, so one is one step    *)
(* here. A rule's confidence is a function of its observations (0.48 and   *)
(* 0.12 for each, at most 1), so it reaches the threshold of 0.84 with the *)
(* third observation and is not kept; times, which only break ties, are a  *)
(* free choice. `rules` is what the file parses to: a row that does not    *)
(* parse is a rule lost. The generations kept beside the file are left     *)
(* out: no caller restores one.                                            *)
(***************************************************************************)
EXTENDS RoutingSignature

CONSTANTS
    Prompts,        \* the prompts users type
    MaxLearned,     \* maxLearnedRules
    MaxExplicit,    \* MAX_EXPLICIT_RULES
    MaxSeen         \* bound: observations are counted up to this

ASSUME RoutingMemoryAssumption ==
    /\ MaxLearned \in Nat \ {0} /\ MaxExplicit \in Nat \ {0}
    /\ MaxSeen \in Nat /\ MaxSeen >= 3

VARIABLES
    memory,     \* the active file
    issued      \* rules created so far: the next one's identity

memoryVars == <<memory, issued>>

-------------------------------------------------------------------------------
Actions == {"mission", "normal"}
Sources == {"explicit", "learned"}
Sig == [x \in Prompts |-> SignatureOf(x)]
Signatures == {Sig[x] : x \in Prompts}
Alike == [a \in Signatures, b \in Signatures |-> Similarity(a, b)]
Rule == [id : Nat, action : Actions, source : Sources, sig : Signatures,
         seen : 1 .. MaxSeen, enabled : BOOLEAN]

MissingMemory == [kind |-> "missing", gen |-> 0, rules |-> {}]
DamagedMemory == [MissingMemory EXCEPT !.kind = "invalid"]
SavedMemory(gen, rules) == [kind |-> "valid", gen |-> gen, rules |-> rules]

MergeThreshold(source) == IF source = "explicit" THEN 860 ELSE 800
MatchThreshold(source) == IF source = "explicit" THEN 780 ELSE 800

OfSource(rules, source) == {r \in rules : r.source = source}

\* commit: a file that is missing or cannot be parsed counts as generation 0 without rules.
Commit(rules) == memory' = SavedMemory(memory.gen + 1, rules)

\* mutate: nothing is written where nothing changes.
Mutate(rules) == IF rules = memory.rules THEN UNCHANGED memory ELSE Commit(rules)

-------------------------------------------------------------------------------
(* Matching                                                                *)

Near(sig, r, threshold) == Alike[sig, r.sig] >= threshold

\* Evidence enough for a learned rule to decide.
Established_AtOnce(r) == TRUE
Established(r) == r.seen >= 3

Strong(sig, r) ==
    /\ r.enabled /\ Near(sig, r, MatchThreshold(r.source))
    /\ r.source = "learned" =>
         Established(r) /\ (r.action = "normal" => LearnedNormalCompatible(sig, r.sig))

NoMatch == [kind |-> "none", source |-> "none", action |-> "none"]

\* Explicit rules outrank learned ones; rules of one tier that disagree decide nothing.
Match(rules, sig) ==
    LET strong == {r \in rules : Strong(sig, r)}
        explicit == OfSource(strong, "explicit")
        effective == IF explicit # {} THEN explicit ELSE strong
        actions == {r.action : r \in effective}
    IN  CASE actions = {} -> NoMatch
          [] Cardinality(actions) = 2 -> [NoMatch EXCEPT !.kind = "conflict"]
          [] OTHER -> [kind |-> "strong", action |-> CHOOSE a \in actions : TRUE,
                       source |-> IF explicit # {} THEN "explicit" ELSE "learned"]

-------------------------------------------------------------------------------
(* Learning                                                                *)

\* The rules a choice is merged into: those most like it of the same source and action.
Mergeable(rules, sig, source, action) ==
    LET near == {r \in OfSource(rules, source) : r.action = action /\ Near(sig, r, MergeThreshold(source))}
    IN  {r \in near : \A q \in near : Alike[sig, q.sig] <= Alike[sig, r.sig]}

NewRule(id, sig, source, action) ==
    [id |-> id, action |-> action, source |-> source, sig |-> sig, seen |-> 1, enabled |-> TRUE]

Merged(r) == [r EXCEPT !.seen = Least(MaxSeen, r.seen + 1),
                       !.enabled = r.enabled \/ r.source = "explicit"]

\* What goes to make room for a learned rule: one of the learned rules seen least.
Prunable(rules) ==
    LET learned == OfSource(rules, "learned")
    IN  IF Cardinality(learned) < MaxLearned THEN {{}}
        ELSE {{r} : r \in {q \in learned : \A s \in learned : q.seen <= s.seen}}

\* observeChoice ("learned") and addExplicitRule ("explicit"), where a rule is merged.
Merge(sig, source, action) ==
    /\ \E r \in Mergeable(memory.rules, sig, source, action) : Commit((memory.rules \ {r}) \cup {Merged(r)})
    /\ UNCHANGED issued

\* The same where none is: one is created, if it is learned or there is room for it.
NoRoom(source) == source = "explicit" /\ Cardinality(OfSource(memory.rules, source)) >= MaxExplicit

Create(sig, source, action) ==
    /\ Mergeable(memory.rules, sig, source, action) = {} /\ ~NoRoom(source)
    /\ \E gone \in (IF source = "learned" THEN Prunable(memory.rules) ELSE {{}}) :
          Commit((memory.rules \ gone) \cup {NewRule(issued, sig, source, action)})
    /\ issued' = issued + 1

-------------------------------------------------------------------------------
(* What a user does to the rules, and what undoes a choice                 *)

ForgetLearned == Mutate(OfSource(memory.rules, "explicit")) /\ UNCHANGED issued

\* reset, which writes where there are rules or the file cannot be parsed.
ResetMemory ==
    /\ IF memory.rules # {} \/ memory.kind = "invalid" THEN Commit({}) ELSE UNCHANGED memory
    /\ UNCHANGED issued

SwitchRule(id, on) ==
    /\ Mutate({IF r.id = id THEN [r EXCEPT !.enabled = on] ELSE r : r \in memory.rules})
    /\ UNCHANGED issued

DeleteRule(id) == Mutate({r \in memory.rules : r.id # id}) /\ UNCHANGED issued

\* restore with an expected generation, which a file written since does not have.
RestoreAt(rules, expected) ==
    /\ IF memory.gen = expected THEN Commit(rules) ELSE UNCHANGED memory
    /\ UNCHANGED issued

\* The file, or one row of it, is spoilt from outside.
DamageMemory ==
    /\ memory.kind = "valid"
    /\ \/ memory' = DamagedMemory
       \/ \E r \in memory.rules : memory' = [memory EXCEPT !.rules = @ \ {r}]
    /\ UNCHANGED issued

================================================================================
