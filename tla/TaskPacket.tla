------------------------------- MODULE TaskPacket -------------------------------
(***************************************************************************)
(* The packet that a child is given for a task (ContextBroker.buildPacket  *)
(* of context/broker.ts, with the helpers of context/packet.ts): which of  *)
(* the mission's canonical items go into it, and how it is cut down to its *)
(* bound.  A text is its length; the digest, the packet's ID and the shape *)
(* of a value are left out.                                                *)
(***************************************************************************)
EXTENDS Integers, Sequences, Functions

CONSTANTS
    MaxItems,       \* ContextBrokerLimits.maxItems
    MaxItemChars,   \* maxItemChars
    MaxChars,       \* maxChars
    IdChars,        \* length of an item's ID in a list
    MinObjective,   \* what the objective is never cut below
    TooLarge        \* a packet that cannot be built

ASSUME PacketBounds == {MaxItems, MaxItemChars, MaxChars, IdChars, MinObjective} \subseteq Nat

-------------------------------------------------------------------------------
(* What goes in. An input has the mission's items in the order of their IDs, *)
(* the lists that may be cut, the objective, and what is never cut.          *)

\* status "none" is that of a snapshot's item. wanted: it has an ID, a kind, a scope and
\* a tag that were asked for.
AcceptedItem(item) == item.status \in {"none", "accepted", "approved"} /\ ~item.sensitive
Candidate(item) == AcceptedItem(item) /\ item.wanted /\ item.chars <= MaxItemChars

\* selectItems: what there is no room for is omitted, and counted and listed as such.
SelectItems(source) ==
    LET candidates == SelectSeq(source, Candidate)
    IN  SubSeq(candidates, 1, IF Len(candidates) > MaxItems THEN MaxItems ELSE Len(candidates))

\* listed: how many of the IDs of omitted items are still in the packet.
Base(input) ==
    LET items == SelectItems(input.source)
        omitted == Len(input.source) - Len(items)
    IN  [items |-> items, count |-> omitted, listed |-> omitted,
         lists |-> input.lists, objective |-> input.objective, fixed |-> input.fixed]

-------------------------------------------------------------------------------
(* How it is made to fit: from the end of one list after the other.          *)

Sum(lengths) == FoldFunction(LAMBDA a, b : a + b, 0, lengths)
Chars(p) ==
    p.fixed + p.objective + IdChars * (p.listed + Len(p.items))
    + Sum([i \in DOMAIN p.items |-> p.items[i].chars]) + Sum([f \in DOMAIN p.lists |-> Sum(p.lists[f])])
Fits(p) == Chars(p) <= MaxChars

\* Popping until it fits leaves the longest front that does, or nothing.
Longest(good) == IF good = {} THEN 0 ELSE CHOOSE n \in good : \A k \in good : k <= n

ListIds(p, n) == [p EXCEPT !.listed = n]
DropIds(p) == ListIds(p, Longest({n \in 0 .. p.listed : Fits(ListIds(p, n))}))

\* An item that is dropped is listed as omitted, and stays listed.
KeepItems(p, n) ==
    LET dropped == Len(p.items) - n
    IN  [p EXCEPT !.items = SubSeq(@, 1, n), !.count = @ + dropped, !.listed = @ + dropped]
DropItems(p) == KeepItems(p, Longest({n \in 0 .. Len(p.items) : Fits(KeepItems(p, n))}))

CutList(lists, f, n) == [lists EXCEPT ![f] = SubSeq(@, 1, n)]
Cut(p, f, n) == [p EXCEPT !.lists = CutList(@, f, n)]
Trim(p, f) == Cut(p, f, Longest({n \in 0 .. Len(p.lists[f]) : Fits(Cut(p, f, n))}))
\* Whatever is cut here leaves no trace in the packet, constraints and criteria included.
TrimLists(p) ==
    Trim(Trim(Trim(Trim(Trim(Trim(Trim(Trim(Trim(p, "priorAttempts"), "constraints"),
        "relevantArtifactRefs"), "relevantFiles"), "acceptanceCriteria"), "allowedActions"),
        "allowedTools"), "scopes"), "tags")

\* By 64 characters at a time.
Shortened(p, n) == [p EXCEPT !.objective = n]
Lengths(p) == {n \in MinObjective..p.objective : n = MinObjective \/ (p.objective - n) % 64 = 0}
ShortenObjective(p) ==
    IF p.objective <= MinObjective THEN p
    ELSE Shortened(p, Longest({n \in Lengths(p) : n = MinObjective \/ Fits(Shortened(p, n))}))

FitPacketBudget(p) == ShortenObjective(TrimLists(DropItems(DropIds(p))))

BuildPacket(input) ==
    LET p == FitPacketBudget(Base(input)) IN IF Fits(p) THEN p ELSE TooLarge
===============================================================================
