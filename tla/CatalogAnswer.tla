------------------------------ MODULE CatalogAnswer ------------------------------
(***************************************************************************)
(* What one request for the models of a gateway amounts to                 *)
(* (NineRouterClient of ninerouter/client.ts, with the efforts that        *)
(* thinking.ts reads out of an entry): the entries it lists, or the kind of*)
(* error.  An entry is what the rest of the program decides by: its ID, its*)
(* owner, its class, whether it can chat, and what it says of the efforts  *)
(* it takes; names, windows, prices and provenance are left out.           *)
(***************************************************************************)
EXTENDS Integers, Sequences

CONSTANTS
    MaxEntries,     \* MAX_ENTRIES
    NoId,           \* an ID that is missing, empty, too long or has control characters
    NoData          \* an answer without an array of data

ASSUME EntryBound == MaxEntries \in Nat

-------------------------------------------------------------------------------
(* A row: owner "none" if it names none; the classes are those of            *)
(* resource, account or subscription; capabilities are tags or an object     *)
(* that says whether the model reasons, never both.                          *)

ThinkingEfforts == {"low", "medium", "high", "xhigh", "max"}
NonChatKinds == {"embedding", "image", "audio", "speech", "moderation", "rerank"}

ParseResource(row) == IF row.class \in {"subscription", "metered-api", "other"} THEN row.class ELSE "unknown"

\* What the row says it is stands before its tags, and "non-chat" before "chat".
ParseCapability(row) ==
    CASE row.type \in {"chat", "non-chat", "unknown"} -> row.type
      [] row.type \in NonChatKinds -> "non-chat"
      [] OTHER -> IF "non-chat" \in row.tags THEN "non-chat"
                  ELSE IF "chat" \in row.tags THEN "chat"
                  ELSE IF row.tags \cap NonChatKinds # {} THEN "non-chat" ELSE "unknown"

\* reasons: "yes", "no", or "none" where nothing is said. levels: what a level is mapped to, "null" where
\* the model does without it, and nothing at all where there is no map. The two highest have to be named.
SupportedThinkingEfforts(row) ==
    {effort \in ThinkingEfforts :
        /\ row.reasons = "yes"
        /\ effort \in DOMAIN row.levels => row.levels[effort] # "null"
        /\ effort \in {"xhigh", "max"} => effort \in DOMAIN row.levels}

ParseEntry(row, url) ==
    [remote |-> row.id, label |-> row.owner, class |-> ParseResource(row), kind |-> ParseCapability(row),
     reasons |-> row.reasons, levels |-> row.levels, at |-> url]

-------------------------------------------------------------------------------
(* The catalogue: all of it, or an error.                                    *)

Error(kind) == [error |-> kind, entries |-> {}]
Errors == {"secret", "cancelled", "timeout", "transport", "auth", "http", "oversized", "malformed", "duplicate"}

\* The first row that is at fault tells the kind.
Faulty(rows, i) == rows[i].id = NoId \/ \E k \in 1..(i - 1) : rows[k].id = rows[i].id
Faults(rows) == {i \in DOMAIN rows : Faulty(rows, i)}

ParseCatalog(data, url) ==
    IF data = NoData THEN Error("malformed")
    ELSE IF Len(data) > MaxEntries THEN Error("oversized")
    ELSE IF Faults(data) # {}
      THEN LET first == CHOOSE i \in Faults(data) : \A k \in Faults(data) : i <= k
           IN  Error(IF data[first].id = NoId THEN "malformed" ELSE "duplicate")
    ELSE [error |-> "none", entries |-> {ParseEntry(data[i], url) : i \in DOMAIN data}]

-------------------------------------------------------------------------------
(* The request. ends: the caller or the deadline may cut it off up to its    *)
(* last byte, whatever came before; the body is bounded while it is read.    *)

Ends == {"answered", "aborted", "late", "broken"}

FetchCatalog(a, url) ==
    CASE a.ends = "aborted" -> Error("cancelled")
      [] a.ends = "late" -> Error("timeout")
      [] a.ends = "broken" -> Error("transport")
      [] OTHER -> IF a.status # 200 THEN Error(IF a.status \in {401, 403} THEN "auth" ELSE "http")
                  ELSE IF a.body = "oversized" THEN Error("oversized")
                  ELSE IF a.body = "text" THEN Error("malformed")
                  ELSE ParseCatalog(a.data, url)

\* A credential of the host's own is looked over before it is sent; any other is
\* resolved, which the caller may cut off too.
ListModels(a, url) ==
    CASE a.credential = "unusable" -> Error("secret")
      [] a.credential = "unresolved" -> Error(IF a.ends = "aborted" THEN "cancelled" ELSE "secret")
      [] OTHER -> FetchCatalog(a, url)
===============================================================================
