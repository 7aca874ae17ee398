SPECIFICATION Spec
CONSTANTS
    h1 = h1
    h2 = h2
    A = A
    B = B
    NoUrl = NoUrl
    Rejected = Rejected
    Hosts = {h1, h2}
    External = {h2}
    Urls = {A, B}
    PiUrl = B
    Remotes = {"alpha", "beta"}
    StableRouteId <- StableRouteIdDef
    Replies <- RepliesDef
    MaxEntries = 2
    NoId = NoId
    NoData = NoData
    Past <- PastDef
    Imports <- ImportsDef
    Overrides <- OverridesDef
    Asked = {2}
    Edited = {"implementation"}
    MaxMoves = 3
PROPERTIES
    StaleAdviceIsLeft
CHECK_DEADLOCK FALSE
