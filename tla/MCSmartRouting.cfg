SPECIFICATION Spec
CONSTANTS
    h1 = h1
    h2 = h2
    fast = fast
    spare = spare
    NoPrompt = NoPrompt
    Hosts = {h1, h2}
    Cancellable = {h1}
    Routes = {fast, spare}
    Prompts <- PromptsDef
    Pasts <- PastsDef
    MaxLearned = 1
    MaxExplicit = 1
    MaxSeen = 3
    MaxInputs = 2
    MaxMoves = 1
INVARIANTS
    RepeatedEvidence
    RiskStaysAsked
PROPERTIES
    RollbackIsAlone
CHECK_DEADLOCK FALSE
