SPECIFICATION Spec
CONSTANTS
    h1 = h1
    h2 = h2
    fast = fast
    spare = spare
    NoPrompt = NoPrompt
    Hosts = {h1}
    Cancellable = {}
    Routes = {fast, spare}
    Prompts <- UpdateOnly
    Pasts <- TwoMissions
    MaxLearned = 2
    MaxExplicit = 1
    MaxSeen = 3
    MaxInputs = 4
    MaxMoves = 0
INVARIANTS
    ContradictedIsAsked
CHECK_DEADLOCK FALSE
