CONSTANTS
    None = None
    MaxGen = 3
    BranchLimit = 2
    DepthLimit = 2
    NumParents = 2
    Methods = {"latest", "best", "ucb"}
    Scores = {0, 1}
    MaxCrashes = 1
SPECIFICATION Spec
INVARIANTS LogSound
PROPERTIES ImplementsAtomicTree
