SPECIFICATION Spec
CONSTANTS
    Segments = {1, 2}
    Layouts <- SplitLayouts
    Plan <- TakePlan
    Size <- OneAndOne
    Strict = FALSE
    Frame = 2
    BudgetLimit = 4
    Chunked = {}
    Transformed = {}
    Masked = {}
    Txns = {"x"}
    Bounds <- ResyncBounds
INVARIANTS
    EveryChildHasOwner
    OpsHaveOwner
    ClosedIsReleased
CHECK_DEADLOCK FALSE
