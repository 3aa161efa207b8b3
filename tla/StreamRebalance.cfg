SPECIFICATION Spec
CONSTANTS
    Segments = {1, 2}
    Layouts <- SplitLayouts
    Plan <- MovePlan
    Size <- TwoAndOne
    Strict = TRUE
    Frame = 2
    BudgetLimit = 3
    Chunked <- FirstOfTwo
    Transformed <- FirstOfOne
    Masked = {}
    Txns = {}
    Bounds <- RebalanceBounds
INVARIANTS
    BudgetRespected
    BarrierExact
    OrderRespected
    AckedWasSeen
    QuiescentIsDrained
CHECK_DEADLOCK FALSE
