\* Two uploads at the same time.
SPECIFICATION Spec
CONSTANTS
    ApiProcesses = {p, q}
    LambdaProcesses = {}
    Docs = {a, b}
    Sizes = {2}
    Limit = 3
    Operations = {"upload"}
    Faults = FALSE
    LambdaMayDelete = TRUE
    NoDoc = NoDoc
INVARIANTS
    LiveBytesWithinLimit
\* A finite instance stops when its keys are used up.
CHECK_DEADLOCK FALSE
