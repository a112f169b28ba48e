\* Two API processes (a rolling deployment), with failures.
SPECIFICATION Spec
CONSTANTS
    ApiProcesses = {p, q}
    LambdaProcesses = {}
    Docs = {a, b}
    Sizes = {1, 2}
    Limit = 3
    Operations = {"upload", "presign_upload", "complete_upload", "update", "delete", "delete_project"}
    Faults = TRUE
    LambdaMayDelete = TRUE
    NoDoc = NoDoc
SYMMETRY Symmetry
INVARIANTS
    TypeOK
    RecordedTotalWithinLimit
    NoDeadlock
    NoStrayObject
PROPERTIES
    DeletionIsFinal
\* A finite instance stops when its keys are used up.
CHECK_DEADLOCK FALSE
