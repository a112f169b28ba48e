\* One API process and no event handler (the self-hosted deployment), with
\* failures between any two steps.
SPECIFICATION Spec
CONSTANTS
    ApiProcesses = {api}
    LambdaProcesses = {}
    Docs = {a, b, c}
    Sizes = {0, 1, 2}
    Limit = 3
    Operations = {"upload", "presign_upload", "complete_upload", "update", "delete", "delete_project"}
    Faults = TRUE
    LambdaMayDelete = TRUE
    NoDoc = NoDoc
SYMMETRY Symmetry
INVARIANTS
    LedgerExact
PROPERTIES
    ImplementsLedger
    VisibleOnlyWhenStored
    OnlyDeletionRemovesObject
\* A finite instance stops when its keys are used up.
CHECK_DEADLOCK FALSE
