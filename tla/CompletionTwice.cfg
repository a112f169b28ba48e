\* A client completes an upload while the event of its object is handled.
SPECIFICATION Spec
CONSTANTS
    ApiProcesses = {api}
    LambdaProcesses = {lambda}
    Docs = {a}
    Sizes = {1, 2}
    Limit = 3
    Operations = {"presign_upload", "complete_upload", "complete_upload_by_storage_key"}
    Faults = FALSE
    LambdaMayDelete = FALSE
    NoDoc = NoDoc
PROPERTIES
    CompletionIdempotent
\* A finite instance stops when its keys are used up.
CHECK_DEADLOCK FALSE
