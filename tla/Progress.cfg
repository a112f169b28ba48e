\* An API process, whose clients complete their uploads, beside an event handler
\* with the role of infra/terraform/main.tf.
SPECIFICATION ClientSpec
CONSTANTS
    ApiProcesses = {api}
    LambdaProcesses = {lambda}
    Docs = {a, b}
    Sizes = {1, 2}
    Limit = 2
    Operations = {"upload", "presign_upload", "complete_upload", "update", "delete", "delete_project", "complete_upload_by_storage_key"}
    Faults = FALSE
    LambdaMayDelete = FALSE
    NoDoc = NoDoc
INVARIANTS
    NoStrayObject
PROPERTIES
    PendingUploadsResolve
    RequestsTerminate
\* A finite instance stops when its keys are used up.
CHECK_DEADLOCK FALSE
