\* The event handler with the role infra/terraform/main.tf gives it.
SPECIFICATION DeliverySpec
CONSTANTS
    ApiProcesses = {api}
    LambdaProcesses = {lambda}
    Docs = {a}
    Sizes = {1, 2}
    Limit = 1
    Operations = {"presign_upload", "complete_upload_by_storage_key"}
    Faults = FALSE
    LambdaMayDelete = FALSE
    NoDoc = NoDoc
PROPERTIES
    PendingUploadsResolve
\* A finite instance stops when its keys are used up.
CHECK_DEADLOCK FALSE
