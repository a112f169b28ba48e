\* The event handler with the role of infra/terraform/main.tf, two attempts at
\* each batch, and files of which one size never fits.
SPECIFICATION ESpec
CONSTANTS
    ApiProcesses = {api}
    LambdaProcesses = {lambda}
    Docs = {a, b}
    Sizes = {1, 3}
    Limit = 2
    Operations = {"presign_upload", "complete_upload_by_storage_key"}
    Faults = TRUE
    LambdaMayDelete = FALSE
    MaxAttempts = 2
    NoDoc = NoDoc
PROPERTIES
    ImplementsLedger
    SuccessSettles
    FittingFilesAccepted
\* A finite instance stops when its keys are used up.
CHECK_DEADLOCK FALSE
