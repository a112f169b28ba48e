\* One sample file, one upload, and up to three projects over all runs.
SPECIFICATION Spec
CONSTANTS
    DemoNames = {alpha}
    OtherName = OtherName
    DemoFiles = {f}
    UserKeys = {u}
    MaxId = 3
INVARIANTS
    MissingOnlyAfterFailure
    TotalsExact
PROPERTIES
    SeedComplete
