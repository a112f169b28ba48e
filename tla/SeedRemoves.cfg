\* A user's project with the name of a sample project.
SPECIFICATION Spec
CONSTANTS
    DemoNames = {alpha}
    OtherName = OtherName
    DemoFiles = {f}
    UserKeys = {u}
    MaxId = 2
PROPERTIES
    UserProjectsStay
