\* One user with two projects and two asynchronous functions at once.
SPECIFICATION Spec
CONSTANTS
    Users = {ana}
    Projects = {x, y}
    Tasks = {s, t}
    MaxEdits = 1
    NoToken = NoToken
    NoUser = NoUser
    NoProject = NoProject
INVARIANTS
    TypeOK
PROPERTIES
    LoadingEnds
    SessionSettles
    OwnEditsShown
