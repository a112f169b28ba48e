\* Two registrations at a time, crossing logins and e-mails.
SPECIFICATION FairSpec
CONSTANTS
    Processes = {p, q}
    Logins = {ana, bob}
    Addresses = {x, y}
    Passwords = {right, wrong}
    Ids = {i, j}
    None = None
INVARIANTS
    TypeOK
    ConflictsAreReal
PROPERTIES
    ImplementsDirectory
    RegistrationsEnd
