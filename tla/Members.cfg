\* Two sessions work on a project and its members, and may be cut off.
SPECIFICATION HSpec
CONSTANTS
    Processes = {p, q}
    Users = {ana, bob, carla}
    MemberIds = {m1, m2, m3}
    Texts = {t}
    Operations = {"create", "update", "delete", "grant", "remove", "upload"}
    Faults = TRUE
    NoUser = NoUser
    NoMember = NoMember
    NoText = NoText
    Unset = Unset
SYMMETRY Symmetry
INVARIANTS
    OneOwner
    UniqueMembership
    TypeOK
    AuthorisedEffects
PROPERTIES
    UpdateKeepsOtherFields
    RemovalKeepsNewMembers
    ImplementsAccess
\* A session waits for ever when the ids are used up.
CHECK_DEADLOCK FALSE
