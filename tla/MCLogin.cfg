SPECIFICATION Spec
CONSTANTS
    UserId = {u1, u2, u3, u4}
    PatId = {p1}
    OAuthIdentity = {google1, github1}
    Email = {a, b}
    AdminEmail = a
    NoEmail = NoEmail
    Unused = Unused
    Gone = Gone
    NoUser = NoUser
    NoReplica = NoReplica
    Req = {r1, r2, r3}
    Jobs <- AccountJobs
    Replica = {s1}
    MaxStops = 1
SYMMETRY Symmetry
\* Every request is answered in the end, and nothing follows.
CHECK_DEADLOCK FALSE
INVARIANTS
    TypeOK
    UniqueKeys
    OneAccountPerIdentity
    LoginLeavesProfile
    TokenHasCurrentRole
    DeletedUserGetsNoToken
PROPERTIES
    AccountChangesOnlyByItsOwner
    RequestsAreAtomic
