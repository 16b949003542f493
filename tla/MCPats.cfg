SPECIFICATION Spec
CONSTANTS
    UserId = {u1, u2}
    PatId = {p1, p2, p3, p4}
    OAuthIdentity = {google1}
    Email = {a}
    AdminEmail = a
    NoEmail = NoEmail
    Unused = Unused
    Gone = Gone
    NoUser = NoUser
    NoReplica = NoReplica
    Req = {r1, r2, r3}
    Jobs <- PatJobs
    Replica = {s1}
    MaxStops = 0
SYMMETRY Symmetry
\* Every request is answered in the end, and nothing follows.
CHECK_DEADLOCK FALSE
INVARIANTS
    References
    DeadPATGivesNoToken
PROPERTIES
    RequestsAreAtomic
