SPECIFICATION Spec
CONSTANTS
    UserId = {u1, u2}
    PatId = {p1, p2}
    OAuthIdentity = {google1}
    Email = {a}
    AdminEmail = a
    NoEmail = NoEmail
    Unused = Unused
    Gone = Gone
    NoUser = NoUser
    NoReplica = NoReplica
    Req = {r1}
    Jobs <- ProgressJobs
    Replica = {s1}
    MaxStops = 1
    Deletable = {}
\* Every request is answered in the end, and nothing follows.
CHECK_DEADLOCK FALSE
INVARIANTS
    BootstrapIsRepaired
