SPECIFICATION FairSpec
CONSTANTS
    UserId = {u1, u2, u3}
    PatId = {p1, p2}
    OAuthIdentity = {google1}
    Email = {a, b}
    AdminEmail = a
    NoEmail = NoEmail
    Unused = Unused
    Gone = Gone
    NoUser = NoUser
    NoReplica = NoReplica
    Req = {r1, r2}
    Jobs <- ProgressJobs
    Replica = {s1, s2}
    MaxStops = 1
    Deletable = {u1}
\* Every request is answered in the end, and nothing follows.
CHECK_DEADLOCK FALSE
INVARIANTS
    OneBootstrapAdmin
    LateBootstrapIsHarmless
PROPERTIES
    RequestsAreAnswered
    EveryReplicaServes
