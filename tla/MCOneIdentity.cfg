SPECIFICATION Spec
CONSTANTS
    UserId = {u1, u2}
    PatId = {p1}
    OAuthIdentity = {google1}
    Email = {a}
    AdminEmail = NoEmail
    NoEmail = NoEmail
    Unused = Unused
    Gone = Gone
    NoUser = NoUser
    NoReplica = NoReplica
    Req = {r1, r2}
    Jobs <- Logins
    Replica = {s1}
    MaxStops = 0
\* Every request is answered in the end, and nothing follows.
CHECK_DEADLOCK FALSE
INVARIANTS
    RejectedOnlyForAnotherAccount
