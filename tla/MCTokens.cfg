SPECIFICATION MCSpec
CONSTANTS
    s1 = s1
    s2 = s2
    User = {ana, bob}
    Replica = {s1, s2}
    Req = {r1, r2, r3}
    Expiry = 3
    Second = 2
    Ahead <- Clocks
    MaxAhead = 1
    Gone = Gone
    NoJob = NoJob
    NoReplica = NoReplica
    MaxTime = 4
SYMMETRY Symmetry
\* Time ends at MaxTime, and every request is answered once.
CHECK_DEADLOCK FALSE
INVARIANTS
    TypeOK
    StalenessBounded
    TokensServeTheirTime
PROPERTIES
    RolesChangedByAdmins
