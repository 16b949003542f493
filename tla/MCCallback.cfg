SPECIFICATION Spec
CONSTANTS
    Provider = {google, github}
    EmailsApart = {github}
    Person = {ana, bob}
    DeviceCode = {}
    AuthCode = {c1, c2}
    Req = {r1, r2}
    TTL = 2
    Second = 2
    Interval = 3
    SlowDown = 2
    MaxTime = 4
    MayRestart = TRUE
    Unused = Unused
    NoOne = NoOne
    NoJob = NoJob
    Never = Never
    Foreign = Foreign
SYMMETRY Symmetry
\* Every client gets a final answer, and nothing follows.
CHECK_DEADLOCK FALSE
INVARIANTS
    OneRequestPerCode
    LoginIsApproved
PROPERTIES
    AnswersAreTrue
