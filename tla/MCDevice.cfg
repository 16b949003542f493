SPECIFICATION FairSpec
CONSTANTS
    Provider = {google, github}
    EmailsApart = {github}
    Person = {ana}
    DeviceCode = {d1}
    AuthCode = {}
    Req = {r1, r2}
    TTL = 2
    Second = 2
    Interval = 1
    SlowDown = 2
    MaxTime = 3
    MayRestart = TRUE
    Unused = Unused
    NoOne = NoOne
    NoJob = NoJob
    Never = Never
    Foreign = Foreign
\* Every client gets a final answer, and nothing follows.
CHECK_DEADLOCK FALSE
INVARIANTS
    TypeOK
    LoginIsApproved
PROPERTIES
    SlowDownOnlyForTheFraction
    AnswersAreTrue
    PollingEnds
