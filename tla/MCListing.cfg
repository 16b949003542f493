SPECIFICATION Spec
CONSTANTS
    UserId = {1, 2, 3, 4}
    Name = {1, 2}
    AccountName <- Names
    NoProfile = NoProfile
    MaxInt = 7
    MaxPageSize = 2
    Pages = {0, 1, 2, 7}
    Sizes = {1, 2, 3}
    MaxWrites = 3
\* The client stops after one walk or one profile, the others at MaxWrites.
CHECK_DEADLOCK FALSE
INVARIANTS
    TypeOK
    MissedOnlyWhenRowsMove
    RepeatedOnlyWhenRowsCome
    UnmovedListIsReadOnce
PROPERTIES
    SettledUsersAreFound
