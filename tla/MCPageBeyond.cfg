SPECIFICATION Spec
CONSTANTS
    UserId = {1, 2, 3}
    Name = {1, 2}
    AccountName <- Names
    NoProfile = NoProfile
    MaxInt = 7
    MaxPageSize = 3
    Pages = {1, 7}
    Sizes = {3}
    MaxWrites = 1
\* The client stops after one walk or one profile, the others at MaxWrites.
CHECK_DEADLOCK FALSE
INVARIANTS
    PageBeyondTotalIsEmpty
