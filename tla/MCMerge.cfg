SPECIFICATION Spec
CONSTANTS
    Member <- Members
    Pref = {"court_side", "handedness"}
    Mandatory = {"display_name"}
    Country = {"ES", "FR", "XX"}
    ISOCountry = {"ES", "FR"}
    Region = {"ES-MD", "ES-ZZ", "FR-IDF"}
    ISORegion = {"ES-MD", "FR-IDF"}
    CountryOf <- CountryOfRegion
    Text = {"Ana", "x", "both"}
    NewName = "Ana"
    Null = Null
    Absent = Absent
    Malformed = Malformed
    NoProfile = NoProfile
    Deleted = Deleted
    Req = {r1, r2}
    Patches <- MergePatches
SYMMETRY Symmetry
\* Every request is answered in the end, and nothing follows.
CHECK_DEADLOCK FALSE
INVARIANTS
    TypeOK
    LocationConsistent
PROPERTIES
    ConflictOnlyAfterChange
    MergesAtomically
