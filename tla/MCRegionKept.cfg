SPECIFICATION Spec
CONSTANTS
    Member <- Location
    Pref = {}
    Mandatory = {}
    Country = {"ES", "FR"}
    ISOCountry = {"ES", "FR"}
    Region = {"ES-MD", "FR-IDF"}
    ISORegion = {"ES-MD", "FR-IDF"}
    CountryOf <- CountryOfTwo
    Text = {"Ana"}
    NewName = "Ana"
    Null = Null
    Absent = Absent
    Malformed = Malformed
    NoProfile = NoProfile
    Deleted = Deleted
    Req = {r1, r2}
    Patches <- LocationPatches
\* Every request is answered in the end, and nothing follows.
CHECK_DEADLOCK FALSE
PROPERTIES
    RegionClearedOnlyByCountryChange
