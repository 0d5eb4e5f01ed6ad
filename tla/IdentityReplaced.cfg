CONSTANTS
    Managers = {m1}
    MaxKeys = 5
    Absent = Absent
    Torn = Torn
SPECIFICATION IdentitySpec
PROPERTY
    CreatesOnlyIfNone
