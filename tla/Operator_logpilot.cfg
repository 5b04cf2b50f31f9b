SPECIFICATION FairSpec
CONSTANTS
    MaxLogPilots = 2
    MaxEdits = 2
    MaxCerts = 2
    MaxDamage = 1
    Absent = Absent
INVARIANTS
    TypeOK
    NothingLeft
PROPERTIES
    CertKept
    Settles
