\* Three exposures; a recovery or a connect never beside a capture.
SPECIFICATION Spec
CONSTANTS
    MaxShots = 3
    Overlap = FALSE
INVARIANTS
    TypeOK
    DeletedIsSaved
    NoLightTwice
PROPERTY RecoveredIsClean
