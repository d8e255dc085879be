\* Two files at a time; the first one is in a format that cannot be loaded.
SPECIFICATION Spec
CONSTANTS
    WindowSize = 6
    Frames = {1, 2}
    Unreadable = {1}
    Skies <- MCSkies
    SessionIds = {s1, s2}
    NoSession = NoSession
    MaxBadFrames = 3
INVARIANTS
    TypeOK
    ClearSkyGoesOn
PROPERTIES
    JudgedOnOwnFrames
    FramesAreObserved
