\* One capture after another: the first one succeeds, the second one fails.
SPECIFICATION Spec
CONSTANTS
    MaxShots = 2
    Overlap = FALSE
PROPERTY FreshFrame
