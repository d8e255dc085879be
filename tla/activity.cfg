\* In steps of 10 s: the code's 30 s window, 10 s settle time, two 10 s time-outs.
SPECIFICATION Spec
CONSTANTS
    Positions = {p1}
    NoPosition = NoPosition
    Window = 3
    Settle = 1
    CommandTime = 2
    MaxPending = 2
INVARIANTS
    TypeOK
    RecentMotionIsOwn
PROPERTY
    ForeignSlewStopsFrames
