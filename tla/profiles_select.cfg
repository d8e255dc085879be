\* A node without a default profile, and an operator who selects one.
SPECIFICATION Spec
CONSTANTS
    Profiles = {p1}
    NoProfile = NoProfile
    Configs = {k1}
    Optics = {o1}
    NoOptics = NoOptics
    Ranges = {r1}
    NoRange = NoRange
    Clients = {c1}
INVARIANT SelectionLeavesPause
