\* One request at a time, a restart at any step, and one request in which writes fail.
SPECIFICATION Spec
CONSTANTS
    Profiles = {p1, p2}
    NoProfile = NoProfile
    Configs = {k1, k2}
    Optics = {o1}
    NoOptics = NoOptics
    Ranges = {r1, r2}
    NoRange = NoRange
    Clients = {c1}
INVARIANTS
    TypeOK
    AtMostOneDefault
    ActiveAgrees
PROPERTY BootsIntoChosen
CONSTRAINT OneFailure
