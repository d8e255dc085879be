\* One request at a time: every interleaving with Ekos and the broker.
SPECIFICATION FairSpec
CONSTANTS
    Kinds = {reverify, autofocus}
    NoKind = NoKind
    MaxRetries = 2
    Clients = {c1}
INVARIANTS
    TypeOK
    EndedMeansReleased
    WindowMatchesSession
    InterventionIsRecorded
PROPERTIES
    HandoverConfirmed
    ImplementsSemaphore
    InterventionEnds
