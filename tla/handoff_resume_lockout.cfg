\* resume() says "call resume() again"; once Ekos runs, that is refused for ever.
SPECIFICATION FairSpec
CONSTANTS
    Kinds = {reverify}
    NoKind = NoKind
    MaxRetries = 1
    Clients = {c1}
PROPERTY ResumeCompletes
