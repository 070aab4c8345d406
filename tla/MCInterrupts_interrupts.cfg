SPECIFICATION InterruptsSpec
CONSTANTS
    ann = ann
    bob = bob
    cb1 = cb1
    cb2 = cb2
    home = home
    other = other
    None = None
    Callbacks = {cb1, cb2}
    Identities = {ann, bob}
    IdentityOf <- OneEach
    Sessions = {home, other}
    Session = home
    Claim = bob
    MaxRequests = 2
    RequestTTL = 1
    MaxClock = 1
    TTL = 1
    MaxSize = 1
CHECK_DEADLOCK FALSE
INVARIANTS InterruptsTypeOK OpenIsPending CacheIsBounded
PROPERTIES AnsweredIsGone OwnersAreLossyMap RepliesAreTrue
