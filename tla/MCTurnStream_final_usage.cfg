SPECIFICATION Spec
CONSTANTS
    m1 = m1
    m2 = m2
    r1 = r1
    x1 = x1
    u1 = u1
    ann = ann
    cb1 = cb1
    cb2 = cb2
    home = home
    None = None
    Items = {m1, m2, r1, x1, u1}
    FlushChars = 2
    MaxQueue = 2
    Scenarios <- OneScenario
    Callbacks = {cb1, cb2}
    Identities = {ann}
    IdentityOf <- OneEach
    Sessions = {home}
    Session = home
    Claim = None
    MaxRequests = 1
    RequestTTL = 1
    MaxClock = 1
    TTL = 1
    MaxSize = 1
CHECK_DEADLOCK FALSE
INVARIANTS FinalHasCounts
