SPECIFICATION FairSpec
CONSTANTS
    c1 = c1
    c2 = c2
    None = None
    Callers = {c1, c2}
    Turns = {c1}
    Untimed = {}
    MaxProcesses = 2
CHECK_DEADLOCK FALSE
INVARIANTS TypeOK OneStarter AwaitedIsRegistered CompletionIsHeard SuccessIsGenuine NothingBeforeHandshake
PROPERTIES TimedCallsEnd
