SPECIFICATION Spec
CONSTANTS
    c1 = c1
    c2 = c2
    None = None
    Callers = {c1, c2}
    Turns = {c1, c2}
    Untimed = {}
    MaxProcesses = 1
CHECK_DEADLOCK FALSE
INVARIANTS LoopOutlivesRequests
