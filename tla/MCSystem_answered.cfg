SPECIFICATION Spec
CONSTANTS
    alice = alice
    bob = bob
    c1 = c1
    t1 = t1
    t2 = t2
    s1 = s1
    s2 = s2
    None = None
    Identities = {alice}
    Contexts = {c1}
    Tasks = {t1, t2}
    Sessions = {s1, s2}
    Requests = {r1, r2, r3}
    Controls = {}
    OldThreads = {s1}
    Calls <- OneCaller
CHECK_DEADLOCK FALSE
SYMMETRY Symmetry
INVARIANTS AnsweredUnlessCancelled
