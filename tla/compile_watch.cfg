SPECIFICATION Spec
CONSTANTS
    r1 = r1
    r2 = r2
    k1 = k1
    w1 = w1
    p1 = p1
    p2 = p2
    u2 = u2
    u1 = u1
    Requests = {r1, r2}
    Cancels = {k1}
    Watchers = {w1}
    Projects = {p1, p2}
    Users = {u1, u2}
    PerProject = 1
    PerUser = 1
    Retained = 0
    MaxCompiles = 2
    MaxFaults = 0
CONSTRAINT InStory
ACTION_CONSTRAINT AskInBounds
CHECK_DEADLOCK FALSE
INVARIANTS NoTransitionLost
