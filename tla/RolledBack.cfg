\* One draft, deployed, revised, and deployed again.
SPECIFICATION Spec
CONSTANTS
    Versions = {1, 2}
    Passes = {p1}
    Matchers = {m1}
    Events = {1}
    INTERVAL = 1
    MaxTime = 1
CHECK_DEADLOCK FALSE
INVARIANT LiveHasTriggers
