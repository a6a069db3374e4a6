\* Two requests about one contact, two decisions in flight, one worker that may
\* stop, under fair ticks.
CONSTANTS
    Requests = {r1, r2}
    Contacts = {c1}
    Ops = {o1}
    Workers = {w1}
    Deciders = {d1, d2}
    BATCH = 1
    LEASE = 1
    TIMEOUT = 1
    MaxRevision = 1
    MaxCrashes = 1
SPECIFICATION FairSpec
INVARIANTS StatusAgrees
PROPERTIES RightRevision EveryRequestAnswered
CHECK_DEADLOCK FALSE
