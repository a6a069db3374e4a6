\* Two messages, the second of which may answer a question, and two drains
\* whose sends may outlive their leases.
SPECIFICATION ChatFairSpec
CONSTANTS
    Subs = {1, 2}
    Drains = {1, 2}
    MaxAttempts = 2
    MaxAsks = 1
    MaxCrashes = 1
CHECK_DEADLOCK FALSE
INVARIANTS InOrder RepeatsHaveCause
PROPERTIES AnsweredIsGone MessageSettles
