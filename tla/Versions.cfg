\* Three versions of an agent with daily schedules and an event, two passes that
\* overlap, and stops of the agent.
SPECIFICATION FairSpec
CONSTANTS
    Versions = {1, 2, 3}
    Passes = {p1, p2}
    Matchers = {m1}
    Events = {1}
    INTERVAL = 1
    MaxTime = 2
CHECK_DEADLOCK FALSE
INVARIANTS EnabledAreCurrent OnlyApproved
PROPERTIES SchedulesMoveOn DueIsQueued
