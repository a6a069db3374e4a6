\* Two runs of an agent, a delivery, a turn and a stop of the agent, under the
\* fairness of tick and poke; an event's insert may commit late.
CONSTANTS
    Runs = {1, 2}
    Deliveries = {d1}
    Turns = {u1}
    LateCommits = TRUE
    Bridge = TRUE
    MaxCrashes = 1
SPECIFICATION FairSpec
INVARIANTS OneActive
PROPERTIES PendingWaits Lifecycle NoRunHangs DecisionSettled
CHECK_DEADLOCK FALSE
