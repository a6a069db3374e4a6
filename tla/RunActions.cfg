\* A note and a post, two executions and a stop of the agent.
CONSTANTS
    Notes = {2}
    Posts = {1}
    Execs = {e1, e2}
    NoActionTrigger = TRUE
    MaxCrashes = 1
SPECIFICATION Spec
SYMMETRY ExecSymmetry
INVARIANTS ApprovedOnly WaitingHasRequest SuccessIsEarned LedgerTells DeliveryRecorded
CHECK_DEADLOCK FALSE
