SPECIFICATION FairSpec
CONSTANTS
    Syncs = {1, 2}
    MaxMail = 4
    Batch = 2
    HistoryPage = 3
    Instances <- MCInstances
INVARIANTS
    NothingMissed
    ForwardOnly
PROPERTIES
    MailArrives
CHECK_DEADLOCK FALSE
