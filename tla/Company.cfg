\* One company, one or two rows about it with two attempts each, under fair
\* dispatch and sign-ins.
CONSTANTS
    t1 = t1
    t2 = t2
    Tasks = {t1, t2}
    Subjects = {c1}
    Kinds = {"identify", "brand"}
    NoSubject = none
    MAX_ATTEMPTS = 2
    Sweepers = {w1}
    BATCH = 1
    MaxCrashes = 1
    Domains = {"a", "b"}
    Budgets <- MCBudgets
SPECIFICATION CompanyFairSpec
INVARIANT RunningIsWatched
PROPERTIES Queue CompleteKept EveryTaskEnds NotForgotten
CHECK_DEADLOCK FALSE
