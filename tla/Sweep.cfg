\* A tick and a poke, and two sweeps of at most four rounds, of which a database
\* call may hang or throw once.
CONSTANTS
    Ticks = {k1}
    Pokes = {k2}
    Sweeps = {1, 2}
    TIMEOUT = 1
    ITEM = 1
    GRACE = 2
    MAX_ABANDONED = 1
    ROUNDS = 4
    MaxTroubles = 1
SPECIFICATION FairSpec
INVARIANTS OwedIsNext HealthTells NotStacked
PROPERTIES PassesGoOn TailsResume
