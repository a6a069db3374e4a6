\* Two rows about one contact, of a first look, a recheck or a meeting, under a
\* sweep and a stop of the agent.
CONSTANTS
    Tasks = {t1, t2}
    Subjects = {c1}
    Kinds = {"identify", "recheck", "meeting-prep"}
    NoSubject = none
    MAX_ATTEMPTS = 1
    Sweepers = {w1}
    BATCH = 1
    MaxCrashes = 1
SPECIFICATION Spec
SYMMETRY RowSymmetry
PROPERTY FreshRequestKept
CHECK_DEADLOCK FALSE
