CONSTANTS
    Procs = {p1, p2, p3}
    Creators = {p1, p2}
    Exclusive = {}
    Failing = {p1, p2}
    Unlinkers = {}
    Mortal = {}
    MAX_TRIES = 2
    MaxFiles = 3
SPECIFICATION OpenSpec
INVARIANT OpenedInitialised
CHECK_DEADLOCK FALSE
