CONSTANTS
    Threads = {t1, t2, t3}
SPECIFICATION CancelSpec
INVARIANT CancelWakesReaders
