CONSTANTS
    Threads = {th1, th2}
    thread1 = th1
    thread2 = th2
SPECIFICATION TCSpec
PROPERTY DestroyReturnsEBUSY
CHECK_DEADLOCK FALSE
