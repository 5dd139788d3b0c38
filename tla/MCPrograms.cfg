CONSTANTS
    Heads = {h1, h2}
    Elems = {e1, e2, e3}
    NULL = NULL
    Letters = {"a", "b"}
    GridRow = 2
    GridCol = 3
    MaxWord = 4
    ByteVals = {0, 77, 255}
    FILE_BUF_LEN = 4
    MaxFile = 5
    ChatClients = {c1, c2}
    MaxMsgs = 2
    Updaters = {u1, u2, u3}
    Blocking = {u1}
    Readers = {r1}
    MaxVar = 4
SPECIFICATION ProgSpec
INVARIANTS
    ListsSound FindSafe AttachSafe ChatSafe RcuSafe TurnsSafe
PROPERTIES
    ImplementsSeq FairProgress
CHECK_DEADLOCK FALSE
