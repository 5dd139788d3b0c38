CONSTANTS Letters = {"a", "b"} GridRow = 2 GridCol = 4 MaxWord = 5
SPECIFICATION FindSpec
INVARIANT WordsFound
CHECK_DEADLOCK FALSE
