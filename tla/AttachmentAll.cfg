CONSTANTS ByteVals = {0, 1, 77, 130, 255} FILE_BUF_LEN = 4 MaxFile = 5
SPECIFICATION AttachSpec
INVARIANT FilesArrive
CHECK_DEADLOCK FALSE
