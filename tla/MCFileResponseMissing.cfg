CONSTANTS
    w1 = w1
    w2 = w2
    host = host
    path = path
    file1 = file1
    page = page
    nullptr = nullptr
    Workers = {w1, w2}
    Page = page
    TTL = 1
    Boot = 1
    Zone <- MCZone
    Keys <- MCKeys
    Static <- MCKeys
    Files = {file1, page}
    FileOf <- MCFileOf
    MaxTime = 3
    MaxVersion = 2
SPECIFICATION Spec
INVARIANTS
    MissingFileGets404
CHECK_DEADLOCK FALSE
