CONSTANTS
    w1 = w1
    w2 = w2
    host = host
    path = path
    file1 = file1
    page = page
    nullptr = nullptr
    Workers = {w1, w2}
    Page = file1
    TTL = 1
    Boot = 1
    Zone <- MCZone
    Keys <- MCKeys
    Static <- MCKeys
    Files = {file1}
    FileOf <- MCFileOf
    MaxTime = 3
    MaxVersion = 2
SPECIFICATION Spec
SYMMETRY MCSymmetry
INVARIANTS
    TypeOK
    CacheAgeBounded
    WrongNotModifiedHasCause
CHECK_DEADLOCK FALSE
