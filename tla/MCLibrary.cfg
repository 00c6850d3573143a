CONSTANTS
    Threads = {t1, t2}
    MaxCalls = 3
    nullptr = nullptr
    Logs = {log1, log2}
    MaxTime = 2
    FileTimes = {0, 2}
    Ids = {id1, id2}
    Keys = {key1}
    Values = {v1}
    NoValue = NoValue
    Absent = Absent
    Texts <- MCTexts
    FillStep = 32
    Garbage = Garbage
SPECIFICATION Spec
CHECK_DEADLOCK FALSE
SYMMETRY MCSymmetry
INVARIANTS
    TypeOK
    StampOfAnOverlappingUse
    
    ValuesLostOnlyByDoubleInsert
    SessionsAreThere
    DecodesWhatWasEncoded
    TableIsCompletedInTheEnd
