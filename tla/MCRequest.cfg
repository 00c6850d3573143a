CONSTANTS
    Texts <- MCTexts
    Requests <- MCRequests
    CookieNames = {"k", "l"}
    FourLetters <- MCFourLetters
    Beginnings <- MCBeginnings
    Instant <- MCInstant
SPECIFICATION Spec
CHECK_DEADLOCK FALSE
INVARIANTS
    TypeOK
    NoFaultIsHealed
    DatesMeanTheirInstants
    DatesNeedBareLineFeeds
    EndsOnlyByMalformedOrCutLine
    HeadDecides
    CutRequestLosesOnlyItsEnd
