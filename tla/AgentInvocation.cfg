SPECIFICATION AgentSpec
CONSTANTS
    Results <- MCResults
    Documents <- MCDocuments
    Rank <- MCRank
    Depth <- MCDepth
    Chars <- MCChars
    TextCap = 4
    HistoryKeep = 1
    ResultCap = 14
    UNSET = UNSET
    Null = Null
    Absent = Absent
INVARIANTS
    HonestTruncation
    NothingOversized
    OmissionsCounted
