SPECIFICATION FairSpec
CONSTANTS
    Blank = "blank"
    BatchSize = 1
    Docs = {d1}
    Profiled = {d1}
    Contents <- MCContents
    Extractors = {x1, x2}
    Embedders = {e1}
    None = None
    MaxFaults = 2
INVARIANTS
    TypeOK
    
    
    EqualCountsAreAligned
    SettledLlmJobIsRecorded
PROPERTY ProfiledDocumentIsEmbedded
CHECK_DEADLOCK FALSE
