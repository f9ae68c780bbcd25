SPECIFICATION Spec
CONSTANTS
    Commands <- AllCommands
    Names <- MCNames
    MaxFaults = 1
    Vocabulary <- MCVocabulary
    ChunkSize = 3
    MaxChunk = 6
    MinRecommended = 4
INVARIANTS
    ReportIsComplete
    PairsBelongTogether
    
    
    
    ChunksFit
