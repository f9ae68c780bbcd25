SPECIFICATION Spec
CONSTANTS
    Commands <- HeadCommands
    Names <- MCNames
    MaxFaults = 0
    Vocabulary <- MCVocabulary
    ChunkSize = 3
    MaxChunk = 6
    MinRecommended = 4
INVARIANT
    PathIsAncestry
