\* Listings page by page and recalls over two selectors, beside writes.
SPECIFICATION SearchSpec
CHECK_DEADLOCK FALSE
CONSTANTS
    MemoryRows = {1, 2, 3}
    ChunkRows = {4, 5}
    ChunkId <- OneChunk
    Contents <- RowContents
    Hits <- TextHits
    Selectors <- Nested
    Tables <- Starts
    Nothing = Nothing
    Limit = 2
    CandidateLimit = 4
    PageLimit = 1
    MaxEdits = 1
INVARIANTS
    SearchTypeOK
    WalkIsExact
    SteadyIsRecalled
