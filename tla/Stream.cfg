SPECIFICATION Spec
CONSTANTS
    Upper <- UpperOf
    Stream <- Streams
    Chunk = 3
    Quit <- QuitWord
INVARIANTS
    ChunksDoNotMatter
    ParamsAreWords
    ReadBack
PROPERTIES
    StreamExecuted
CHECK_DEADLOCK FALSE
