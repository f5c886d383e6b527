SPECIFICATION Spec
CONSTANTS
    Newline = nl
    Blanks = {sp}
    Bytes = {nl, sp, x, y}
    MaxResult = 2
    MaxChunk = 4
    MaxOutput = 7
CHECK_DEADLOCK FALSE
INVARIANTS
    LineIsResult
    MemoryBounded
