CONSTANTS
    Workers = {w1, w2}
    x = x
    x2 = x2
    y = y
    blank = blank
    odd = odd
    nul = nul
    Contents = {x, x2, y, blank, odd, nul}
    Hashes = {1, 2, 3, 4, 5}
    Hash <- MCHash
    Chunks <- MCChunks
    Defect <- MCDefect
    Payloads <- MCPayloads
    HasProvider = TRUE
SPECIFICATION Spec
INVARIANT AlertsAreIndependent
