\* TrustCap and ConfidenceCap are scaled down so that four sources of one memory reach them.
CONSTANTS
    Workers = {w1, w2}
    a = a
    b = b
    c = c
    d = d
    f = f
    wide = wide
    odd = odd
    empty = empty
    late = late
    Events = {a, b, c, d, f, wide, odd, empty, late}
    SourceIds = {1, 2, 3, 4, 5}
    MemoryKeys = {"m1", "m2", "long"}
    Items = {"dimension", "metric"}
    Times = {1, 2, 3}
    SourceIdentifier <- MCSourceIdentifier
    MemoryKey <- MCMemoryKey
    Evidence <- MCEvidence
    EventTimes <- MCEventTimes
    Defect <- MCDefect
    TrustCap = 2
    ConfidenceCap = 3
    None = None
SPECIFICATION Spec
INVARIANT LastSeenIsLatest
