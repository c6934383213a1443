CONSTANTS
    Workers = {w1, w2}
    Correlations = {c1}
    lag = lag
    locks = locks
    Incidents = {lag, locks}
    Category <- MCCategory
    Limits = {2}
    Reports = {r1}
    Providers = {"mock"}
    Modulus = 3
    None = None
SPECIFICATION FairSpec
INVARIANTS TypeOK RetryKeepsMemory AnsweredMemoryHasReceipts OnlyNotifiedIsRemembered
PROPERTY DiagnosisEnds
