CONSTANTS
    Workers = {w1, w2}
    Correlations = {c1}
    lag = lag
    locks = locks
    Incidents = {lag, locks}
    Category <- MCCategory
    Limits = {1, 2}
    Reports = {r1}
    Providers = {"mock", "gemini"}
    Modulus = 3
    None = None
SPECIFICATION HealthySpec
INVARIANT RcaIsRemembered
