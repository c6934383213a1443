\* Cited is scaled down from 5 so that the receipts of two events are more than are shown.
CONSTANTS
    e1 = e1
    e2 = e2
    e3 = e3
    Events = {e1, e2, e3}
    Payload <- MCPayload
    Queries <- MCQueries
    Limits = {1, 2}
    Window = 1
    Cited = 2
    None = None
SPECIFICATION Spec
INVARIANT AnsweredByAnchor
