\* Two calls of one account under two tokens, every tool; two write cells.
SPECIFICATION Spec
CONSTANTS
    c1 = c1  c2 = c2
    t1 = t1  t2 = t2
    e1 = e1  e2 = e2
    Call = {c1, c2}
    Token = {t1, t2}
    Sub = Sub
    Event = {e1}
    Offered <- AllPaths
    Quota <- MCQuota
    MaxFan = 2
    MaxRefills = 1
    None = None
INVARIANTS TypeOK WritesWithinQuota RetrySafe
PROPERTY EvictionNotUndone
SYMMETRY Symmetry
CHECK_DEADLOCK FALSE
