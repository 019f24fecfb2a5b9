\* One call after the other pins two messages of a room.
SPECIFICATION Spec
CONSTANTS
    c1 = c1  c2 = c2
    t1 = t1  t2 = t2
    e1 = e1  e2 = e2
    Call = {c1}
    Token = {t1}
    Sub = Sub
    Event = {e1, e2}
    Offered <- PinPaths
    Quota <- MCQuota
    MaxFan = 1
    MaxRefills = 1
    None = None
PROPERTY PinChangesOne
CHECK_DEADLOCK FALSE
