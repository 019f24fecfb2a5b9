\* Two connections of one account; the second one's token has no device id.
SPECIFICATION FairSpec
CONSTANTS
    u1 = u1  u2 = u2  r1 = r1  r2 = r2  r3 = r3  b1 = b1  b2 = b2
    c1 = c1  c2 = c2  c3 = c3  c4 = c4
    User = {u1}
    UserOf <- OneUser
    None = None
    Req = {r1, r2}
    Cell = {c1, c2, c3}
    Bearer = {b1, b2}
    BearerOf <- TwoTokens
    DeviceBound = {b1}
    MaxRestarts = 0
PROPERTIES
    EveryCallReturns
    EvictedClientStops
