\* Two concurrent requests of one account, and one restart.
SPECIFICATION Spec
CONSTANTS
    u1 = u1  u2 = u2  r1 = r1  r2 = r2  r3 = r3  b1 = b1  b2 = b2
    c1 = c1  c2 = c2  c3 = c3  c4 = c4
    User = {u1}
    Req = {r1, r2}
    Bearer = {b1}
    DeviceBound = {b1}
    UserOf <- OneUser
    BearerOf <- OneToken
    Cell = {c1, c2, c3}
    None = None
    MaxRestarts = 1
SYMMETRY Symmetry
INVARIANTS
    TypeOK
    AtMostOneWipe
    NoDeadClientServed
    OneBuilderPerCell
PROPERTIES
    WipeOnlyRecoverable
    CallAdvances
