\* Two requests at a time, a good token and one that introspect refuses, two
\* sessions for a pool of one.
SPECIFICATION Spec
CONSTANTS
    r1 = r1  r2 = r2
    t1 = t1  t2 = t2
    s1 = s1  s2 = s2
    Req = {r1, r2}
    Token = {t1, t2}
    Unfit = {t2}
    Life = {2}
    MaxTtl = 2
    Timeout = 1
    Session = {s1, s2}
    Cap = 1
    Burst = 1
    MaxEntries = 2
    MaxRestarts = 1
    None = None
INVARIANTS TypeOK NotServedPastExp PoolWithinCap
PROPERTIES StaleAdmissionBounded DurableSessions
SYMMETRY Symmetry
CHECK_DEADLOCK FALSE
