\* Two tasks, one account with two sessions (one of them reconnects), a cap of
\* one pending prompt.
SPECIFICATION Spec
CONSTANTS
    m1 = m1  k1 = k1  k2 = k2  p1 = p1  p2 = p2  p3 = p3  t1 = t1  t2 = t2
    r1 = r1  r2 = r2  friend = friend   i1 = i1  i2 = i2
    None = None
    Mxid = {m1}
    Key = {k1, k2}
    Peer = {p1, p3}
    KeyOf <- Handshakes
    OwnerOf <- OneAccount
    Task = {t1, t2}
    RequestId = {i1, i2}
    Room = {r1}
    Sender = {m1, friend}
    Configs <- Either
    AllowlistTtl = 1
    PendingTtl = 1
    PendingMax = 1
    MaxPrompts = 2
    MaxEdits = 0
SYMMETRY Symmetry
INVARIANTS
    TypeOK
    PendingBounded
    StaysAnswerable
    AnsweredIsRetired
    VerdictReachesAsker
