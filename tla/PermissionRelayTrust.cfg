\* Two tasks while the account data and the membership change: one session and
\* one prompt, two rooms, a friend the account data allows or not.
SPECIFICATION Spec
CONSTANTS
    m1 = m1  k1 = k1  k2 = k2  p1 = p1  p2 = p2  p3 = p3  t1 = t1  t2 = t2
    r1 = r1  r2 = r2  friend = friend   i1 = i1  i2 = i2
    None = None
    Mxid = {m1}
    Key = {k1}
    Peer = {p1}
    KeyOf <- Handshakes
    OwnerOf <- OneAccount
    Task = {t1, t2}
    RequestId = {i1}
    Room = {r1, r2}
    Sender = {m1, friend}
    Configs <- Either
    AllowlistTtl = 1
    PendingTtl = 1
    PendingMax = 1
    MaxPrompts = 1
    MaxEdits = 1
SYMMETRY Symmetry
INVARIANTS
    OnlyAllowlistedReach
    PromptOnlyWhereTrusted
