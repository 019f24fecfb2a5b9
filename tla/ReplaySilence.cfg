\* As ReplaySafety, without fairness.
SPECIFICATION Spec
CONSTANTS
    r1 = r1  r2 = r2  s1 = s1  s2 = s2
    None = None
    Room = {r1, r2}
    Session = {s1, s2}
    Event <- Events
    Backlogs <- Missed
    Live <- Sent
    ReplayMax = 3
    ReplayMaxRooms = 2
    ReplayMaxTotal = 2
    MaxLen = 5
    MaxPosts = 1
    MaxAcks = 1
CHECK_DEADLOCK FALSE
INVARIANT SilenceNever
