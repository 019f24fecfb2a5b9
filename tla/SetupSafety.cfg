\* Two browser requests, two sign-ins, a client that is rebuilt once, a gate
\* with one permit that a back-fill and a tool call compete for.
SPECIFICATION Spec
CONSTANTS
    t1 = t1  t2 = t2  a1 = a1  a2 = a2  q1 = q1  q2 = q2  c1 = c1  c2 = c2
    x1 = x1  x2 = x2  fill = fill  tool = tool
    None = None
    Token = {t1, t2}
    Sid = {a1, a2}
    Req = {q1, q2}
    Client = {c1, c2}
    KeyRoom = {x1}
    Job = {fill, tool}
    JobOf <- OneSlot
    MaxPkce = 1
    MaxSessions = 1
    MaxConcurrent = 1
    MaxRooms = 1
INVARIANTS TypeOK MapsBounded OneSessionPerLogin SpentNotReused GateBeforeKey PermitsConserved
SYMMETRY Symmetry
