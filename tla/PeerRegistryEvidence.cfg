\* One account whose session reconnects during a push.
SPECIFICATION Spec
CONSTANTS
    m1 = m1  m2 = m2  k1 = k1  k2 = k2  k3 = k3
    p1 = p1  p2 = p2  p3 = p3  p4 = p4  n1 = n1  n2 = n2
    None = None
    Mxid = {m1}
    Key = {k1, k2}
    Peer = {p1, p2, p3}
    KeyOf <- Handshakes
    OwnerOf <- Owners
    Push = {n1}
PROPERTY EvictionHasEvidence
