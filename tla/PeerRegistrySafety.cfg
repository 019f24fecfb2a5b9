\* Two pushes, two accounts, three sessions, one of which reconnects.
SPECIFICATION Spec
CONSTANTS
    m1 = m1  m2 = m2  k1 = k1  k2 = k2  k3 = k3
    p1 = p1  p2 = p2  p3 = p3  p4 = p4  n1 = n1  n2 = n2
    None = None
    Mxid = {m1, m2}
    Key = {k1, k2, k3}
    Peer = {p1, p2, p3, p4}
    KeyOf <- Handshakes
    OwnerOf <- Owners
    Push = {n1, n2}
SYMMETRY Symmetry
INVARIANT TypeOK
PROPERTIES ImplementsPeerMap EvictionFollowsFailure
