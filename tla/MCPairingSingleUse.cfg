CONSTANTS
    e1 = e1
    e2 = e2
    r1 = r1
    p1 = p1
    p2 = p2
    s1 = s1
    s2 = s2
    Pairings = {e1, e2}
    Revocations = {r1}
    Peers = {p1, p2}
    Secrets = {s1, s2}
    NoSecret = NoSecret
SPECIFICATION Spec
SYMMETRY Symmetry
INVARIANT SecretSingleUse
CHECK_DEADLOCK FALSE
