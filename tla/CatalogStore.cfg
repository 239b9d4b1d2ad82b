SPECIFICATION Spec
CONSTANTS
    old = old  new = new  rival = rival  x = x  y = y
    build1 = build1  build2 = build2  v = v  w = w  m = m  p = p  q = q  cas = cas  out = out
    None = None
    Builders = {build1, build2}
    Advancers = {v, w}
    Artifacts = {old, new, rival}
    Blobs = {x, y}
    Payload <- MCPayload
    Supersedes <- MCSupersedes
    Main = m
    Private = {p, q}
    Dest <- MCDest
    Common = cas
    MaxBuilds = 3
SYMMETRY Symmetry
INVARIANTS RootComplete PrivatePersistent CurrentAdmitted
PROPERTY SuccessionChain
CHECK_DEADLOCK FALSE
