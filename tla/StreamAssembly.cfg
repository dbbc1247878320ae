SPECIFICATION Spec
CONSTANTS
    p = p
    q = q
    r1 = r1
    r2 = r2
    x = x
    c1 = c1
    c2 = c2
    f = f
    g = g
    u = u
    a = a
    s1 = s1
    None = None
    Blank = Blank
    Providers = {p, q}
    Names = {r1, r2, x, c1, c2, f, g, u}
    Letters = {a}
    Schemas = {s1}
    Validated <- MCValidated
    Requests <- MCRequests
    Events <- MCEvents
    MaxEvents = 5
INVARIANTS
    AcceptedIsLawful
    RefusedIsUnlawful
CHECK_DEADLOCK FALSE
