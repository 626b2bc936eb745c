CONSTANTS
    me = me
    boss = boss
    Users = {me, boss}
    Admins = {me, boss}
    r1 = r1
    r2 = r2
    Requests = {r1, r2}
    GrantsOverlap = FALSE
    Me = me
    t1 = t1
    t2 = t2
    t3 = t3
    Tokens = {t1, t2, t3}
    NoToken = NoToken
    k1 = k1
    k2 = k2
    Calls = {k1, k2}
    e1 = e1
    e2 = e2
    Exchanges = {e1, e2}
    MaxLosses = 1
SPECIFICATION SessionsSpec
INVARIANTS
    SessionsTypeOK
    AnAdminRemains
    RotatedTokenIsNotPresented
PROPERTIES
    NotSignedOutMidSession
SYMMETRY Interchangeable
CHECK_DEADLOCK FALSE
