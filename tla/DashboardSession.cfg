CONSTANTS
    t1 = t1
    t2 = t2
    r1 = r1
    r2 = r2
    out = out
    Tab = {t1, t2}
    Req = {r1, r2, out}
    None = None
    TabOf <- TwoTabs
    Logout = {out}
    Retries = 1
    MaxExpiring = 1
    MaxEvents = 1
SPECIFICATION FairSpec
INVARIANTS TypeOK OneRefreshPerTab StoredTokenLives
PROPERTY EveryRequestEnds
CHECK_DEADLOCK FALSE
