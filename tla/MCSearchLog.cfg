SPECIFICATION FairSpec
CONSTANTS
    Searches = {s1, s2}
    Users = {u1, u2}
    NoUser = Nobody
    Queries = {q1}
    Blank = ""
    Clicks = {k1}
    Products = {p1}
    s1 = s1
    s2 = s2
    u1 = u1
    u2 = u2
    k1 = k1
    q1 = q1
    p1 = p1
    Nobody = Nobody
INVARIANTS
    TypeOK
    RecordsHaveCause
    RecordedInFull
    ClearedStaysCleared
    ClicksAreSound
PROPERTIES
    QueryIdsSettle
CHECK_DEADLOCK FALSE
