CONSTANTS
    Calls = {c1, c2, c3, c4}
    Timeout = 1
    Cooldown = 2
    MaxTime = 5
    Requests = {r1, r2, r3, r4}
    Units = 2
    Pair = {p1, p2}
    Relayers = {y1, y2}
    Deliverers = {d1, d2}
    Shoppers = {s1}
    Lifetime = 2
    CartLifetime = 2
    Hours = 3
    Assertions <- OneOfEach
    Actions <- TwoActions
    MaxFollowUps = 1
    MaxInstant = 2
SPECIFICATION LessonsSpec
INVARIANTS OneProbe NoOversell BoundedStaleness ChargedOnce NotifiedOnce OrderStandsOnBoth VerdictsFollowHistory
CHECK_DEADLOCK FALSE
