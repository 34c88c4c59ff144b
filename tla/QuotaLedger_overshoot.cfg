\* Concurrent requests, no fault.
SPECIFICATION MCSpec
CONSTANTS
    Req = {r1, r2, r3}
    User = {u1}
    NoRow = NoRow
    Kinds = {"analyze", "rsi"}
    Quotas = {2}
    RsiQuotas = {1}
    MaxDay = 0
    Faults = {}
    MaxInFlight = 3
INVARIANTS ChargedWithinQuota
CHECK_DEADLOCK FALSE
