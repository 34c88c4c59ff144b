\* Three requests of one user: at once, with an admin, failing calls and
\* crashes; and one after the other, where every unit has to be settled.
SPECIFICATION MCSpec
CONSTANTS
    Req = {r1, r2, r3}
    User = {u1}
    NoRow = NoRow
    Kinds = {"analyze", "rsi", "tool", "vibe"}
    Quotas = {1, 2}
    RsiQuotas = {1}
    MaxDay = 1
    Faults = {"rpc", "kill", "raise", "midnight", "admin", "late"}
    MaxInFlight = 3
SYMMETRY Symmetry
INVARIANTS LedgerCoversWork SerialExact
PROPERTIES GrantWithinQuota
CHECK_DEADLOCK FALSE
