\* Cancellation, crashes, exceptions outside the try block, failing calls; and
\* the same without crashes and lost updates, for what has to happen.
SPECIFICATION MCSpec
CONSTANTS
    Run = Run
    Owner = Owner
    NoRow = NoRow
    MaxIterations = 2
    MaxTools = 2
    MaxEmptyPolls = 2
    PollLimit = 2
    MaxFailures = 1
    Cancels = TRUE
    Faults = {"redis", "kill", "raise", "db"}
 
PROPERTIES  IsMeteredRequest ComesToRest
CHECK_DEADLOCK FALSE
