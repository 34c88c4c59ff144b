\* Generations one after the other and at the same time, overlapping appends
\* with rotations, heartbeats from any hour of a week; crashes in every step.
SPECIFICATION RootSpec
CONSTANTS
    Objective = {"sharpe", "calmar"}
    Missing = Missing
    Worst <- MCWorst
    Driver = {d1, d2}
    Point <- MCPoint
    MaxBatch = 2
    Decisions = {"accepted", "rejected"}
    MakerCheckerOn = TRUE
    Answers <- MCAnswers
    Failure = Failure
    Calibrated <- MCCalibrated
    RejectionThreshold = 3
    MinConfidence = 5
    GapThreshold = 4
    NoMakerScore = 5
    Crashes = TRUE
    Parts = {"driver", "journal", "heartbeat"}
    Call = {c1, c2, c3}
    Candidate = {k1, k2}
    NoSource = NoSource
    RotateAt = 2
    MaxSecond = 1
    Configs <- MCConfigs
    Starts <- MCStarts
    Results <- MCResults
    MaxGen = 3
SYMMETRY Symmetry
INVARIANTS FrontIsFront FrontIsBacked FrontFollowsJournal JournalSound
PROPERTIES NeverWorse WakesInTime
CHECK_DEADLOCK FALSE
