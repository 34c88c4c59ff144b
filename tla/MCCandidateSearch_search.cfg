\* The search with its driver over two generations, and the tools beside them.
SPECIFICATION SearchSpec
CONSTANTS
    None = None
    Raised = Raised
    Bad = Bad
    Failure = Failure
    Draws <- MCDraws
    Deltas = {1000}
    Trials = {"C1", "C2", "C3", "C4", "C5"}
    Tools = {"search", "baseline", "maker", "review", "walk"}
    MaxGen = 2
    NMutations = {1, 6}
    Lambdas = {1}
    Timeouts = {30, 900}
    Blobs <- MCBlobs
    RawAnswers <- MCRawAnswers
    RawProposals <- MCRawProposals
    MaxSlots = 3
    Quarters = 3
    Answers <- MCAnswers
    Calibrated <- MCCalibrated
    RejectionThreshold = 3
    MinConfidence = 5
    GapThreshold = 4
    NoMakerScore = 5
INVARIANTS CandidatesContained ReviewSound ValidatorsAgree
CHECK_DEADLOCK FALSE
