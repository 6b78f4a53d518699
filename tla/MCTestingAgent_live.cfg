\* Liveness under the event loop's fairness, with one crash.
CONSTANTS
    r1 = r1  r2 = r2
    good = good  bad = bad  a1 = a1  a2 = a2  q = q
    None = None
    Runs <- TwoRuns
    Bodies = {good}
    Parses = {good}
    Answers = {a1}
    Submissions <- AllSubmissions
    FailureReports <- FailedGeneration
    Receipts <- NoRequests
    MaxAttempts = 2
    MaxCrashes = 1
    MaxUnreaped = 1
SPECIFICATION FairSpec
PROPERTIES
    ReadyEventuallySettles
    GoldenStartsEvaluation
