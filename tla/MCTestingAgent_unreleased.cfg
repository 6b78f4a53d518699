\* Doc: with the golden there, a submission is evaluated.
CONSTANTS
    r1 = r1  r2 = r2
    good = good  bad = bad  a1 = a1  a2 = a2  q = q
    None = None
    Runs <- TwoRuns
    Bodies = {good}
    Parses = {good}
    Answers = {a1, a2}
    Submissions <- AllSubmissions
    FailureReports <- NoRequests
    Receipts <- NoRequests
    MaxAttempts = 2
    MaxCrashes = 0
    MaxUnreaped = 1
SPECIFICATION FairSpec
PROPERTY GoldenReleasesSubmissions
