\* Two runs, duplicates, polls, repeated goldens, failing calls, and one crash
\* at any point, also between the writes of a section.
CONSTANTS
    r1 = r1  r2 = r2
    good = good  bad = bad  a1 = a1  a2 = a2  q = q
    None = None
    Runs <- TwoRuns
    Bodies = {good, bad}
    Parses = {good}
    Answers = {a1, a2}
    Submissions <- AllSubmissions
    FailureReports <- NoRequests
    Receipts <- NoRequests
    MaxAttempts = 2
    MaxCrashes = 1
    MaxUnreaped = 1
SPECIFICATION Spec
SYMMETRY AnswerRunSymmetry
INVARIANTS
    RunOwnsOneAttempt
    FinalStateIsBacked
    VerdictHasEvidence
    LatestCoversAttempts
    ReadyIsScheduled
    LatestIsNewestAttempt
    TicketsMatchVerdicts
    AssessmentIsCurrent
PROPERTY FinalAttemptIsFrozen
