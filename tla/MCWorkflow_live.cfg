\* One run from the question to its verdict, a crash of each process.
CONSTANTS
    r1 = r1  r2 = r2  good = good  empty = empty  a1 = a1  a2 = a2  q = q
    None = None
    Runs = {r1}
    Bodies = {good, empty}
    Parses = {good}
    Answers = {a1}
    Submissions <- GoodSubmissions
    FailureReports <- AllReports
    Receipts <- OneReceiptPerRun
    MaxAttempts = 1
    MaxCrashes = 1
    MaxUnreaped = 1
    Outputs <- AllOutputs
    MaxSubmits = 2
    MaxCgaCrashes = 1
SPECIFICATION WFairSpec
INVARIANTS
    RepetitionIsNoConflict
    FailureReportBecomesAttempt
PROPERTIES
    RunEnds
\* The questions are answered and nothing else is to come.
CHECK_DEADLOCK FALSE
