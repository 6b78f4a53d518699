\* Doc: an undelivered outcome is kept in an outbox.
CONSTANTS
    r1 = r1  r2 = r2  good = good  empty = empty  a1 = a1  a2 = a2  q = q
    None = None
    Runs = {r1}
    Bodies = {good, empty}
    Parses = {good}
    Answers <- NoAnswers
    Submissions <- GoodSubmissions
    FailureReports <- AllReports
    Receipts <- OneReceiptPerRun
    MaxAttempts = 1
    MaxCrashes = 0
    MaxUnreaped = 1
    Outputs <- AllOutputs
    MaxSubmits = 1
    MaxCgaCrashes = 0
SPECIFICATION WSpec
INVARIANTS
    OutcomeIsNotLost
\* The questions are answered and nothing else is to come.
CHECK_DEADLOCK FALSE
