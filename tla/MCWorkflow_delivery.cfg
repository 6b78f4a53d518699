\* Two runs, no golden, retries, crashes on both sides.
CONSTANTS
    r1 = r1  r2 = r2  good = good  empty = empty  a1 = a1  a2 = a2  q = q
    None = None
    Runs = {r1, r2}
    Bodies = {good, empty}
    Parses = {good}
    Answers <- NoAnswers
    Submissions <- GoodSubmissions
    FailureReports <- AllReports
    Receipts <- OneReceiptPerRun
    MaxAttempts = 2
    MaxCrashes = 1
    MaxUnreaped = 1
    Outputs <- AllOutputs
    MaxSubmits = 2
    MaxCgaCrashes = 1
SPECIFICATION WSpec
SYMMETRY RunSymmetry
INVARIANTS
    DeliveredIsFiled
    ReceiptComesFirst
PROPERTIES
    Spec
\* The questions are answered and nothing else is to come.
CHECK_DEADLOCK FALSE
