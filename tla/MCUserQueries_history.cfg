\* Three queries, two places in the history, one reading thread, one crash.
CONSTANTS
    q1 = q1  q2 = q2  q3 = q3
    None = None
    Torn = Torn
    Queries = {q1, q2, q3}
    Readers = {t}
    HistoryLimit = 2
    MaxCrashes = 1
SPECIFICATION Spec
INVARIANTS
    ListedIsOnFile
    MissedIsExpired
    AnsweredIsListed
    OnlyDiagnosisRevives
    PendingIsWorkedOn
\* The queries are answered and nothing else is to come.
CHECK_DEADLOCK FALSE
