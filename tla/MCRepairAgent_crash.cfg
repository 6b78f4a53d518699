\* Two requests for one ticket, one for another, one crash.
CONSTANTS
    t1 = t1  t2 = t2  q1 = q1  q2 = q2  q3 = q3
    None = None
    Tickets = {t1, t2}
    Requests = {q1, q2, q3}
    TicketOf <- TwoAndOne
    MaxConcurrency = 1
    MaxRetries = 1
    MaxAttempts = 2
    MaxCrashes = 1
SPECIFICATION FairSpec
INVARIANTS
    AppliedIsTrue
    PendingHasACause
PROPERTIES
    SettledTicketIsFinal
    EveryRequestIsAnswered
\* Every request may be answered, and nothing else is to come.
CHECK_DEADLOCK FALSE
