\* Two threads and two directories, a rewrite of each file, four times.
CONSTANTS
    t1 = t1  t2 = t2  goldens = goldens  submissions = submissions
    Threads = {t1, t2}
    Dirs = {goldens, submissions}
    TTL = 1
    MaxClock = 2
    MaxChanges = 2
    None = None
SPECIFICATION Spec
SYMMETRY ThreadDirSymmetry
INVARIANTS
    SignatureVouchesForCache
    FreshWithinTTL
    ListingsNeverGoBack
