SPECIFICATION Spec
CONSTANTS
    ana = ana
    ben = ben
    north = north
    south = south
    t1 = t1
    t2 = t2
    t3 = t3
    Pids = {ana, ben}
    Codes = {ana, ben}
    Workers = {north, south}
    Threads = {t1, t2, t3}
    Host <- TwoWorkers
    Kinds = {"serve", "participant", "quad"}
    None = None
    MayFault = TRUE
    MaxRequests = 3
    MaxRestarts = 1
SYMMETRY Alike
INVARIANTS
    PersistedOnlyWithConsent
    CacheMatchesTable
    LearnersAreIsolated
    ConsentedWorkIsKept
\* The bound MaxRequests ends every behaviour.
CHECK_DEADLOCK FALSE
