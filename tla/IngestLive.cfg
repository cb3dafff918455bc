\* One worker, every outcome of a run, a restart, an exception and retries;
\* liveness under the fairness of processes that are kept running.
SPECIFICATION FairSpec
CONSTANTS
    Tasks = {t1}
    Rejected = {}
    Workers = {w1}
    NoMessage = NoMessage
    MaxRun = 0
    Outcomes = {"completed", "failed", "exception", "createdException"}
    MaxRetries = 1
    MaxCrashes = 1
    MaxErrors = 1
    MaxInFlight = 2
INVARIANTS NoMessageLost
PROPERTIES EventsSettle EndedRunsShown
CHECK_DEADLOCK FALSE
