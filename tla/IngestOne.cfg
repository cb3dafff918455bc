\* One worker and reruns, with an exception or a skip at any statement: the row of
\* each job, and its lifecycle.
SPECIFICATION Spec
CONSTANTS
    Tasks = {t1}
    Rejected = {}
    Workers = {w1}
    NoMessage = NoMessage
    MaxRun = 1
    Outcomes = {"completed"}
    MaxRetries = 1
    MaxCrashes = 0
    MaxErrors = 1
    MaxInFlight = 2
INVARIANTS AckedJobsExist
PROPERTIES Lifecycle
CHECK_DEADLOCK FALSE
