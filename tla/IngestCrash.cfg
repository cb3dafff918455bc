\* A worker is restarted between the job and its logs.
SPECIFICATION Spec
CONSTANTS
    Tasks = {t1}
    Rejected = {}
    Workers = {w1}
    NoMessage = NoMessage
    MaxRun = 0
    Outcomes = {"completed"}
    MaxRetries = 1
    MaxCrashes = 1
    MaxErrors = 0
    MaxInFlight = 2
INVARIANTS LogsSurviveRestarts
CHECK_DEADLOCK FALSE
