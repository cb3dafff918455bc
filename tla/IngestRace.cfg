\* Two workers beside each other: the promise of _remove_existing_jobs.
SPECIFICATION Spec
CONSTANTS
    Tasks = {t1}
    Rejected = {}
    Workers = {w1, w2}
    NoMessage = NoMessage
    MaxRun = 0
    Outcomes = {"completed"}
    MaxRetries = 0
    MaxCrashes = 0
    MaxErrors = 0
    MaxInFlight = 2
PROPERTY CompletedIsFinal
CHECK_DEADLOCK FALSE
