\* Two workers beside each other, statement by statement, with a restart and an
\* exception or a skip at any of them: rows, metadata and logs.
SPECIFICATION Spec
CONSTANTS
    Tasks = {t1}
    Rejected = {}
    Workers = {w1, w2}
    NoMessage = NoMessage
    MaxRun = 0
    Outcomes = {"completed"}
    MaxRetries = 1
    MaxCrashes = 1
    MaxErrors = 1
    MaxInFlight = 2
INVARIANTS TypeOK AckedJobsReflected AckedJobsHaveMetadata LogsAccountedFor
SYMMETRY WorkerSymmetry
CHECK_DEADLOCK FALSE
