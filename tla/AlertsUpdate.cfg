\* An update of one summary's alerts that is answered after the list was
\* fetched again puts back what it captured.
SPECIFICATION AlertsSpec
CONSTANTS
    AlertFilters = {"f", "g"}
    AlertPages = {1, 2}
    SummariesOf <- MCSummariesOf
    AlertsOf <- MCAlertsOf
    MaxAlertMoves = 2
    MaxAlertFetches = 3
    MaxModifies = 1
PROPERTY UpdatesOneSummary
CHECK_DEADLOCK FALSE
