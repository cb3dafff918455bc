\* Every other page, on an instance of its own, and two parsers.
SPECIFICATION PagesSpec
CONSTANTS
    AlertFilters = {"f", "g"}
    AlertPages = {1, 2}
    SummariesOf <- MCSummariesOf
    AlertsOf <- MCAlertsOf
    MaxAlertMoves = 3
    MaxAlertFetches = 3
    MaxModifies = 1
    Sheriffs = {"p"}
    MaxMenuMoves = 4
    MaxMenuChanges = 2
    MaxBugForms = 1
    Series = {"s", "t"}
    NoData = {"t"}
    NumColours = 1
    MaxGraphMoves = 4
    MaxGraphLoads = 2
    MaxTestLists = 1
    MaxAlerts = 1
    CmpFrameworks = {1, 2}
    CmpRanges = {1}
    CmpTests = {"p"}
    CmpPlatforms <- MCCmpPlatforms
    SidesOf <- MCSidesOf
    Comparable <- MCComparable
    MaxCmpMoves = 3
    MaxCmpLoads = 2
    MaxRetriggers = 1
    ChooserProjects = {"try", "m"}
    RecentOf <- MCRecentOf
    PushedTo <- MCPushedTo
    MaxChooserMoves = 1
    MaxRecentLoads = 1
    Tabs = {"t", "u"}
    MaxSessionMoves = 1
    MaxWindows = 1
    MaxRenewals = 1
    MaxReloads = 1
    FailedTests = {"a", "b"}
    RunsOf <- MCRunsOf
    FoundTests = {"a"}
    MaxHealthMoves = 3
    MaxHealthPolls = 1
    LogLines = {1, 2}
    FirstErrors = {1, 2}
    MaxMarks = 1
    MaxLogLoads = 1
    NoticeTabs = {"t", "u"}
    MaxStored = 1
    MaxNotices = 3
    MaxNoticeLoads = 1
    RawLogs = {raw}
    Summaries = {summary}
    Workers = {w1, w2}
    NoTask = NoTask
    MaxRetries = 1
    MaxScheduled = 2
    MaxErrors = 1
    MaxCrashes = 1
INVARIANTS PagesTypeOK ActsOnWhatIsTicked PagesAwaitAnswers SavedWasAccepted HiddenHasNoColour
           TablesShowFiltered LoggedOutIsShown LinksOpenWhatWasSeen ShownIsRecent RowsStoredOnce
PROPERTIES MarkIsKept LogsGetAVerdict
CHECK_DEADLOCK FALSE
