\* Every part of the job view, on an instance of its own.
SPECIFICATION ViewSpec
CONSTANTS
    MaxPush = 3
    MaxClock = 1
    Budgets <- MCBudgets
    Linked = {2}
    Count = 1
    MaxFetch = 1
    DetJobs = {"a", "b"}
    FailedJobs = {"a"}
    PerfJobs = {"b"}
    MaxSelects = 2
    MaxNoteChanges = 1
    MaxDetErrors = 1
    PinJobs = {"a", "b"}
    StrictJobs = {"a"}
    PinBugs = {"1"}
    MaxSize = 1
    MaxSaves = 2
    MaxPinMoves = 3
    MaxPinErrors = 1
    Runnable = {"a", "b"}
    MaxPanelMoves = 4
    MaxUncompleted = 1
    MaxTriggers = 1
    MaxLists = 2
    FuzzyJobs = {"a", "b"}
    CommonJobs = {"a"}
    MaxFuzzyMoves = 4
    MaxFinds = 2
    MaxSubmits = 2
    ActKinds = {"retrigger", "new", "cancel", "isolate"}
    MaxRequests = 2
    MaxCancelled = 2
    MaxExpiries = 1
    MaxDialogs = 1
    MaxCustoms = 1
    ListedJobs <- MCListedJobs
    StatusOf <- MCStatusOf
    WordsOf <- MCWordsOf
    Words = {"x", "y"}
    MaxFilterMoves = 4
    FilerJobs = {"a", "b"}
    Products = {"P", "Q"}
    BugLimit = 1
    MaxFilerMoves = 3
    MaxSuggestLoads = 2
    MaxSearches = 2
    MaxOpens = 1
    MaxFilings = 1
    SimilarTo <- MCSimilarTo
    PageSize = 1
    MaxSimilarMoves = 3
    MaxSimilarLoads = 2
    Repos = {"m", "g"}
    HgRepos = {"m"}
    DefaultRepo = "m"
    MaxWatched = 2
    MaxShellMoves = 3
    MaxTreePolls = 1
    MaxDeploys = 1
    MaxShellClock = 1
    Requests = {r1, r2}
    Classifications = {none, intermittent}
    NotClassified = none
    MaxNotes = 2
    MaxAborts = 1
    RawLogs = {raw}
    Summaries = {summary}
    Workers = {w1, w2}
    NoTask = NoTask
    MaxRetries = 1
    MaxScheduled = 2
    MaxErrors = 1
    MaxCrashes = 0
INVARIANTS ViewTypeOK ListIsWhole TabExists PanelsAwaitAnswers BoardBounded ShownIsStored
            SelectionsAreListed SentIsSubmitted  CountsCurrent
           PollsUntilDelayed ClassificationCurrent ParsedLogsStored
PROPERTIES PollingShowsNewest RequestReported
CHECK_DEADLOCK FALSE
