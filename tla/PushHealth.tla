------------------------------ MODULE PushHealth ------------------------------
(***************************************************************************)
(* The health of one push (push-health/Health.jsx, TestMetric.jsx,         *)
(* ClassificationGroup.jsx, Action.jsx, Test.jsx, PlatformConfig.jsx): the *)
(* data asked for again every two minutes, the view that the URL keeps,    *)
(* the tabs, and in the one of the tests a group of failed tests to tick,  *)
(* retrigger and mark.  Ticking puts the test's record of that data into a *)
(* set, opening a task keeps the task's record, and the next data brings   *)
(* new records.  A tab that is left takes its rows along.                  *)
(***************************************************************************)
EXTENDS Integers, SequencesExt

CONSTANTS
    FailedTests,     \* the rows of one group, by test and job name
    RunsOf,          \* the task ids of each row's job, oldest first
    FoundTests,      \* the rows a search text leaves
    MaxHealthMoves, MaxHealthPolls

ViewParams == {"testGroup", "selectedTest", "selectedTaskId", "selectedJobName", "regressionsGroupBy", "searchStr"}
NoDecision == "no task"  NoTests == -1  UndefinedTest == "undefined"
NoHealthTab == "no tab"  HealthTabs == {"tests", "others"}
AllRuns == UNION {ToSet(RunsOf[t]) : t \in FailedTests}

ASSUME HealthParameters ==
    /\ RunsOf \in [FailedTests -> Seq(AllRuns) \ {<<>>}] /\ FoundTests \subseteq FailedTests
    /\ {"", NoDecision} \cap (FailedTests \cup AllRuns) = {}
    /\ {MaxHealthMoves, MaxHealthPolls} \subseteq Nat

VARIABLES
    healthUrl, pastUrl,   \* the parameters of the URL, and those before the last push
    healthView,           \* the same parameters in the state
    health,               \* the version of the data shown, or NoTests
    healthInvestigated,   \* the tests it says are investigated
    healthFailed,
    healthThrown,         \* history: a request of the data threw
    healthTab,            \* the tab that is open; none before the page has its repository and timer
    healthLoads,          \* requests under way
    investigated,         \* the server's
    shownGroups, testOpen,
    rows,                 \* each row on the page: whether it is open, its task and of which data that is
    tickedRows, allTicked,
    selectedTests,        \* records of tests: name, version, investigated
    marks,                \* requests of markAsInvestigated under way
    healthMoves, nHealthPolls

urlState == <<healthUrl, pastUrl, healthView>>
dataState == <<health, healthInvestigated, healthFailed, healthThrown, healthLoads, nHealthPolls>>
tabState == <<healthTab, shownGroups>>
testState == <<testOpen, tickedRows, allTicked, selectedTests>>
healthVars == <<urlState, dataState, investigated, tabState, rows, testState, marks, healthMoves>>

HealthMove == healthMoves < MaxHealthMoves /\ healthMoves' = healthMoves + 1

-----------------------------------------------------------------------------
(* The data.                                                               *)
FilteredFailures(tests, search) == IF search = "" THEN tests ELSE tests \cap FoundTests
MountedRow(t, view) ==
    [open |-> view["selectedJobName"] = t, of |-> health',
     task |-> IF view["selectedTaskId"] \in ToSet(RunsOf[t]) THEN view["selectedTaskId"] ELSE NoDecision]

\* A row that comes back is a new one; without rows the whole group goes, and
\* what it asked for is answered to nobody.
Regrouped == healthView'["regressionsGroupBy"] # healthView["regressionsGroupBy"]
StillThere == IF Regrouped THEN {} ELSE DOMAIN rows
ShowGroup ==
    IF StillThere = {} \/ rows' = <<>>
    THEN /\ testOpen' = (rows' # <<>> /\ healthView'["testGroup"] # "" /\ healthView'["selectedTest"] = "T")
         /\ allTicked' = FALSE /\ selectedTests' = {}
         /\ marks' = {[m EXCEPT !.mounted = FALSE] : m \in marks}
    ELSE UNCHANGED <<testOpen, allTicked, selectedTests, marks>>
\* Mutation: the rows that go keep their ticks.
ShowRowsKeepsTicks ==
    LET shown == IF healthTab' = "tests" THEN FilteredFailures(FailedTests, healthView'["searchStr"]) ELSE {} IN
    /\ rows' = [t \in shown |-> IF t \in StillThere THEN rows[t] ELSE MountedRow(t, healthView')]
    /\ UNCHANGED tickedRows
    /\ ShowGroup
ShowRows ==
    LET shown == IF healthTab' = "tests" THEN FilteredFailures(FailedTests, healthView'["searchStr"]) ELSE {} IN
    /\ rows' = [t \in shown |-> IF t \in StillThere THEN rows[t] ELSE MountedRow(t, healthView')]
    /\ tickedRows' = tickedRows \cap shown \cap StillThere
    /\ ShowGroup

UpdatePushHealth(what) == healthLoads' = healthLoads \cup {what}

HealthAnswered(what) ==
    /\ healthLoads' = (healthLoads \ {what}) \cup (IF what = "first" THEN {"repos"} ELSE {})
    /\ health' = health + 1 /\ healthInvestigated' = investigated
    /\ UNCHANGED <<urlState, healthFailed, healthThrown, nHealthPolls, investigated, tabState,
                   healthMoves>>
    /\ ShowRows
\* The first failure stops the page: nothing is asked again.
HealthRefused(what) ==
    /\ healthLoads' = healthLoads \ {what}
    /\ healthFailed' = TRUE
    /\ UNCHANGED <<urlState, health, healthInvestigated, healthThrown, nHealthPolls, investigated, tabState,
                   rows, testState, marks, healthMoves>>
\* So does one that throws, and nothing is said of it.
HealthThrows(what) ==
    /\ healthLoads' = healthLoads \ {what}
    /\ healthThrown' = TRUE
    /\ UNCHANGED <<urlState, health, healthInvestigated, healthFailed, nHealthPolls, investigated, tabState,
                   rows, testState, marks, healthMoves>>
\* The repository comes, and with it the tabs: the one that the URL names, that
\* of the tests if it names a group of them, or the first that failed.
ExpandedGroups(view) == IF view["testGroup"] = "" THEN {} ELSE {view["testGroup"]}
OpenTab(tab) ==
    /\ healthTab' = tab
    /\ shownGroups' = IF tab = "tests" THEN ExpandedGroups(healthView) ELSE {}
HealthReposAnswered(tab) ==
    /\ healthLoads' = healthLoads \ {"repos"}
    /\ OpenTab(tab)
    /\ UNCHANGED <<urlState, health, healthInvestigated, healthFailed, healthThrown, nHealthPolls,
                   investigated, healthMoves>>
    /\ ShowRows
HealthReposThrow ==
    /\ healthLoads' = healthLoads \ {"repos"}
    /\ UNCHANGED <<urlState, health, healthInvestigated, healthFailed, healthThrown, nHealthPolls,
                   investigated, tabState, rows, testState, marks, healthMoves>>
PollHealth ==
    /\ healthTab # NoHealthTab /\ nHealthPolls < MaxHealthPolls /\ nHealthPolls' = nHealthPolls + 1
    /\ UpdatePushHealth("poll")
    /\ UNCHANGED <<urlState, health, healthInvestigated, healthFailed, healthThrown, investigated,
                   tabState, rows, testState, marks, healthMoves>>

-----------------------------------------------------------------------------
(* The view.                                                               *)
UpdateParamsAndState(new) ==
    LET merged(params) == [p \in ViewParams |-> IF p \in DOMAIN new THEN new[p] ELSE params[p]] IN
    /\ healthUrl' = merged(healthUrl) /\ pastUrl' = healthUrl
    /\ healthView' = merged(healthView)
Browse ==
    /\ UNCHANGED <<dataState, investigated, tabState>>
    /\ ShowRows
\* Going back changes the URL and nothing else.
GoBack ==
    /\ HealthMove
    /\ healthUrl' = pastUrl
    /\ UNCHANGED <<pastUrl, healthView, dataState, investigated, tabState, rows, testState, marks>>
SwitchTab(tab) ==
    /\ HealthMove /\ healthTab \notin {NoHealthTab, tab}
    /\ OpenTab(tab)
    /\ UNCHANGED <<urlState, dataState, investigated>>
    /\ ShowRows
InGroup == rows # <<>> /\ "pr" \in shownGroups
SearchTests(s) ==
    /\ HealthMove /\ health # NoTests
    /\ UpdateParamsAndState([p \in {"searchStr"} |-> s])
    /\ Browse
SetGroupedBy(by) ==
    /\ HealthMove /\ InGroup
    /\ UpdateParamsAndState([p \in {"testGroup", "regressionsGroupBy"} |-> IF p = "testGroup" THEN "pr" ELSE by])
    /\ Browse
ToggleGroup(g) ==
    /\ HealthMove /\ healthTab = "tests"
    /\ UpdateParamsAndState([p \in {"testGroup"} |-> g])
    /\ shownGroups' = IF g \in shownGroups THEN shownGroups \ {g} ELSE shownGroups \cup {g}
    /\ UNCHANGED <<dataState, investigated, healthTab, rows, testState, marks>>
ToggleTest ==
    /\ HealthMove /\ InGroup
    /\ testOpen' = ~testOpen
    /\ IF testOpen THEN UNCHANGED urlState
       ELSE UpdateParamsAndState([p \in {"testGroup", "selectedTest", "selectedTaskId"} |->
                CASE p = "testGroup" -> "pr" [] p = "selectedTest" -> "T" [] OTHER -> ""])
    /\ UNCHANGED <<dataState, investigated, tabState, rows, tickedRows, allTicked, selectedTests, marks>>

InTest == InGroup /\ testOpen
\* Mutation: only the task is written into the URL.
TaskOnly(task, job) == [p \in {"selectedTaskId"} |-> task]
TaskParams(task, job) ==
    [p \in {"testGroup", "selectedTest", "selectedTaskId", "selectedJobName"} |->
        CASE p = "testGroup" -> "pr" [] p = "selectedTest" -> "T" [] p = "selectedTaskId" -> task [] OTHER -> job]
\* The task that is open, if it is still the same object, or none, closes the row.
SetSelectedTask(t, task) ==
    LET closes == task = NoDecision \/ (task = rows[t].task /\ rows[t].of = health) IN
    /\ HealthMove /\ InTest /\ t \in DOMAIN rows
    /\ task # NoDecision \/ rows[t].open
    /\ UpdateParamsAndState(IF closes THEN TaskParams("", "") ELSE TaskParams(task, t))
    /\ rows' = [rows EXCEPT ![t] = [open |-> ~closes, of |-> health, task |-> IF closes THEN NoDecision ELSE task]]
    /\ UNCHANGED <<dataState, investigated, tabState, testState, marks>>

-----------------------------------------------------------------------------
(* Ticking, retriggering, marking.                                         *)
RecordOf(t) == [name |-> t, version |-> health, investigated |-> t \in healthInvestigated]
SelectTest(t) ==
    /\ HealthMove /\ InTest /\ t \in DOMAIN rows
    /\ IF t \in tickedRows
       THEN tickedRows' = tickedRows \ {t} /\ selectedTests' = selectedTests \ {RecordOf(t)}
       ELSE tickedRows' = tickedRows \cup {t} /\ selectedTests' = selectedTests \cup {RecordOf(t)}
    /\ UNCHANGED <<urlState, dataState, investigated, tabState, rows, testOpen, allTicked, marks>>
SelectAll ==
    /\ HealthMove /\ InTest
    /\ allTicked' = ~allTicked
    /\ tickedRows' = IF allTicked THEN {} ELSE DOMAIN rows
    /\ selectedTests' = IF allTicked THEN {} ELSE {RecordOf(t) : t \in DOMAIN rows}
    /\ UNCHANGED <<urlState, dataState, investigated, tabState, rows, testOpen, marks>>

\* The entries of a Set are pairs, which have no test name.
NamesPosted(set) == {UndefinedTest : r \in set}
Marking(what) ==
    /\ HealthMove /\ InTest /\ selectedTests # {}
    /\ marks' = marks \cup {[names |-> IF what = "mark" THEN NamesPosted(selectedTests) ELSE {}, mounted |-> TRUE]}
    /\ UNCHANGED <<urlState, dataState, investigated, tabState, rows, testState>>
\* The group forgets what was ticked; the ticks stay.  (Requests that throw are
\* as good as never answered.)
MarkAnswered(m) ==
    /\ marks' = marks \ {m}
    /\ investigated' = investigated \cup (m.names \cap FailedTests)
    /\ selectedTests' = IF m.mounted THEN {} ELSE selectedTests
    /\ UpdatePushHealth("poll")
    /\ UNCHANGED <<urlState, health, healthInvestigated, healthFailed, healthThrown, nHealthPolls,
                   tabState, rows, testOpen, tickedRows, allTicked, healthMoves>>

\* Somebody marks or unmarks a test on the server.
OthersMark(t) ==
    /\ HealthMove
    /\ investigated' = IF t \in investigated THEN investigated \ {t} ELSE investigated \cup {t}
    /\ UNCHANGED <<urlState, dataState, tabState, rows, testState, marks>>

\* The page is opened plainly or by a link to a task.
LinkTo(t) == [p \in ViewParams |->
    CASE p = "testGroup" -> "pr" [] p = "selectedTest" -> "T" [] p = "selectedTaskId" -> Last(RunsOf[t])
      [] p = "selectedJobName" -> t [] OTHER -> ""]
HealthInit ==
    /\ healthUrl \in {[p \in ViewParams |-> ""]} \cup {LinkTo(t) : t \in FailedTests}
    /\ pastUrl = healthUrl /\ healthView = healthUrl
    /\ health = NoTests /\ healthInvestigated = {} /\ healthFailed = FALSE
    /\ healthThrown = FALSE /\ healthTab = NoHealthTab /\ healthLoads = {"first"}
    /\ investigated \in {{}, FailedTests}
    /\ shownGroups = {} /\ testOpen = FALSE /\ rows = <<>> /\ tickedRows = {} /\ allTicked = FALSE /\ selectedTests = {}
    /\ marks = {} /\ healthMoves = 0 /\ nHealthPolls = 0

HealthNext ==
    \/ \E what \in healthLoads \ {"repos"} : HealthAnswered(what) \/ HealthRefused(what) \/ HealthThrows(what)
    \/ "repos" \in healthLoads /\ (HealthReposThrow \/ \E tab \in HealthTabs : HealthReposAnswered(tab))
    \/ \E tab \in HealthTabs : SwitchTab(tab)
    \/ PollHealth \/ GoBack \/ ToggleTest \/ SelectAll
    \/ \E s \in {"", "x"} : SearchTests(s)
    \/ \E by \in {"", "platform"} : SetGroupedBy(by)
    \/ \E g \in {"pr", "ki"} : ToggleGroup(g)
    \/ \E t \in FailedTests :
         \/ SelectTest(t) \/ OthersMark(t)
         \/ \E task \in ToSet(RunsOf[t]) \cup {NoDecision} : SetSelectedTask(t, task)
    \/ \E what \in {"mark", "unmark"} : Marking(what)
    \/ \E m \in marks : MarkAnswered(m)

HealthSpec == HealthInit /\ [][HealthNext]_healthVars

-----------------------------------------------------------------------------
HealthTypeOK ==
    /\ DOMAIN healthUrl = ViewParams /\ DOMAIN healthView = ViewParams
    /\ health \in Nat \cup {NoTests} /\ healthTab \in HealthTabs \cup {NoHealthTab}
    /\ healthLoads \subseteq {"first", "poll", "repos"}
    /\ DOMAIN rows \subseteq FailedTests /\ tickedRows \subseteq DOMAIN rows
    /\ \A t \in DOMAIN rows : rows[t].task \in ToSet(RunsOf[t]) \cup {NoDecision}
    /\ shownGroups \subseteq {"pr", "ki"}

\* "Gathering health data..." stands only while the data is awaited, or after
\* the request for it threw.
GatheringIsAwaited == ~healthFailed /\ health = NoTests => healthLoads # {} \/ healthThrown

\* A task that the URL names is one of the row that the URL opens, through
\* closing rows and opening others, new data, other tabs and earlier URLs.
LinkOpensTask ==
    healthUrl["selectedTaskId"] # "" =>
        /\ healthUrl["selectedJobName"] \in FailedTests
        /\ healthUrl["selectedTaskId"] \in ToSet(RunsOf[healthUrl["selectedJobName"]])
=============================================================================
