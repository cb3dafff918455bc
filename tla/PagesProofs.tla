----------------------------- MODULE PagesProofs -----------------------------
(***************************************************************************)
(* Theorems about the other pages of Treeherder, for any number of what    *)
(* they show, of moves and of requests.  A behaviour of the pages is one   *)
(* of each page, of which the properties are proved.                       *)
(***************************************************************************)
EXTENDS Pages, PerfherderProofs

-----------------------------------------------------------------------------
(* The composition.                                                        *)

\* A step of the pages is a step of the one that is followed, and lets every
\* other page stand still.
LEMMA PageStep ==
    ASSUME [PagesNext]_pagesVars
    PROVE  /\ [AlertsNext]_alertVars /\ [MenuNext]_menuVars /\ [GraphNext]_graphVars
           /\ [CompareNext]_compareVars /\ [ChooserNext]_chooserVars
           /\ [SessionNext]_sessionVars /\ [HealthNext]_healthVars /\ [LogNext]_logVars
           /\ [NoticesNext]_noticeVars /\ [Next]_vars
<1>1. CASE UNCHANGED pagesVars
  BY <1>1 DEF pagesVars
<1>2. ASSUME NEW r, Alone(r)
      PROVE  /\ r # "alerts"         => UNCHANGED alertVars
             /\ r # "menu"           => UNCHANGED menuVars
             /\ r # "graphs"         => UNCHANGED graphVars
             /\ r # "compare"        => UNCHANGED compareVars
             /\ r # "comparechooser" => UNCHANGED chooserVars
             /\ r # "login"          => UNCHANGED sessionVars
             /\ r # "push-health"    => UNCHANGED healthVars
             /\ r # "logviewer"      => UNCHANGED logVars
             /\ r # "notifications"  => UNCHANGED noticeVars
             /\ r # "parser"         => UNCHANGED vars
  BY <1>2 DEF Alone
<1>3. CASE PagesNext
  <2>1. CASE AlertsNext /\ Alone("alerts")
    BY <1>2, <2>1
  <2>2. CASE MenuNext /\ Alone("menu")
    BY <1>2, <2>2
  <2>3. CASE GraphNext /\ Alone("graphs")
    BY <1>2, <2>3
  <2>4. CASE CompareNext /\ Alone("compare")
    BY <1>2, <2>4
  <2>5. CASE ChooserNext /\ Alone("comparechooser")
    BY <1>2, <2>5
  <2>6. CASE SessionNext /\ Alone("login")
    BY <1>2, <2>6
  <2>7. CASE HealthNext /\ Alone("push-health")
    BY <1>2, <2>7
  <2>8. CASE LogNext /\ Alone("logviewer")
    BY <1>2, <2>8
  <2>9. CASE NoticesNext /\ Alone("notifications")
    BY <1>2, <2>9
  <2>10. CASE Next /\ Alone("parser")
    BY <1>2, <2>10
  <2> QED BY <1>3, <2>1, <2>2, <2>3, <2>4, <2>5, <2>6, <2>7, <2>8, <2>9, <2>10 DEF PagesNext
<1> QED BY <1>1, <1>3

\* Every behaviour of the pages is one of each page: the composition implements
\* them all.
THEOREM PagesImplementParts ==
    PagesSpec => /\ AlertsSpec /\ MenuSpec /\ GraphSpec /\ CompareSpec /\ ChooserSpec
                 /\ SessionSpec /\ HealthSpec /\ LogSpec /\ NoticesSpec /\ Spec
<1>1. PagesInit =>
        /\ AlertsInit /\ MenuInit /\ GraphInit /\ CompareInit /\ ChooserInit
        /\ SessionInit /\ HealthInit /\ LogInit /\ NoticesInit /\ Init
  BY DEF PagesInit
<1> QED
  BY <1>1, PageStep, PTL
  DEF PagesSpec, AlertsSpec, MenuSpec, GraphSpec, CompareSpec, ChooserSpec, SessionSpec,
      HealthSpec, LogSpec, NoticesSpec, Spec

-----------------------------------------------------------------------------
(* The log viewer.                                                         *)

\* A new URL follows those before it, and is the current one.
LEMMA UpdatedQuery ==
    ASSUME NEW T, entries \in Seq(T), entry \in DOMAIN entries, NEW lines \in T, UpdateQuery(lines)
    PROVE  entries' \in Seq(T) /\ entry' \in DOMAIN entries' /\ entries'[entry'] = lines
<1> DEFINE past == SubSeq(entries, 1, entry)
<1>1. entry \in Nat \ {0} /\ entry <= Len(entries)
  OBVIOUS
<1>2. past \in Seq(T) /\ Len(past) = entry
  BY <1>1, PartOfList
<1>3. entries' = Append(past, lines) /\ entry' = entry + 1
  BY DEF UpdateQuery
<1> HIDE DEF past
<1>4. /\ Append(past, lines) \in Seq(T) /\ Len(Append(past, lines)) = entry + 1
      /\ Append(past, lines)[entry + 1] = lines
  BY <1>1, <1>2, AppendProperties
<1> QED BY <1>1, <1>3, <1>4

\* The types of the log viewer.
LEMMA LogTypes == LogSpec => []LogTypeOK
<1> DEFINE Marks == Ranges \cup {NoLines}
<1>1. ASSUME LogInit PROVE LogTypeOK
  <2>1. highlight \in Marks /\ entries = <<highlight>> /\ entry = 1
    BY <1>1 DEF LogInit
  <2>2. entries \in Seq(Marks) /\ entry \in DOMAIN entries
    BY <2>1
  <2> QED BY <1>1, <2>1, <2>2 DEF LogInit, LogTypeOK
<1>2. ASSUME LogTypeOK, [LogNext]_logVars
      PROVE  LogTypeOK'
  <2> USE DEF LogTypeOK
  <2>1. \A l \in FirstErrors : <<l>> \in Ranges
    BY LogParameters DEF Ranges
  <2>2. CASE UNCHANGED logVars
    BY <1>2, <2>2 DEF logVars, markVars
  <2>3. ASSUME NEW lines \in Marks, SetSelectedLine(lines)
        PROVE  /\ entries' \in Seq(Marks) /\ entry' \in DOMAIN entries' /\ highlight' \in Marks
               /\ travelled' \in BOOLEAN
    <3>1. UpdateQuery(lines) /\ highlight' = lines /\ travelled' = FALSE
      BY <2>3 DEF SetSelectedLine, UpdateQuery
    <3> QED BY <1>2, <3>1, UpdatedQuery
  <2>4. ASSUME NEW lines \in Marks, OnHighlight(lines)
        PROVE  LogTypeOK'
    BY <1>2, <2>3, <2>4 DEF OnHighlight
  <2>5. CASE ClickError
    <3>1. <<errorLines>> \in Marks
      BY <1>2, <2>1, <2>5 DEF ClickError
    <3> QED BY <1>2, <2>3, <2>5, <3>1 DEF ClickError
  <2>6. ASSUME NEW first \in FirstErrors, LogErrorsAnswered(first)
        PROVE  LogTypeOK'
    <3>1. MarkAtAnswer(first) \in Marks
      <4>1. entries[entry] \in Marks
        BY <1>2, ElementOfSeq
      <4> QED BY <2>1, <4>1 DEF MarkAtAnswer, urlLines
    <3> QED BY <1>2, <2>3, <2>6, <3>1 DEF LogErrorsAnswered
  <2>7. CASE NoErrors \/ JobAnswered \/ JobUnavailable \/ CollapseJobDetails
    BY <1>2, <2>7 DEF NoErrors, JobAnswered, JobUnavailable, CollapseJobDetails, markVars
  <2>8. CASE OpenLog
    <3>1. entries[entry] \in Marks
      BY <1>2, ElementOfSeq
    <3> QED BY <1>2, <2>8, <3>1 DEF OpenLog, urlLines
  <2>9. ASSUME NEW ok \in BOOLEAN, PushAnswered(ok)
        PROVE  LogTypeOK'
    BY <1>2, <2>9 DEF PushAnswered, markVars
  <2>10. ASSUME NEW k \in DOMAIN entries, Travel(k)
         PROVE  LogTypeOK'
    BY <1>2, <2>10 DEF Travel
  <2> QED BY <1>2, <2>2, <2>4, <2>5, <2>6, <2>7, <2>8, <2>9, <2>10 DEF LogNext
<1> QED BY <1>1, <1>2, PTL DEF LogSpec

\* The URL of the log viewer names the lines that are marked, but for a reader
\* who went back or forward since the last mark.
LEMMA LinesAreLinked == LogSpec => []LinkSaysLines
<1> DEFINE Marks == Ranges \cup {NoLines}
<1>1. ASSUME LogInit PROVE LinkSaysLines
  BY <1>1 DEF LogInit, LinkSaysLines, urlLines
<1>2. ASSUME LinkSaysLines, LogTypeOK, [LogNext]_logVars
      PROVE  LinkSaysLines'
  <2>1. CASE UNCHANGED markVars
    BY <1>2, <2>1 DEF markVars, LinkSaysLines, urlLines
  <2>2. ASSUME NEW lines \in Marks, SetSelectedLine(lines)
        PROVE  LinkSaysLines'
    <3>1. UpdateQuery(lines) /\ highlight' = lines
      BY <2>2 DEF SetSelectedLine
    <3>2. entries \in Seq(Marks) /\ entry \in DOMAIN entries
      BY <1>2 DEF LogTypeOK
    <3> QED BY <3>1, <3>2, UpdatedQuery DEF LinkSaysLines, urlLines
  <2>3. CASE OpenLog
    BY <2>3 DEF OpenLog, LinkSaysLines, urlLines
  <2>4. ASSUME NEW k \in DOMAIN entries, Travel(k)
        PROVE  LinkSaysLines'
    BY <2>4 DEF Travel, LinkSaysLines
  <2>5. ASSUME NEW lines \in Marks, OnHighlight(lines)
        PROVE  LinkSaysLines'
    BY <2>2, <2>5 DEF OnHighlight
  <2>6. \A l \in FirstErrors : <<l>> \in Marks
    BY LogParameters DEF Ranges
  <2>7. CASE ClickError
    <3>1. <<errorLines>> \in Marks
      BY <1>2, <2>6, <2>7 DEF ClickError, LogTypeOK
    <3> QED BY <2>2, <2>7, <3>1 DEF ClickError
  <2>8. ASSUME NEW first \in FirstErrors, LogErrorsAnswered(first)
        PROVE  LinkSaysLines'
    <3>1. entries[entry] \in Marks
      BY <1>2, ElementOfSeq DEF LogTypeOK
    <3>2. MarkAtAnswer(first) \in Marks
      BY <2>6, <3>1 DEF MarkAtAnswer, urlLines
    <3> QED BY <2>2, <2>8, <3>2 DEF LogErrorsAnswered
  <2>9. ASSUME NEW ok, PushAnswered(ok)
        PROVE  UNCHANGED markVars
    BY <2>9 DEF PushAnswered
  <2>10. CASE NoErrors \/ JobAnswered \/ JobUnavailable \/ CollapseJobDetails
    BY <2>1, <2>10 DEF NoErrors, JobAnswered, JobUnavailable, CollapseJobDetails
  <2>11. CASE UNCHANGED logVars
    BY <2>1, <2>11 DEF logVars
  <2> QED
    BY <1>2, <2>1, <2>3, <2>4, <2>5, <2>7, <2>8, <2>9, <2>10, <2>11 DEF LogNext
<1> QED BY <1>1, <1>2, LogTypes, PTL DEF LogSpec

\* Error lines that come late leave the lines that are marked by then: those
\* that the URL names, which are the same unless the reader went back since.
THEOREM MarkIsKeptCorrect == PagesSpec => MarkIsKept
<1>1. ASSUME LinkSaysLines, [LogNext]_logVars
      PROVE  [errorLines = 0 /\ errorLines' # 0 /\ highlight # NoLines /\ ~travelled
                  => highlight' = highlight]_logVars
  <2>1. ASSUME NEW first \in FirstErrors, LogErrorsAnswered(first), highlight # NoLines, ~travelled
        PROVE  highlight' = highlight
    BY <1>1, <2>1 DEF LogErrorsAnswered, MarkAtAnswer, SetSelectedLine, LinkSaysLines
  <2>2. CASE errorLines' = errorLines
    BY <2>2
  <2>3. CASE errorLines' = 0
    BY <2>3
  <2> QED
    BY <1>1, <2>1, <2>2, <2>3
    DEF LogNext, OnHighlight, ClickError, NoErrors, JobAnswered, JobUnavailable,
        CollapseJobDetails, PushAnswered, OpenLog, Travel
<1> QED BY <1>1, LinesAreLinked, PagesImplementParts, PTL DEF LogSpec, MarkIsKept

-----------------------------------------------------------------------------
(* The spinners.                                                           *)

\* Whoever sets the spinner of the alerts has asked for the list, and whoever
\* takes the last answer clears it, unless the request threw.
ListIsAwaited == listLoading => (\E r \in alertFetches : r.kind = "list") \/ listThrown

LEMMA AlertsAwaited == AlertsSpec => []ListIsAwaited
<1>1. AlertsInit => ListIsAwaited
  BY DEF AlertsInit, ListIsAwaited
<1>2. ASSUME ListIsAwaited, [AlertsNext]_alertVars
      PROVE  ListIsAwaited'
  <2>1. CASE UNCHANGED <<loadingVars, alertFetches>>
    BY <1>2, <2>1 DEF loadingVars, ListIsAwaited
  <2>2. CASE listLoading' = FALSE
    BY <2>2 DEF ListIsAwaited
  <2>3. ASSUME NEW f, NEW p, FetchFrom(f, p)
        PROVE  ListIsAwaited'
    <3>1. AlertsRequest(f, p, NoSummary) \in alertFetches'
      BY <2>3 DEF FetchFrom, Fetch
    <3> QED BY <3>1 DEF AlertsRequest, ListIsAwaited
  <2>4. ASSUME NEW f, NEW p, NEW only, FetchList(f, p, only)
        PROVE  ListIsAwaited'
    <3>1. AlertsRequest(f, p, only) \in alertFetches'
      BY <2>4 DEF FetchList, Fetch
    <3> QED BY <3>1 DEF AlertsRequest, ListIsAwaited
  <2>5. ASSUME NEW r \in alertFetches, FetchThrows(r)
        PROVE  ListIsAwaited'
    BY <1>2, <2>5 DEF FetchThrows, ListIsAwaited
  <2>6. CASE Fetching
    BY <2>2, <2>5, <2>6 DEF Fetching, ListAnswered, UpdateAnswered, FetchRefused
  <2>7. ASSUME NEW f \in AlertFilters, UpdateFilter(f) \/ UpdateFilterText(f)
        PROVE  ListIsAwaited'
    BY <2>3, <2>7 DEF UpdateFilter, UpdateFilterText
  <2>8. CASE ToggleHide
    BY <2>1, <2>3, <2>8 DEF ToggleHide
  <2>9. ASSUME NEW p \in AlertPages, NavigatePage(p)
        PROVE  ListIsAwaited'
    BY <2>4, <2>9 DEF NavigatePage
  <2>10. ASSUME NEW s \in AlertSummaries \cup {NoSummary}, NavigateTo(s)
         PROVE  ListIsAwaited'
    BY <2>4, <2>10 DEF NavigateTo
  <2>11. ASSUME NEW s \in AlertSummaries, NEW c, SelectBy(s, c)
         PROVE  ListIsAwaited'
    BY <2>1, <2>11 DEF SelectBy
  <2>12. ASSUME NEW s \in AlertSummaries, NEW a, UpdateCheckbox(s, a)
         PROVE  ListIsAwaited'
    BY <2>1, <2>12 DEF UpdateCheckbox
  <2>13. ASSUME NEW s \in AlertSummaries, NEW st, NEW o, Modify(s, st, o)
         PROVE  ListIsAwaited'
    BY <2>1, <2>13 DEF Modify
  <2>14. ASSUME NEW m \in modifies, NEW done, ModifyAnswered(m, done)
         PROVE  ListIsAwaited'
    BY <1>2, <2>2, <2>14 DEF ModifyAnswered, ListIsAwaited
  <2>15. ASSUME NEW m \in modifies, NEW done, ModifyThrows(m, done)
         PROVE  ListIsAwaited'
    BY <2>1, <2>15 DEF ModifyThrows
  <2>16. CASE UNCHANGED alertVars
    BY <2>1, <2>16 DEF alertVars
  <2> QED
    BY <1>2, <2>6, <2>7, <2>8, <2>9, <2>10, <2>11, <2>12, <2>13, <2>14, <2>15, <2>16 DEF AlertsNext
<1> QED BY <1>1, <1>2, PTL DEF AlertsSpec

\* The same of the graphs, where the answer comes in two steps.
LEMMA GraphsAwaited == GraphSpec => []GraphLoadingIsAwaited
<1>1. GraphInit => GraphLoadingIsAwaited
  BY DEF GraphInit, GraphLoadingIsAwaited
<1>2. ASSUME GraphLoadingIsAwaited, [GraphNext]_graphVars
      PROVE  GraphLoadingIsAwaited'
  <2>1. CASE UNCHANGED <<graphLoading, graphLoads, graphThrown>>
    BY <1>2, <2>1 DEF GraphLoadingIsAwaited
  <2>2. CASE graphLoading' = FALSE
    BY <2>2 DEF GraphLoadingIsAwaited
  <2>3. CASE graphLoads' # {}
    BY <2>3 DEF GraphLoadingIsAwaited
  <2>4. ASSUME NEW added, NEW init, GetTestData(added, init)
        PROVE  graphLoads' # {}
    BY <2>4 DEF GetTestData
  <2>5. ASSUME NEW r, NEW added, NewRange(r, added)
        PROVE  graphLoads' # {}
    BY <2>4, <2>5 DEF NewRange
  <2>6. ASSUME NEW l \in graphLoads, SeriesAnswered(l)
        PROVE  graphLoads' # {}
    BY <2>6 DEF SeriesAnswered
  <2>7. ASSUME NEW l \in graphLoads, SeriesRefused(l) \/ AlertsAnswered(l)
        PROVE  graphLoading' = FALSE
    BY <2>7 DEF SeriesRefused, AlertsAnswered
  <2>8. ASSUME NEW s \in Series, UpdateSelectedTest(s) \/ SetTooltip(s) \/ CreateAlert(s)
        PROVE  UNCHANGED <<graphLoading, graphLoads, graphThrown>>
    BY <2>8 DEF UpdateSelectedTest, SetTooltip, CreateAlert, loadVars
  <2>9. ASSUME NEW k, RemoveTest(k)
        PROVE  UNCHANGED <<graphLoading, graphLoads, graphThrown>>
    BY <2>9 DEF RemoveTest, loadVars
  <2>10. CASE Highlight \/ CloseTooltip \/ UpdateZoom \/ CloseChooser
    BY <2>1, <2>10 DEF Highlight, CloseTooltip, UpdateZoom, CloseChooser, loadVars
  <2>11. CASE SubmitTests
    BY <2>3, <2>4, <2>5, <2>11 DEF SubmitTests
  <2>12. ASSUME NEW r \in {1, 2}, UpdateTimeRange(r)
         PROVE  graphLoads' # {}
    BY <2>5, <2>12 DEF UpdateTimeRange
  <2>13. ASSUME NEW r, ChangeOptions(r)
         PROVE  UNCHANGED <<graphLoading, graphLoads, graphThrown>>
    BY <2>13 DEF ChangeOptions, loadVars
  <2>14. ASSUME NEW u \in newAlerts, AlertCreated(u) \/ AlertRefused(u)
         PROVE  UNCHANGED <<graphLoading, graphLoads, graphThrown>>
    BY <2>14 DEF AlertCreated, AlertRefused, loadVars
  <2>15. ASSUME NEW x, OpenChooser(x) \/ TestsListed(x) \/ UpdateSelectedTests(x)
         PROVE  UNCHANGED <<graphLoading, graphLoads, graphThrown>>
    BY <2>15 DEF OpenChooser, TestsListed, UpdateSelectedTests, loadVars
  <2>16. CASE UNCHANGED graphVars
    BY <2>1, <2>16 DEF graphVars, loadVars
  <2>17. ASSUME NEW l \in graphLoads, SeriesThrows(l)
         PROVE  GraphLoadingIsAwaited'
    BY <2>17 DEF SeriesThrows, GraphLoadingIsAwaited
  <2> QED
    BY <1>2, <2>1, <2>2, <2>3, <2>6, <2>7, <2>8, <2>9, <2>10, <2>11, <2>12, <2>13, <2>14, <2>15,
       <2>16, <2>17
    DEF GraphNext
<1> QED BY <1>1, <1>2, PTL DEF GraphSpec

\* Repositories are asked for when the health is there, and a health that is
\* not there yet is awaited, was refused or threw.
HealthIsAwaited ==
    /\ nHealthPolls \in Nat /\ health \in Nat \cup {NoTests}
    /\ "repos" \in healthLoads => health # NoTests
    /\ healthTab # NoHealthTab => health # NoTests
    /\ GatheringIsAwaited

LEMMA HealthAwaited == HealthSpec => []HealthIsAwaited
<1>1. ASSUME HealthInit
      PROVE  HealthIsAwaited
  <2>1. nHealthPolls = 0 /\ healthLoads = {"first"} /\ health = NoTests /\ healthTab = NoHealthTab
    BY <1>1 DEF HealthInit
  <2> QED BY <2>1 DEF HealthIsAwaited, GatheringIsAwaited
<1>2. ASSUME HealthIsAwaited, [HealthNext]_healthVars
      PROVE  HealthIsAwaited'
  <2> USE DEF HealthIsAwaited, GatheringIsAwaited
  <2>1. CASE UNCHANGED <<dataState, healthTab>>
    BY <1>2, <2>1 DEF dataState
  <2>2. ASSUME NEW what \in healthLoads \ {"repos"}, HealthAnswered(what)
        PROVE  HealthIsAwaited'
    <3>1. health' \in Nat
      BY <1>2, <2>2 DEF HealthAnswered, NoTests
    <3> QED BY <1>2, <2>2, <3>1 DEF HealthAnswered, NoTests
  <2>3. ASSUME NEW what \in healthLoads \ {"repos"}, HealthRefused(what)
        PROVE  HealthIsAwaited'
    BY <1>2, <2>3 DEF HealthRefused, tabState
  <2>4. ASSUME NEW what \in healthLoads \ {"repos"}, HealthThrows(what)
        PROVE  HealthIsAwaited'
    BY <1>2, <2>4 DEF HealthThrows, tabState
  <2>5. ASSUME NEW tab, "repos" \in healthLoads, HealthReposAnswered(tab)
        PROVE  HealthIsAwaited'
    BY <1>2, <2>5 DEF HealthReposAnswered
  <2>6. CASE "repos" \in healthLoads /\ HealthReposThrow
    BY <1>2, <2>6 DEF HealthReposThrow, tabState
  <2>7. CASE PollHealth
    BY <1>2, <2>7 DEF PollHealth, UpdatePushHealth, tabState
  <2>8. ASSUME NEW m \in marks, MarkAnswered(m)
        PROVE  HealthIsAwaited'
    BY <1>2, <2>8 DEF MarkAnswered, UpdatePushHealth, tabState
  <2>9. CASE GoBack \/ ToggleTest \/ SelectAll
    BY <2>1, <2>9 DEF GoBack, ToggleTest, SelectAll, tabState
  <2>10. ASSUME NEW x, SearchTests(x) \/ SetGroupedBy(x) \/ ToggleGroup(x) \/ SelectTest(x)
                         \/ OthersMark(x) \/ Marking(x)
         PROVE  UNCHANGED <<dataState, healthTab>>
    BY <2>10 DEF SearchTests, SetGroupedBy, ToggleGroup, SelectTest, OthersMark, Marking, Browse, tabState
  <2>11. ASSUME NEW t, NEW task, SetSelectedTask(t, task)
         PROVE  UNCHANGED <<dataState, healthTab>>
    BY <2>11 DEF SetSelectedTask, tabState
  <2>12. ASSUME NEW tab, SwitchTab(tab)
         PROVE  HealthIsAwaited'
    BY <1>2, <2>12 DEF SwitchTab, dataState
  <2>13. CASE UNCHANGED healthVars
    BY <2>1, <2>13 DEF healthVars, tabState
  <2> QED
    BY <1>2, <2>1, <2>2, <2>3, <2>4, <2>5, <2>6, <2>7, <2>8, <2>9, <2>10, <2>11, <2>12, <2>13 DEF HealthNext
<1> QED BY <1>1, <1>2, PTL DEF HealthSpec

\* The state of a card.
CardState == [recent : ChooserProjects \cup {NoRecent}, disabled : BOOLEAN, invalid : BOOLEAN,
              validating : BOOLEAN, validated : BOOLEAN]

\* A verdict about one card ends its validation and leaves the other.
LEMMA VerdictEnds ==
    ASSUME NEW cs \in [Cards -> CardState], NEW c \in Cards,
           NEW new, new = RevisionAccepted(cs, c) \/ new = Rejected(cs, c)
    PROVE  /\ new \in [Cards -> CardState]
           /\ ~new[c].validating
           /\ \A d \in Cards \ {c} : new[d] = cs[d]
<1>1. ASSUME NEW b \in BOOLEAN, new = [cs EXCEPT ![c].invalid = b, ![c].validating = FALSE,
                                             ![c].validated = TRUE]
      PROVE  /\ new \in [Cards -> CardState]
             /\ ~new[c].validating
             /\ \A d \in Cards \ {c} : new[d] = cs[d]
  <2> DEFINE c1 == [cs EXCEPT ![c].invalid = b]
             c2 == [c1 EXCEPT ![c].validating = FALSE]
             c3 == [c2 EXCEPT ![c].validated = TRUE]
  <2>1. c1 \in [Cards -> CardState] /\ \A d \in Cards \ {c} : c1[d] = cs[d]
    BY <1>1 DEF CardState
  <2> HIDE DEF c1
  <2>2. /\ c2 \in [Cards -> CardState] /\ c2[c].validating = FALSE
        /\ \A d \in Cards \ {c} : c2[d] = c1[d]
    BY <2>1 DEF CardState
  <2> HIDE DEF c2
  <2>3. /\ c3 \in [Cards -> CardState] /\ c3[c].validating = FALSE
        /\ \A d \in Cards \ {c} : c3[d] = c2[d]
    BY <2>2 DEF CardState
  <2>4. new = c3
    BY <1>1 DEF c1, c2
  <2> HIDE DEF c3
  <2> QED BY <2>1, <2>2, <2>3, <2>4
<1> QED BY <1>1 DEF RevisionAccepted, Rejected

\* A lookup is of one of the two cards, so is a list of revisions; each card
\* that validates has a lookup.
LookupsAreOfCards ==
    /\ cards \in [Cards -> CardState]
    /\ \A q \in recentLoads : q.card \in Cards /\ q.project \in ChooserProjects
    /\ \A q \in lookups : q.card \in Cards
    /\ ValidatingIsAwaited

LEMMA LookupsAwaited == ChooserSpec => []LookupsAreOfCards
<1> USE DEF LookupsAreOfCards, ValidatingIsAwaited
<1>1. ASSUME ChooserInit
      PROVE  LookupsAreOfCards
  <2>1. cards \in [Cards -> CardState] /\ \A c \in Cards : ~cards[c].validating
    BY <1>1 DEF ChooserInit, CardState
  <2>2. project \in [Cards -> ChooserProjects] /\ lookups = {}
    BY <1>1 DEF ChooserInit
  <2>3. recentLoads = {[id |-> 0, card |-> c, project |-> project[c], revision |-> revision[c]]
                         : c \in Cards}
    BY <1>1 DEF ChooserInit
  <2>4. ASSUME NEW q \in recentLoads
        PROVE  q.card \in Cards /\ q.project \in ChooserProjects
    <3>1. PICK c \in Cards : q = [id |-> 0, card |-> c, project |-> project[c],
                                  revision |-> revision[c]]
      BY <2>3, <2>4
    <3> QED BY <2>2, <3>1
  <2> QED BY <2>1, <2>2, <2>4
<1>2. ASSUME LookupsAreOfCards, [ChooserNext]_chooserVars
      PROVE  LookupsAreOfCards'
  <2>1. CASE UNCHANGED <<cards, recentLoads, lookups, lookupThrown>>
    BY <1>2, <2>1
  <2>2. ASSUME NEW c \in Cards, NEW p \in ChooserProjects, UpdateRevisions(c, p)
        PROVE  LookupsAreOfCards'
    <3>1. cards' = [cards EXCEPT ![c].disabled = TRUE] /\ UNCHANGED <<lookups, lookupThrown>>
      BY <2>2 DEF UpdateRevisions, FetchRevisions
    <3>2. \A q \in recentLoads' : q.card \in Cards /\ q.project \in ChooserProjects
      BY <1>2, <2>2 DEF UpdateRevisions, FetchRevisions
    <3>3. cards \in [Cards -> CardState]
      BY <1>2
    <3>4. cards' \in [Cards -> CardState]
      BY <3>1, <3>3 DEF CardState
    <3>5. \A d \in Cards : cards'[d].validating = cards[d].validating
      BY <3>1, <3>3 DEF CardState
    <3> QED BY <1>2, <3>1, <3>2, <3>4, <3>5
  <2>3. ASSUME NEW c \in Cards, NEW r, SelectRevision(c, r)
        PROVE  LookupsAreOfCards'
    <3>1. cards' = [cards EXCEPT ![c].invalid = FALSE] /\ UNCHANGED <<recentLoads, lookups, lookupThrown>>
      BY <2>3 DEF SelectRevision, chooserReqVars
    <3>2. cards \in [Cards -> CardState]
      BY <1>2
    <3>3. cards' \in [Cards -> CardState]
      BY <3>1, <3>2 DEF CardState
    <3>4. \A d \in Cards : cards'[d].validating = cards[d].validating
      BY <3>1, <3>2 DEF CardState
    <3> QED BY <1>2, <3>1, <3>3, <3>4
  <2>4. ASSUME NEW c \in Cards, FocusRevision(c)
        PROVE  LookupsAreOfCards'
    <3> DEFINE c1 == [cards EXCEPT ![c].invalid = FALSE]
    <3>1. cards' = [c1 EXCEPT ![c].validated = FALSE] /\ UNCHANGED <<recentLoads, lookups, lookupThrown>>
      BY <2>4 DEF FocusRevision, chooserReqVars
    <3>2. cards \in [Cards -> CardState]
      BY <1>2
    <3>3. c1 \in [Cards -> CardState]
      BY <3>2 DEF CardState
    <3>4. \A d \in Cards : c1[d].validating = cards[d].validating
      BY <3>2 DEF CardState
    <3> HIDE DEF c1
    <3>5. cards' \in [Cards -> CardState]
      BY <3>1, <3>3 DEF CardState
    <3>6. \A d \in Cards : cards'[d].validating = c1[d].validating
      BY <3>1, <3>3 DEF CardState
    <3> QED BY <1>2, <3>1, <3>4, <3>5, <3>6
  \* What the check of an input does to cards of this kind.
  <2>5. ASSUME NEW c \in Cards, NEW value, NEW cs \in [Cards -> CardState],
               ValidateInput(c, value, cs),
               \A d \in Cards : cs[d].validating => d \in lookupThrown \/ \E q \in lookups : q.card = d,
               \A q \in recentLoads' : q.card \in Cards /\ q.project \in ChooserProjects
        PROVE  LookupsAreOfCards'
    <3>1. CASE cards' = cs /\ UNCHANGED <<lookups, lookupThrown>>
      BY <1>2, <2>5, <3>1
    <3>2. CASE cards' = [cs EXCEPT ![c].validated = FALSE] /\ UNCHANGED <<lookups, lookupThrown>>
      <4>1. /\ cards' \in [Cards -> CardState]
            /\ \A d \in Cards : cards'[d].validating = cs[d].validating
        BY <2>5, <3>2 DEF CardState
      <4> QED BY <1>2, <2>5, <3>2, <4>1
    <3>3. CASE cards' = [cs EXCEPT ![c].invalid = TRUE] /\ UNCHANGED <<lookups, lookupThrown>>
      <4>1. /\ cards' \in [Cards -> CardState]
            /\ \A d \in Cards : cards'[d].validating = cs[d].validating
        BY <2>5, <3>3 DEF CardState
      <4> QED BY <1>2, <2>5, <3>3, <4>1
    <3>4. CASE cards' = RevisionAccepted(cs, c) /\ UNCHANGED <<lookups, lookupThrown>>
      BY <1>2, <2>5, <3>4, VerdictEnds
    <3>5. CASE /\ cards' = [cs EXCEPT ![c].validating = TRUE]
               /\ \E q : q.card = c /\ lookups' = lookups \cup {q}
               /\ lookupThrown' = lookupThrown \ {c}
      <4>1. PICK q : q.card = c /\ lookups' = lookups \cup {q}
        BY <3>5
      <4>2. cards' \in [Cards -> CardState] /\ \A d \in Cards \ {c} : cards'[d] = cs[d]
        BY <2>5, <3>5 DEF CardState
      <4> QED BY <1>2, <2>5, <3>5, <4>1, <4>2
    <3> QED
      BY <2>5, <3>1, <3>2, <3>3, <3>4, <3>5 DEF ValidateInput
  <2>6. ASSUME NEW c \in Cards, NEW r, TypeRevision(c, r)
        PROVE  LookupsAreOfCards'
    BY <1>2, <2>5, <2>6 DEF TypeRevision
  <2>7. ASSUME NEW q \in recentLoads, RecentAnswered(q)
        PROVE  LookupsAreOfCards'
    <3> DEFINE c1 == [cards EXCEPT ![q.card].recent = q.project]
               cs == [c1 EXCEPT ![q.card].disabled = FALSE]
    <3>1. q.card \in Cards /\ q.project \in ChooserProjects \cup {NoRecent}
      BY <1>2, <2>7
    <3>2. c1 \in [Cards -> CardState] /\ \A d \in Cards : c1[d].validating = cards[d].validating
      BY <1>2, <3>1 DEF CardState
    <3>3. cs = [cards EXCEPT ![q.card].recent = q.project, ![q.card].disabled = FALSE]
      OBVIOUS
    <3> HIDE DEF c1
    <3>4. cs \in [Cards -> CardState] /\ \A d \in Cards : cs[d].validating = cards[d].validating
      BY <3>1, <3>2 DEF CardState
    <3> HIDE DEF cs
    <3>5. recentLoads' = recentLoads \ {q}
      BY <2>7 DEF RecentAnswered
    <3>6. CASE ValidateInput(q.card, q.revision, cs)
      BY <1>2, <2>5, <3>1, <3>4, <3>5, <3>6
    <3>7. CASE cards' = cs /\ UNCHANGED <<lookups, lookupThrown>>
      BY <1>2, <3>4, <3>5, <3>7
    <3> QED BY <2>7, <3>3, <3>6, <3>7 DEF RecentAnswered
  <2>8. ASSUME NEW q \in recentLoads, RecentRefused(q) \/ RecentThrows(q)
        PROVE  LookupsAreOfCards'
    BY <1>2, <2>8 DEF RecentRefused, RecentThrows, pageVars
  <2>9. ASSUME NEW q \in lookups, LookupAnswered(q) \/ LookupRefused(q)
        PROVE  LookupsAreOfCards'
    <3>1. cards' = RevisionAccepted(cards, q.card) \/ cards' = Rejected(cards, q.card)
      BY <2>9 DEF LookupAnswered, LookupRefused
    <3>2. lookups' = lookups \ {q} /\ UNCHANGED <<recentLoads, lookupThrown>>
      BY <2>9 DEF LookupAnswered, LookupRefused
    <3>3. /\ cards' \in [Cards -> CardState]
          /\ ~cards'[q.card].validating
          /\ \A d \in Cards \ {q.card} : cards'[d] = cards[d]
      BY <1>2, <2>9, <3>1, VerdictEnds
    <3> QED BY <1>2, <2>9, <3>2, <3>3
  <2>10. ASSUME NEW f, ChooseFramework(f)
         PROVE  UNCHANGED <<cards, recentLoads, lookups, lookupThrown>>
    BY <2>10 DEF ChooseFramework, chooserReqVars
  <2>11. CASE SubmitData
    BY <2>1, <2>11 DEF SubmitData, chooserReqVars
  <2>12. CASE UNCHANGED chooserVars
    BY <2>1, <2>12 DEF chooserVars, chooserReqVars
  <2>13. ASSUME NEW q \in lookups, LookupThrows(q)
         PROVE  LookupsAreOfCards'
    BY <1>2, <2>13 DEF LookupThrows
  <2> QED
    BY <1>2, <2>1, <2>2, <2>3, <2>4, <2>6, <2>7, <2>8, <2>9, <2>10, <2>11, <2>12, <2>13
    DEF ChooserNext
<1> QED BY <1>1, <1>2, PTL DEF ChooserSpec

\* No page says that it is loading, validating or gathering unless an answer is
\* awaited that ends it, or the fetch that was to end it threw.
THEOREM PagesAwaitAnswersCorrect == PagesSpec => []PagesAwaitAnswers
<1>1. ListIsAwaited /\ GraphLoadingIsAwaited /\ LookupsAreOfCards /\ HealthIsAwaited
        => PagesAwaitAnswers
  BY DEF ListIsAwaited, AlertsLoadingIsAwaited, LookupsAreOfCards, HealthIsAwaited, PagesAwaitAnswers
<1> QED
  BY <1>1, AlertsAwaited, GraphsAwaited, LookupsAwaited, HealthAwaited, PagesImplementParts, PTL

-----------------------------------------------------------------------------
(* The login.                                                              *)

Told(heard) == heard # <<>> /\ heard[Len(heard)] = "out"

\* What is told stays told behind a login that is heard first, and is told by a
\* logout that is heard last.
LEMMA ToldLast ==
    ASSUME NEW heard \in Seq({"in", "out"})
    PROVE  /\ Told(Append(heard, "out"))
           /\ heard # <<>> /\ Head(heard) = "in" /\ Told(heard) => Told(Tail(heard))
<1>1. Told(Append(heard, "out"))
  <2>1. Len(Append(heard, "out")) = Len(heard) + 1 /\ Append(heard, "out")[Len(heard) + 1] = "out"
    OBVIOUS
  <2>2. Append(heard, "out") # <<>>
    BY <2>1
  <2> QED BY <2>1, <2>2 DEF Told
<1>2. ASSUME heard # <<>>, Head(heard) = "in", Told(heard)
      PROVE  Told(Tail(heard))
  <2>1. heard[1] = "in" /\ heard[Len(heard)] = "out"
    BY <1>2 DEF Told
  <2>2. /\ Len(heard) \in Nat \ {0} /\ Len(Tail(heard)) = Len(heard) - 1
        /\ \A i \in 1 .. Len(Tail(heard)) : Tail(heard)[i] = heard[i + 1]
    BY <1>2, EmptySeq, HeadTailProperties
  <2>3. \A n \in Nat \ {0} : n # 1 => n - 1 \in 1 .. n - 1 /\ n - 1 # 0 /\ n - 1 + 1 = n
    OBVIOUS
  <2>4. Len(heard) # 1
    BY <2>1
  <2>5. Len(Tail(heard)) # 0 /\ Tail(heard)[Len(Tail(heard))] = heard[Len(heard)]
    BY <2>2, <2>3, <2>4
  <2>6. Tail(heard) # <<>>
    BY <2>5, EmptySeq
  <2> QED BY <2>1, <2>5, <2>6 DEF Told
<1> QED BY <1>1, <1>2

\* The session is there while somebody is logged in; a tab that still shows
\* somebody who is not will hear, last of all, that nobody is.
LogoutIsTold ==
    /\ store \in [user : {"in", "out"}, session : BOOLEAN, expired : BOOLEAN,
                  credentials : {"none", "valid"}, requestState : Nat]
    /\ windows \subseteq [id : Nat, stage : {"login", "fetch", "authorize", "token", "error"}]
    /\ nWindows \in Nat
    /\ shownUser \in [Tabs -> {"unset", "in", "out"}]
    /\ events \in [Tabs -> Seq({"in", "out"})]
    /\ store.session <=> store.user = "in"
    /\ \A t \in Tabs : store.user = "out" /\ shownUser[t] = "in" => Told(events[t])

\* What a tab hears is added to what it has not handled yet.
LEMMA LogoutTells ==
    ASSUME LogoutIsTold, NEW t \in Tabs, NEW evs \in [Tabs -> Seq({"in", "out"})],
           \A u \in Tabs \ {t} : evs[u] = events[u],
           AuthLogout(t, evs), windows' = windows, nWindows' = nWindows
    PROVE  LogoutIsTold'
<1> USE DEF LogoutIsTold
<1>1. /\ store' \in [user : {"in", "out"}, session : BOOLEAN, expired : BOOLEAN,
                     credentials : {"none", "valid"}, requestState : Nat]
      /\ store'.user = "out" /\ store'.session = FALSE
  BY DEF AuthLogout
<1>2. shownUser' \in [Tabs -> {"unset", "in", "out"}] /\ shownUser'[t] = "out"
  BY DEF AuthLogout
<1>3. events' \in [Tabs -> Seq({"in", "out"})]
  BY DEF AuthLogout, Heard
<1>4. ASSUME NEW u \in Tabs, shownUser'[u] = "in"
      PROVE  Told(events'[u])
  <2>1. u # t /\ shownUser[u] = "in" /\ evs[u] = events[u] /\ events[u] \in Seq({"in", "out"})
    BY <1>2, <1>4 DEF AuthLogout
  <2>2. CASE store.user = "out"
    BY <2>1, <2>2 DEF AuthLogout, Heard
  <2>3. CASE store.user = "in"
    <3>1. events'[u] = Append(events[u], "out")
      BY <2>1, <2>3 DEF AuthLogout, Heard
    <3> QED BY <2>1, <3>1, ToldLast
  <2> QED BY <2>2, <2>3
<1> QED BY <1>1, <1>2, <1>3, <1>4

\* While somebody is logged in there is nothing to be told.
LEMMA LoginTellsNothing ==
    ASSUME LogoutIsTold, NEW writer, SaveCredentials(writer), windows' \subseteq windows,
           nWindows' = nWindows, shownUser' = shownUser
    PROVE  LogoutIsTold'
<1>1. /\ store' \in [user : {"in", "out"}, session : BOOLEAN, expired : BOOLEAN,
                     credentials : {"none", "valid"}, requestState : Nat]
      /\ store'.user = "in" /\ store'.session = TRUE
  BY DEF LogoutIsTold, SaveCredentials
<1>2. events' \in [Tabs -> Seq({"in", "out"})]
  BY DEF LogoutIsTold, SaveCredentials, Heard
<1> QED BY <1>1, <1>2 DEF LogoutIsTold

LEMMA LogoutTold == SessionSpec => []LogoutIsTold
<1> USE DEF LogoutIsTold
<1>1. SessionInit => LogoutIsTold
  BY DEF SessionInit
<1>2. ASSUME LogoutIsTold, [SessionNext]_sessionVars
      PROVE  LogoutIsTold'
  <2> DEFINE sessionState == <<store, windows, nWindows, shownUser, events>>
  <2>1. CASE UNCHANGED sessionState
    BY <1>2, <2>1 DEF Told
  <2>2. ASSUME NEW t \in Tabs, ServerAnswers(t) \/ LogoutRefused(t) \/ RenewAuth(t) \/ RenewedToken(t)
        PROVE  UNCHANGED sessionState
    BY <2>2 DEF ServerAnswers, LogoutRefused, RenewAuth, RenewedToken, sessionCounts
  <2>3. ASSUME NEW t \in Tabs, CheckAnswered(t)
        PROVE  LogoutIsTold'
    <3>1. CASE store.session /\ SetLoggedIn(t) /\ UNCHANGED <<store, events>>
      BY <1>2, <2>3, <3>1 DEF CheckAnswered, SetLoggedIn, sessionCounts
    <3>2. CASE AuthLogout(t, events)
      BY <1>2, <2>3, <3>2, LogoutTells DEF CheckAnswered, sessionCounts
    <3> QED BY <2>3, <3>1, <3>2 DEF CheckAnswered
  <2>4. ASSUME NEW t \in Tabs, HandleStorageEvent(t)
        PROVE  LogoutIsTold'
    <3> DEFINE left == [events EXCEPT ![t] = Tail(@)]
    <3>1. events[t] \in Seq({"in", "out"}) /\ events[t] # <<>>
      BY <1>2, <2>4 DEF HandleStorageEvent
    <3>2. left \in [Tabs -> Seq({"in", "out"})] /\ \A u \in Tabs \ {t} : left[u] = events[u]
      BY <1>2, <3>1
    <3>3. UNCHANGED <<windows, nWindows>>
      BY <2>4 DEF HandleStorageEvent, sessionCounts
    <3>4. CASE AuthLogout(t, left)
      BY <1>2, <3>2, <3>3, <3>4, LogoutTells
    <3>5. CASE Head(events[t]) = "in" /\ SetLoggedIn(t) /\ events' = left /\ UNCHANGED store
      <4>1. CASE store.session
        BY <1>2, <3>2, <3>3, <3>5, <4>1 DEF SetLoggedIn
      <4>2. CASE ~store.session
        <5>1. Told(events[t]) => Told(left[t])
          BY <1>2, <3>1, <3>5, ToldLast
        <5>2. UNCHANGED shownUser
          BY <3>5, <4>2 DEF SetLoggedIn
        <5>3. \A u \in Tabs : Told(events[u]) => Told(events'[u])
          BY <3>2, <3>5, <5>1
        <5> HIDE DEF left
        <5> QED BY <1>2, <3>2, <3>3, <3>5, <5>2, <5>3
      <4> QED BY <4>1, <4>2
    <3> QED BY <2>4, <3>4, <3>5 DEF HandleStorageEvent
  <2>5. ASSUME NEW t \in Tabs, Login(t)
        PROVE  LogoutIsTold'
    <3>1. UNCHANGED <<store, shownUser, events>>
      BY <2>5 DEF Login, tabVars
    <3>2. windows' \subseteq [id : Nat, stage : {"login", "fetch", "authorize", "token", "error"}]
            /\ nWindows' \in Nat
      BY <1>2, <2>5 DEF Login
    <3> QED BY <1>2, <3>1, <3>2 DEF Told
  <2>6. ASSUME NEW t \in Tabs, Logout(t)
        PROVE  LogoutIsTold'
    <3>1. UNCHANGED <<windows, nWindows, shownUser, events>>
      BY <2>6 DEF Logout, sessionCounts
    <3>2. store' = [store EXCEPT !.credentials = "none"]
      BY <2>6 DEF Logout
    <3> QED BY <1>2, <3>1, <3>2 DEF Told
  <2>7. ASSUME NEW t \in Tabs, LogoutAnswered(t)
        PROVE  LogoutIsTold'
    BY <1>2, <2>7, LogoutTells DEF LogoutAnswered, sessionCounts
  <2>8. ASSUME NEW t \in Tabs, Reload(t)
        PROVE  LogoutIsTold'
    <3>1. UNCHANGED <<store, windows, nWindows>>
      BY <2>8 DEF Reload
    <3>2. /\ shownUser' = [shownUser EXCEPT ![t] = "unset"]
          /\ events' = [events EXCEPT ![t] = <<>>]
      BY <2>8 DEF Reload
    <3>3. \A u \in Tabs : shownUser'[u] = "in" => shownUser[u] = "in" /\ events'[u] = events[u]
      BY <1>2, <3>2
    <3> QED BY <1>2, <3>1, <3>2, <3>3
  <2>9. ASSUME NEW t \in Tabs, RenewedUser(t)
        PROVE  LogoutIsTold'
    BY <1>2, <2>9, LoginTellsNothing DEF RenewedUser, sessionCounts
  <2>10. ASSUME NEW t \in Tabs, NEW consent \in BOOLEAN, RenewalRefused(t, consent)
         PROVE  LogoutIsTold'
    <3>1. UNCHANGED <<windows, nWindows>>
      BY <2>10 DEF RenewalRefused, sessionCounts
    <3>2. CASE AuthLogout(t, events)
      BY <1>2, <2>10, <3>1, <3>2, LogoutTells
    <3>3. CASE UNCHANGED <<store, events, shownUser>>
      BY <2>1, <3>1, <3>3
    <3> QED BY <2>10, <3>2, <3>3 DEF RenewalRefused
  <2>11. CASE TokenExpires
    <3>1. UNCHANGED <<windows, nWindows, shownUser, events>>
      BY <2>11 DEF TokenExpires, tabVars, sessionCounts
    <3>2. store' = [store EXCEPT !.expired = TRUE]
      BY <2>11 DEF TokenExpires
    <3> QED BY <1>2, <3>1, <3>2 DEF Told
  <2>12. ASSUME NEW w \in windows, NEW stage \in {"login", "fetch", "authorize", "token", "error"},
                At(w, stage)
         PROVE  windows' \subseteq [id : Nat, stage : {"login", "fetch", "authorize", "token", "error"}]
    BY <1>2, <2>12 DEF At
  <2>13. ASSUME NEW w \in windows,
                LoginReturned(w) \/ TaskclusterReturned(w) \/ WindowRefused(w) \/ CloseWindow(w)
         PROVE  LogoutIsTold'
    <3>1. UNCHANGED <<store, nWindows, shownUser, events>>
      BY <2>13 DEF LoginReturned, TaskclusterReturned, WindowRefused, CloseWindow, tabVars,
                   sessionCounts
    <3>2. windows' \subseteq [id : Nat, stage : {"login", "fetch", "authorize", "token", "error"}]
      BY <1>2, <2>12, <2>13 DEF LoginReturned, TaskclusterReturned, WindowRefused, CloseWindow
    <3> QED BY <1>2, <3>1, <3>2 DEF Told
  <2>14. ASSUME NEW w \in windows, LoginSaved(w)
         PROVE  LogoutIsTold'
    <3>1. /\ store' \in [user : {"in", "out"}, session : BOOLEAN, expired : BOOLEAN,
                         credentials : {"none", "valid"}, requestState : Nat]
          /\ store'.user = "in" /\ store'.session = TRUE
      BY <1>2, <2>14 DEF LoginSaved
    <3>2. events' \in [Tabs -> Seq({"in", "out"})] /\ UNCHANGED <<shownUser, nWindows>>
      BY <1>2, <2>14 DEF LoginSaved, Heard, sessionCounts
    <3>3. windows' \subseteq [id : Nat, stage : {"login", "fetch", "authorize", "token", "error"}]
      BY <1>2, <2>12, <2>14 DEF LoginSaved
    <3> QED BY <1>2, <3>1, <3>2, <3>3
  <2>15. ASSUME NEW w \in windows, CredentialsFetched(w)
         PROVE  LogoutIsTold'
    <3>1. UNCHANGED <<nWindows, shownUser, events>> /\ windows' \subseteq windows
      BY <2>15 DEF CredentialsFetched, tabVars, sessionCounts
    <3>2. store' = [store EXCEPT !.credentials = "valid"]
      BY <2>15 DEF CredentialsFetched
    <3> QED BY <1>2, <3>1, <3>2 DEF Told
  <2>16. CASE UNCHANGED sessionVars
    BY <2>1, <2>16 DEF sessionVars, tabVars, sessionCounts
  <2> QED
    BY <1>2, <2>1, <2>2, <2>3, <2>4, <2>5, <2>6, <2>7, <2>8, <2>9, <2>10, <2>11, <2>13, <2>14,
       <2>15, <2>16
    DEF SessionNext
<1> QED BY <1>1, <1>2, PTL DEF SessionSpec

\* A tab that has handled all it has been told shows nobody as logged in once
\* the session is gone.
THEOREM LoggedOutIsShownCorrect == PagesSpec => []LoggedOutIsShown
<1>1. LogoutIsTold => LoggedOutIsShown
  BY DEF LogoutIsTold, LoggedOutIsShown, Told
<1> QED BY <1>1, LogoutTold, PagesImplementParts, PTL

-----------------------------------------------------------------------------
(* The header of an alert summary.                                         *)

\* What is typed into the dialog is validated again before it can be assigned.
LinkIsChecked ==
    /\ linkInput \in [text : Texts, validated : BOOLEAN, invalid : BOOLEAN, due : BOOLEAN]
    /\ linkInput.validated /\ ~linkInput.invalid => IsNumber(linkInput.text)
    /\ LinkedByNumber

LEMMA LinkChecked == MenuSpec => []LinkIsChecked
<1> USE DEF LinkIsChecked, LinkedByNumber
<1>1. ASSUME MenuInit
      PROVE  LinkIsChecked
  <2>1. linkInput = NewInput /\ linked = {}
    BY <1>1 DEF MenuInit
  <2> QED BY <2>1 DEF NewInput, Texts
<1>2. ASSUME LinkIsChecked, [MenuNext]_menuVars
      PROVE  LinkIsChecked'
  <2>1. CASE UNCHANGED <<linkInput, linked>>
    BY <1>2, <2>1
  <2>2. ASSUME NEW text \in Texts, TypeLink(text)
        PROVE  LinkIsChecked'
    BY <1>2, <2>2 DEF TypeLink, Typed
  <2>3. CASE LinkValidated
    <3>1. CASE linkInput' = [linkInput EXCEPT !.due = FALSE]
      BY <1>2, <2>3, <3>1 DEF LinkValidated
    <3>2. CASE linkInput' = [linkInput EXCEPT !.due = FALSE, !.validated = TRUE,
                                              !.invalid = ~IsNumber(linkInput.text)]
      BY <1>2, <2>3, <3>2 DEF LinkValidated, IsNumber
    <3> QED BY <2>3, <3>1, <3>2 DEF LinkValidated
  <2>4. CASE AssignBug
    BY <1>2, <2>4 DEF AssignBug
  <2>5. CASE UnlinkBug \/ FileValidated \/ EditNotes \/ SaveNotes \/ FileRegression
    BY <2>1, <2>5 DEF UnlinkBug, FileValidated, EditNotes, SaveNotes, FileRegression, menuModalVars
  <2>6. CASE GoToEditMode \/ EscapeKey \/ PressedEnter
    BY <2>1, <2>6 DEF GoToEditMode, EscapeKey, PressedEnter, Edit, menuModalVars
  <2>7. ASSUME NEW x, \/ SetStatus(x) \/ ChangedElsewhere(x) \/ ChangeSaved(x) \/ ChangeRefused(x)
                      \/ OpenMenuDialog(x) \/ CloseMenuDialog(x) \/ TypeFile(x)
        PROVE  UNCHANGED <<linkInput, linked>>
    BY <2>7 DEF SetStatus, ChangedElsewhere, ChangeSaved, ChangeRefused, OpenMenuDialog,
                CloseMenuDialog, TypeFile, menuModalVars
  <2>8. ASSUME NEW x, \/ FormOpened(x) \/ NoTemplate(x) \/ PrefillWithLoggedInUsername(x)
                      \/ EditUsername(x) \/ AssigneeSaved(x) \/ AssigneeRefused(x)
        PROVE  UNCHANGED <<linkInput, linked>>
    BY <2>8 DEF FormOpened, NoTemplate, PrefillWithLoggedInUsername, EditUsername, AssigneeSaved,
                AssigneeRefused, Edit, menuModalVars
  <2>9. CASE UNCHANGED menuVars
    BY <2>1, <2>9 DEF menuVars, menuModalVars
  <2> QED
    BY <1>2, <2>1, <2>2, <2>3, <2>4, <2>5, <2>6, <2>7, <2>8, <2>9 DEF MenuNext
<1> QED BY <1>1, <1>2, PTL DEF MenuSpec

\* The names that are shown, drafted and sent are of one kind.
AssigneeIsAccepted ==
    /\ assignee \in [shown : Sheriffs \cup {Nobody}, editing : BOOLEAN, draft : Sheriffs \cup {Nobody}]
    /\ \A r \in assigns : r.name \in Sheriffs \cup {Nobody}
    /\ AssigneeWasAccepted

LEMMA AssigneeAccepted == MenuSpec => []AssigneeIsAccepted
<1> USE DEF AssigneeIsAccepted, AssigneeWasAccepted
<1>1. ASSUME MenuInit
      PROVE  AssigneeIsAccepted
  <2>1. /\ assignee = [shown |-> Nobody, editing |-> FALSE, draft |-> Nobody]
        /\ assigns = {}
    BY <1>1 DEF MenuInit
  <2> QED BY <2>1
<1>2. ASSUME AssigneeIsAccepted, [MenuNext]_menuVars
      PROVE  AssigneeIsAccepted'
  <2>1. CASE UNCHANGED assignVars
    BY <1>2, <2>1 DEF assignVars
  <2>2. CASE GoToEditMode \/ EscapeKey
    BY <1>2, <2>2 DEF GoToEditMode, EscapeKey, Edit
  <2>3. ASSUME NEW name \in Sheriffs, PrefillWithLoggedInUsername(name) \/ EditUsername(name)
        PROVE  AssigneeIsAccepted'
    BY <1>2, <2>3 DEF PrefillWithLoggedInUsername, EditUsername, Edit
  <2>4. CASE PressedEnter
    BY <1>2, <2>4 DEF PressedEnter
  <2>5. ASSUME NEW r \in assigns, AssigneeSaved(r)
        PROVE  AssigneeIsAccepted'
    BY <1>2, <2>5 DEF AssigneeSaved
  <2>6. ASSUME NEW r \in assigns, AssigneeRefused(r)
        PROVE  AssigneeIsAccepted'
    BY <1>2, <2>6 DEF AssigneeRefused
  <2>7. CASE UnlinkBug \/ FileValidated \/ LinkValidated \/ AssignBug \/ EditNotes \/ SaveNotes
              \/ FileRegression
    BY <2>1, <2>7 DEF UnlinkBug, FileValidated, LinkValidated, AssignBug, EditNotes, SaveNotes,
                      FileRegression
  <2>8. ASSUME NEW x, \/ SetStatus(x) \/ ChangedElsewhere(x) \/ ChangeSaved(x) \/ ChangeRefused(x)
                      \/ OpenMenuDialog(x) \/ CloseMenuDialog(x) \/ TypeFile(x) \/ TypeLink(x)
                      \/ FormOpened(x) \/ NoTemplate(x)
        PROVE  UNCHANGED assignVars
    BY <2>8 DEF SetStatus, ChangedElsewhere, ChangeSaved, ChangeRefused, OpenMenuDialog,
                CloseMenuDialog, TypeFile, TypeLink, FormOpened, NoTemplate
  <2>9. CASE UNCHANGED menuVars
    BY <2>1, <2>9 DEF menuVars
  <2> QED
    BY <1>2, <2>1, <2>2, <2>3, <2>4, <2>5, <2>6, <2>7, <2>8, <2>9 DEF MenuNext
<1> QED BY <1>1, <1>2, PTL DEF MenuSpec

\* What the header of a summary saves and shows has passed its check.
THEOREM SavedWasAcceptedCorrect == PagesSpec => []SavedWasAccepted
<1>1. LinkIsChecked /\ AssigneeIsAccepted => SavedWasAccepted
  BY DEF LinkIsChecked, AssigneeIsAccepted, SavedWasAccepted
<1> QED BY <1>1, LinkChecked, AssigneeAccepted, PagesImplementParts, PTL

-----------------------------------------------------------------------------
(* The links of the push health.                                           *)

UrlOpensTask(url) ==
    /\ DOMAIN url = ViewParams
    /\ url["selectedTaskId"] # "" =>
           /\ url["selectedJobName"] \in FailedTests
           /\ url["selectedTaskId"] \in ToSet(RunsOf[url["selectedJobName"]])

\* So does the URL that is gone back to.
UrlsOpenTasks == UrlOpensTask(healthUrl) /\ UrlOpensTask(pastUrl)

\* Parameters that leave the task alone, clear it, or name one of a row.
LEMMA ParamsOpenTask ==
    ASSUME UrlsOpenTasks, NEW new, UpdateParamsAndState(new), DOMAIN new \subseteq ViewParams,
           \/ {"selectedTaskId", "selectedJobName"} \cap DOMAIN new = {}
           \/ "selectedTaskId" \in DOMAIN new /\ new["selectedTaskId"] = ""
           \/ /\ {"selectedTaskId", "selectedJobName"} \subseteq DOMAIN new
              /\ new["selectedJobName"] \in FailedTests
              /\ new["selectedTaskId"] \in ToSet(RunsOf[new["selectedJobName"]])
    PROVE  UrlsOpenTasks'
<1>1. healthUrl' = [p \in ViewParams |-> IF p \in DOMAIN new THEN new[p] ELSE healthUrl[p]]
  BY DEF UpdateParamsAndState, UrlsOpenTasks, UrlOpensTask
<1>2. {"selectedTaskId", "selectedJobName"} \subseteq ViewParams
  BY DEF ViewParams
<1>3. UrlOpensTask(healthUrl')
  BY <1>1, <1>2 DEF UrlsOpenTasks, UrlOpensTask
<1>4. pastUrl' = healthUrl
  BY DEF UpdateParamsAndState
<1> QED BY <1>3, <1>4 DEF UrlsOpenTasks, UrlOpensTask

LEMMA LinksOpenTasks == HealthSpec => []UrlsOpenTasks
<1>1. ASSUME HealthInit
      PROVE  UrlsOpenTasks
  <2>1. CASE healthUrl = [p \in ViewParams |-> ""]
    BY <1>1, <2>1 DEF HealthInit, UrlsOpenTasks, UrlOpensTask, ViewParams
  <2>2. ASSUME NEW t \in FailedTests, healthUrl = LinkTo(t)
        PROVE  UrlsOpenTasks
    <3>1. RunsOf[t] \in Seq(AllRuns) /\ RunsOf[t] # <<>>
      BY HealthParameters
    <3>2. Len(RunsOf[t]) \in DOMAIN RunsOf[t]
      BY <3>1, EmptySeq, LenProperties
    <3>3. Last(RunsOf[t]) \in ToSet(RunsOf[t])
      BY <3>2 DEF Last, ToSet
    <3>4. /\ DOMAIN healthUrl = ViewParams
          /\ healthUrl["selectedTaskId"] = Last(RunsOf[t])
          /\ healthUrl["selectedJobName"] = t
      BY <2>2 DEF LinkTo, ViewParams
    <3> QED BY <1>1, <3>3, <3>4 DEF HealthInit, UrlsOpenTasks, UrlOpensTask
  <2> QED BY <1>1, <2>1, <2>2 DEF HealthInit
<1>2. ASSUME UrlsOpenTasks, [HealthNext]_healthVars
      PROVE  UrlsOpenTasks'
  <2>1. CASE UNCHANGED urlState
    BY <1>2, <2>1 DEF urlState, UrlsOpenTasks, UrlOpensTask
  <2>2. CASE GoBack
    BY <1>2, <2>2 DEF GoBack, UrlsOpenTasks, UrlOpensTask
  <2>3. ASSUME NEW s, SearchTests(s)
        PROVE  UrlsOpenTasks'
    <3>1. UpdateParamsAndState([p \in {"searchStr"} |-> s])
      BY <2>3 DEF SearchTests
    <3> QED BY <1>2, <3>1, ParamsOpenTask DEF ViewParams
  <2>4. ASSUME NEW by, SetGroupedBy(by)
        PROVE  UrlsOpenTasks'
    <3> DEFINE new == [p \in {"testGroup", "regressionsGroupBy"} |-> IF p = "testGroup" THEN "pr" ELSE by]
    <3>1. UpdateParamsAndState(new)
      BY <2>4 DEF SetGroupedBy
    <3>2. DOMAIN new = {"testGroup", "regressionsGroupBy"}
      OBVIOUS
    <3> HIDE DEF new
    <3> QED BY <1>2, <3>1, <3>2, ParamsOpenTask DEF ViewParams
  <2>5. ASSUME NEW g, ToggleGroup(g)
        PROVE  UrlsOpenTasks'
    <3>1. UpdateParamsAndState([p \in {"testGroup"} |-> g])
      BY <2>5 DEF ToggleGroup
    <3> QED BY <1>2, <3>1, ParamsOpenTask DEF ViewParams
  <2>6. CASE ToggleTest
    <3> DEFINE new == [p \in {"testGroup", "selectedTest", "selectedTaskId"} |->
                         CASE p = "testGroup" -> "pr" [] p = "selectedTest" -> "T" [] OTHER -> ""]
    <3>1. CASE UpdateParamsAndState(new)
      <4>1. DOMAIN new \subseteq ViewParams /\ "selectedTaskId" \in DOMAIN new
              /\ new["selectedTaskId"] = ""
        BY DEF ViewParams
      <4> HIDE DEF new
      <4> QED BY <1>2, <3>1, <4>1, ParamsOpenTask
    <3> QED BY <2>1, <2>6, <3>1 DEF ToggleTest
  <2>7. ASSUME NEW t \in FailedTests, NEW task \in ToSet(RunsOf[t]) \cup {NoDecision},
               SetSelectedTask(t, task)
        PROVE  UrlsOpenTasks'
    <3>1. ASSUME NEW name, NEW id
          PROVE  /\ DOMAIN TaskParams(id, name) \subseteq ViewParams
                 /\ {"selectedTaskId", "selectedJobName"} \subseteq DOMAIN TaskParams(id, name)
                 /\ TaskParams(id, name)["selectedTaskId"] = id
                 /\ TaskParams(id, name)["selectedJobName"] = name
      BY DEF TaskParams, ViewParams
    <3>2. CASE UpdateParamsAndState(TaskParams("", ""))
      BY <1>2, <3>1, <3>2, ParamsOpenTask
    <3>3. CASE task # NoDecision /\ UpdateParamsAndState(TaskParams(task, t))
      <4>1. task \in ToSet(RunsOf[t])
        BY <2>7, <3>3
      <4> QED BY <1>2, <3>1, <3>3, <4>1, ParamsOpenTask
    <3> QED BY <2>7, <3>2, <3>3 DEF SetSelectedTask
  <2>8. ASSUME NEW what, HealthAnswered(what) \/ HealthRefused(what) \/ HealthThrows(what)
                           \/ HealthReposAnswered(what) \/ SwitchTab(what) \/ Marking(what)
                           \/ MarkAnswered(what) \/ SelectTest(what) \/ OthersMark(what)
        PROVE  UNCHANGED urlState
    BY <2>8
    DEF HealthAnswered, HealthRefused, HealthThrows, HealthReposAnswered, SwitchTab, Marking,
        MarkAnswered, SelectTest, OthersMark
  <2>9. CASE HealthReposThrow \/ PollHealth \/ SelectAll
    BY <2>1, <2>9 DEF HealthReposThrow, PollHealth, SelectAll
  <2>10. CASE UNCHANGED healthVars
    BY <2>1, <2>10 DEF healthVars
  <2> QED
    BY <1>2, <2>1, <2>2, <2>3, <2>4, <2>5, <2>6, <2>7, <2>8, <2>9, <2>10 DEF HealthNext
<1> QED BY <1>1, <1>2, PTL DEF HealthSpec

\* A link copied from the push health or from the log viewer opens what its
\* reader saw.
THEOREM LinksOpenWhatWasSeenCorrect == PagesSpec => []LinksOpenWhatWasSeen
<1>1. UrlsOpenTasks /\ LinkSaysLines => LinksOpenWhatWasSeen
  BY DEF UrlsOpenTasks, UrlOpensTask, LinkOpensTask, LinksOpenWhatWasSeen
<1> QED BY <1>1, LinksOpenTasks, LinesAreLinked, PagesImplementParts, PTL

-----------------------------------------------------------------------------
(* The ticks of the alerts.                                                *)

\* A table of a summary that is in the list shows what it acts on; those of
\* others wait to be filled again.
TableState == [selected : SUBSET AlertsIn, ticked : SUBSET AlertsIn, all : BOOLEAN, stray : BOOLEAN]
Tables == [AlertSummaries -> TableState]
TicksAgree == alertTables \in Tables /\ ActsOnWhatIsTicked

\* Where no object of the list changed, nor the filter of its alerts, what a
\* table shows is unchanged.
LEMMA SameRow ==
    ASSUME NEW s, UNCHANGED hideDone, Row(s, arrays'[shownArray']) = Row(s, summaryList)
    PROVE  /\ InList(s)' = InList(s)
           /\ FilteredAlerts(s)' = FilteredAlerts(s)
<1>1. Row(s, summaryList)' = Row(s, summaryList)
  BY DEF summaryList
<1>2. InList(s)' = InList(s)
  BY <1>1 DEF InList
<1>3. StatusIn(s)' = StatusIn(s)
  BY <1>1 DEF StatusIn
<1> QED BY <1>2, <1>3 DEF FilteredAlerts

\* Tables that are filled again, and the others as they were.
LEMMA RefilledAgree ==
    ASSUME TicksAgree, NEW S, alertTables' = Refilled(S),
           \A s \in AlertSummaries \ S : /\ InList(s)' = InList(s)
                                         /\ FilteredAlerts(s)' = FilteredAlerts(s)
    PROVE  TicksAgree'
<1>1. EmptyTable \in TableState
      /\ EmptyTable.selected = {} /\ EmptyTable.ticked = {} /\ EmptyTable.all = FALSE
  BY DEF EmptyTable, TableState
<1>2. alertTables' \in Tables
  BY <1>1 DEF TicksAgree, Tables, Refilled
<1>3. ASSUME NEW s \in AlertSummaries, InList(s)'
      PROVE  /\ alertTables'[s].selected = alertTables'[s].ticked
             /\ alertTables'[s].selected \subseteq FilteredAlerts(s)'
             /\ alertTables'[s].all /\ ~alertTables'[s].stray => alertTables'[s].selected = FilteredAlerts(s)'
  <2>1. CASE s \in S
    BY <1>1, <2>1 DEF Refilled
  <2>2. CASE s \notin S
    BY <1>3, <2>2 DEF Refilled, TicksAgree, ActsOnWhatIsTicked
  <2> QED BY <2>1, <2>2
<1> QED BY <1>2, <1>3 DEF TicksAgree, ActsOnWhatIsTicked

\* One table changes while the list and its filter do not.
LEMMA TableAgrees ==
    ASSUME TicksAgree, NEW s \in AlertSummaries, NEW t \in TableState,
           alertTables' = [alertTables EXCEPT ![s] = t],
           UNCHANGED <<hideDone, arrays, shownArray>>,
           t.selected = t.ticked, t.selected \subseteq FilteredAlerts(s),
           t.all /\ ~t.stray => t.selected = FilteredAlerts(s)
    PROVE  TicksAgree'
<1>1. Row(s, summaryList)' = Row(s, summaryList)
  BY DEF summaryList
<1>2. \A u \in AlertSummaries : InList(u)' = InList(u) /\ FilteredAlerts(u)' = FilteredAlerts(u)
  BY SameRow DEF summaryList
<1>3. alertTables' \in Tables
  BY DEF TicksAgree, Tables
<1>4. ASSUME NEW u \in AlertSummaries, InList(u)'
      PROVE  /\ alertTables'[u].selected = alertTables'[u].ticked
             /\ alertTables'[u].selected \subseteq FilteredAlerts(u)'
             /\ alertTables'[u].all /\ ~alertTables'[u].stray => alertTables'[u].selected = FilteredAlerts(u)'
  <2>1. CASE u = s
    BY <1>2, <2>1 DEF TicksAgree, Tables
  <2>2. CASE u # s
    BY <1>2, <1>4, <2>2 DEF TicksAgree, Tables, ActsOnWhatIsTicked
  <2> QED BY <2>1, <2>2
<1> QED BY <1>3, <1>4 DEF TicksAgree, ActsOnWhatIsTicked

\* However alerts are ticked, filtered, fetched and refreshed, each table acts
\* on what its boxes show.
LEMMA TicksKept == AlertsSpec => []TicksAgree
<1>1. ASSUME AlertsInit
      PROVE  TicksAgree
  <2>1. EmptyTable \in TableState
        /\ EmptyTable.selected = {} /\ EmptyTable.ticked = {} /\ EmptyTable.all = FALSE
    BY DEF EmptyTable, TableState
  <2>2. alertTables = [s \in AlertSummaries |-> EmptyTable]
    BY <1>1 DEF AlertsInit
  <2> QED BY <2>1, <2>2 DEF TicksAgree, Tables, ActsOnWhatIsTicked
<1>2. ASSUME TicksAgree, [AlertsNext]_alertVars
      PROVE  TicksAgree'
  <2>1. CASE alertTables' = Refilled(AlertSummaries)
    BY <1>2, <2>1, RefilledAgree
  <2>2. CASE UNCHANGED <<alertTables, hideDone, arrays, shownArray>>
    <3>1. \A s \in AlertSummaries : InList(s)' = InList(s) /\ FilteredAlerts(s)' = FilteredAlerts(s)
      BY <2>2, SameRow DEF summaryList
    <3> QED BY <1>2, <2>2, <3>1 DEF TicksAgree, ActsOnWhatIsTicked
  <2>3. \A s \in AlertSummaries : FilteredAlerts(s) \subseteq AlertsIn
    BY DEF FilteredAlerts, AlertsIn
  <2>4. ASSUME NEW r \in alertFetches, ListAnswered(r) \/ UpdateAnswered(r) \/ FetchRefused(r) \/ FetchThrows(r)
        PROVE  TicksAgree'
    <3>1. CASE ListAnswered(r)
      BY <2>1, <3>1 DEF ListAnswered
    <3>2. CASE UpdateAnswered(r)
      <4> DEFINE changed == {s \in AlertSummaries :
                               Row(s, arrays'[shownArray']) # Row(s, summaryList)}
      <4>1. alertTables' = Refilled(changed) /\ UNCHANGED hideDone
        BY <3>2 DEF UpdateAnswered, alertListVars
      <4>2. \A s \in AlertSummaries \ changed : InList(s)' = InList(s)
                                                /\ FilteredAlerts(s)' = FilteredAlerts(s)
        BY <4>1, SameRow
      <4> HIDE DEF changed
      <4> QED BY <1>2, <4>1, <4>2, RefilledAgree
    <3>3. CASE FetchRefused(r) \/ FetchThrows(r)
      BY <2>2, <3>3 DEF FetchRefused, FetchThrows, alertListVars, shownVars
    <3> QED BY <2>4, <3>1, <3>2, <3>3
  <2>5. ASSUME NEW f \in AlertFilters, UpdateFilter(f) \/ UpdateFilterText(f)
        PROVE  TicksAgree'
    BY <2>1, <2>5 DEF UpdateFilter, UpdateFilterText, SetTables
  <2>6. CASE ToggleHide
    BY <2>1, <2>6 DEF ToggleHide, SetTables
  <2>7. ASSUME NEW p \in AlertPages, NavigatePage(p)
        PROVE  TicksAgree'
    BY <2>2, <2>7 DEF NavigatePage, shownVars
  <2>8. ASSUME NEW s \in AlertSummaries \cup {NoSummary}, NavigateTo(s)
        PROVE  TicksAgree'
    BY <2>1, <2>8 DEF NavigateTo, SetTables
  <2>9. ASSUME NEW s \in AlertSummaries, NEW c \in {"all", "none", "triaged", "untriaged"},
               SelectBy(s, c)
        PROVE  TicksAgree'
    <3> DEFINE F == FilteredAlerts(s)
    <3>1. ASSUME NEW S \in SUBSET F, SetSelected(s, S, c # "none" /\ S = F)
          PROVE  TicksAgree'
      <4> DEFINE every == c # "none" /\ S = F
                 t == [selected |-> S, ticked |-> S, all |-> every, stray |-> FALSE]
      <4>1. S \subseteq AlertsIn
        BY <2>3
      <4>2. /\ t \in TableState
            /\ t.selected = t.ticked /\ t.selected \subseteq F /\ (t.all /\ ~t.stray => t.selected = F)
        BY <4>1 DEF TableState
      <4>3. alertTables' = [alertTables EXCEPT ![s] = t]
        BY <3>1 DEF SetSelected, SetTables
      <4>4. UNCHANGED <<hideDone, arrays, shownArray>>
        BY <2>9 DEF SelectBy, alertListVars, shownVars
      <4> HIDE DEF t
      <4> QED BY <1>2, <4>2, <4>3, <4>4, TableAgrees
    <3>2. CASE c = "all"
      BY <2>9, <3>1, <3>2 DEF SelectBy
    <3>3. CASE c = "none"
      BY <2>9, <3>1, <3>3 DEF SelectBy
    <3>4. CASE c = "triaged"
      BY <2>9, <3>1, <3>4 DEF SelectBy
    <3>5. CASE c = "untriaged"
      BY <2>9, <3>1, <3>5 DEF SelectBy
    <3> QED BY <2>9, <3>2, <3>3, <3>4, <3>5
  <2>10. ASSUME NEW s \in AlertSummaries, NEW a \in AlertsOf[s], UpdateCheckbox(s, a)
         PROVE  TicksAgree'
    <3> DEFINE t == alertTables[s]
               u == IF a \in t.ticked THEN Unticked(t, a) ELSE Ticked(t, a)
    <3>1. /\ t \in TableState
          /\ t.selected = t.ticked /\ t.selected \subseteq FilteredAlerts(s)
          /\ t.all /\ ~t.stray => t.selected = FilteredAlerts(s)
      BY <1>2, <2>10 DEF TicksAgree, Tables, ActsOnWhatIsTicked, UpdateCheckbox
    <3>2. a \in FilteredAlerts(s) /\ a \in AlertsIn
      BY <2>3, <2>10 DEF UpdateCheckbox
    <3>3. /\ u \in TableState
          /\ u.selected = u.ticked /\ u.selected \subseteq FilteredAlerts(s)
          /\ u.all /\ ~u.stray => u.selected = FilteredAlerts(s)
      <4> HIDE DEF t
      <4> QED BY <3>1, <3>2 DEF Unticked, Ticked, TableState
    <3>4. alertTables' = [alertTables EXCEPT ![s] = u] /\ UNCHANGED <<hideDone, arrays, shownArray>>
      BY <2>10 DEF UpdateCheckbox, SetTables, alertListVars, shownVars
    <3> HIDE DEF u
    <3> QED BY <1>2, <3>3, <3>4, TableAgrees
  <2>11. ASSUME NEW s \in AlertSummaries, NEW st, NEW o, Modify(s, st, o)
         PROVE  TicksAgree'
    BY <2>2, <2>11 DEF Modify, alertListVars, shownVars
  <2>12. ASSUME NEW m \in modifies, NEW done, ModifyAnswered(m, done)
         PROVE  TicksAgree'
    <3>1. UNCHANGED <<hideDone, arrays, shownArray>>
      BY <2>12 DEF ModifyAnswered, alertListVars, shownVars
    <3>2. CASE UNCHANGED alertTables
      BY <2>2, <3>1, <3>2
    <3>3. ASSUME alertTables' = ClearTicked(m), alertTables' # alertTables
          PROVE  TicksAgree'
      <4> DEFINE left == alertTables[m.summary].all /\ m.panel = "some"
                 t == [EmptyTable EXCEPT !.all = left, !.stray = left]
      <4>1. alertTables' = [alertTables EXCEPT ![m.summary] = t]
        BY <3>3 DEF ClearTicked
      <4>2. CASE m.summary \in AlertSummaries
        <5>1. alertTables[m.summary].all \in BOOLEAN
          BY <1>2, <4>2 DEF TicksAgree, Tables, TableState
        <5>2. left \in BOOLEAN
          BY <5>1
        <5> HIDE DEF left
        <5>3. t \in TableState /\ t.selected = {} /\ t.ticked = {} /\ t.all = left /\ t.stray = left
          BY <5>2 DEF EmptyTable, TableState
        <5> HIDE DEF t
        <5> QED BY <1>2, <3>1, <4>1, <4>2, <5>3, TableAgrees
      <4>3. CASE m.summary \notin AlertSummaries
        BY <1>2, <3>3, <4>1, <4>3 DEF TicksAgree, Tables
      <4> QED BY <4>2, <4>3
    <3> QED BY <2>2, <2>12, <3>1, <3>2, <3>3 DEF ModifyAnswered
  <2>14. ASSUME NEW m \in modifies, NEW done, ModifyThrows(m, done)
         PROVE  TicksAgree'
    BY <2>2, <2>14 DEF ModifyThrows, alertListVars, shownVars
  <2>13. CASE UNCHANGED alertVars
    BY <2>2, <2>13 DEF alertVars, alertListVars, shownVars
  <2> QED
    BY <1>2, <2>4, <2>5, <2>6, <2>7, <2>8, <2>9, <2>10, <2>11, <2>12, <2>13, <2>14
    DEF AlertsNext, Fetching
<1> QED BY <1>1, <1>2, PTL DEF AlertsSpec

\* What is ticked in the table of a summary is what its buttons act on, and
\* each of it is shown, however filters, refreshes and answers change the rows.
THEOREM ActsOnWhatIsTickedCorrect == PagesSpec => []ActsOnWhatIsTicked
<1>1. TicksAgree => ActsOnWhatIsTicked
  BY DEF TicksAgree
<1> QED BY <1>1, TicksKept, PagesImplementParts, PTL

-----------------------------------------------------------------------------
(* The notifications.                                                      *)

\* Notifications there have been, of which a tab keeps the newest first.
OnScreen == [id : 1..nNotices, sticky : BOOLEAN, aged : BOOLEAN]
NewestFirst(list, n) ==
    /\ list \in Seq(1..n) /\ Len(list) <= MaxStored
    /\ \A i, j \in DOMAIN list : i < j => list[i] > list[j]
FullOfNewer(list, n) == Cardinality({m \in ToSet(list) : m > n}) = MaxStored

NoticesTyped ==
    /\ nNotices \in 0..MaxNotices
    /\ onScreen \in [NoticeTabs -> Seq(OnScreen)]
    /\ DOMAIN storedNotices = NoticeTabs /\ clearedTo \in [NoticeTabs -> 0..nNotices]
    /\ \A t \in NoticeTabs : NewestFirst(storedNotices[t], nNotices)
    /\ NewestFirst(storage, nNotices)
NoticesAgree == NoticesTyped /\ ShownIsRecent

\* Newer ones fill the menu if it has no room and they are all there is.
LEMMA FullWhen ==
    ASSUME NEW n \in Nat, NEW list, NewestFirst(list, n), NEW m \in Int
    PROVE  FullOfNewer(list, m) <=>
             Len(list) = MaxStored /\ \A i \in DOMAIN list : list[i] > m
<1> DEFINE N == {k \in ToSet(list) : k > m}
<1>1. /\ list \in Seq(1..n) /\ Len(list) \in Nat /\ DOMAIN list = 1..Len(list)
      /\ Len(list) <= MaxStored /\ MaxStored \in Nat
      /\ \A i \in DOMAIN list : list[i] \in 1..n
  BY LenProperties, ElementOfSeq, NoticeParameters DEF NewestFirst
<1>2. list \in Surjection(1..Len(list), ToSet(list))
  BY <1>1 DEF Surjection, ToSet
<1>3. list \in Injection(1..Len(list), ToSet(list))
  <2>1. list \in [1..Len(list) -> ToSet(list)]
    BY <1>2 DEF Surjection
  <2>2. ASSUME NEW i \in 1..Len(list), NEW j \in 1..Len(list), i # j
        PROVE  list[i] # list[j]
    <3>1. i < j \/ j < i
      BY <2>2
    <3>2. list[i] > list[j] \/ list[j] > list[i]
      BY <1>1, <3>1 DEF NewestFirst
    <3> QED BY <1>1, <3>2
  <2> QED BY <2>1, <2>2 DEF Injection, IsInjective
<1>4. IsFiniteSet(ToSet(list)) /\ Cardinality(ToSet(list)) = Len(list)
  <2>1. IsFiniteSet(1..Len(list)) /\ Cardinality(1..Len(list)) = Len(list)
    BY <1>1, PositionCount
  <2> QED BY <1>2, <1>3, <2>1, FS_Surjection
<1>5. N \in SUBSET ToSet(list)
  OBVIOUS
<1>6. /\ Cardinality(N) <= Len(list) /\ Cardinality(N) \in Nat
      /\ Cardinality(N) = Len(list) => N = ToSet(list)
  BY <1>4, <1>5, FS_Subset, FS_CardinalityType
<1>7. N = ToSet(list) <=> \A i \in DOMAIN list : list[i] > m
  BY DEF ToSet
<1>8. Cardinality(N) = MaxStored <=> Len(list) = MaxStored /\ N = ToSet(list)
  <2>1. N = ToSet(list) => Cardinality(N) = Len(list)
    BY <1>4
  <2> HIDE DEF N
  <2> DEFINE k == Cardinality(N)
             l == Len(list)
  <2>2. k \in Nat /\ l \in Nat /\ MaxStored \in Nat /\ k <= l /\ l <= MaxStored
    BY <1>1, <1>6
  <2>3. k = l => N = ToSet(list)
    BY <1>6
  <2>4. N = ToSet(list) => k = l
    BY <2>1
  <2> HIDE DEF k, l
  <2>5. k = MaxStored <=> l = MaxStored /\ k = l
    BY <2>2
  <2> QED BY <2>3, <2>4, <2>5 DEF k, l
<1> QED BY <1>7, <1>8 DEF FullOfNewer

\* A new one takes the place of the oldest, which is in the menu no longer, but
\* as many newer ones are.
LEMMA NotifiedRecent ==
    ASSUME NEW n \in Nat, NEW list, NewestFirst(list, n)
    PROVE  LET recent == Recent(<<n+1>> \o list)
           IN  /\ NewestFirst(recent, n+1)
               /\ Contains(recent, n+1)
               /\ \A m \in 1..n : Contains(list, m) \/ FullOfNewer(list, m)
                                    => Contains(recent, m) \/ FullOfNewer(recent, m)
<1> DEFINE c == <<n+1>> \o list
           room == Min({MaxStored, Len(c)})
           r == Recent(c)
<1>1. /\ list \in Seq(1..n) /\ Len(list) \in Nat /\ DOMAIN list = 1..Len(list)
      /\ Len(list) <= MaxStored /\ MaxStored \in Nat \ {0}
      /\ \A i \in DOMAIN list : list[i] \in 1..n
      /\ \A i, j \in DOMAIN list : i < j => list[i] > list[j]
  BY LenProperties, ElementOfSeq, NoticeParameters DEF NewestFirst
<1>2. list \in Seq(1..n+1) /\ <<n+1>> \in Seq(1..n+1) /\ Len(<<n+1>>) = 1 /\ <<n+1>>[1] = n+1
  <2>1. 1..n \subseteq 1..n+1 /\ n+1 \in 1..n+1
    OBVIOUS
  <2> QED BY <1>1, <2>1, SeqMonotonic
<1>3. /\ c \in Seq(1..n+1) /\ Len(c) = Len(list) + 1 /\ c[1] = n+1
      /\ \A i \in 1..Len(list) : c[1 + i] = list[i]
  BY ONLY <1>1, <1>2, Concatenated
<1> HIDE DEF c
<1>4. room \in Nat /\ room <= MaxStored /\ room <= Len(c) /\ 1 <= room
      /\ (room = MaxStored \/ room = Len(c))
  <2>1. Len(c) \in Nat /\ 1 <= Len(c) /\ MaxStored \in Nat /\ 1 <= MaxStored
    BY <1>1, <1>3
  <2>2. room = IF MaxStored <= Len(c) THEN MaxStored ELSE Len(c)
    BY <2>1, SmallerOfTwo
  <2> HIDE DEF room
  <2> QED BY ONLY <2>1, <2>2
<1> HIDE DEF room
<1>5. /\ r \in Seq(1..n+1) /\ Len(r) = room /\ DOMAIN r = 1..room
      /\ \A i \in 1..room : r[i] = c[i]
  <2>1. r = SubSeq(c, 1, room)
    BY DEF Recent, room
  <2>2. /\ SubSeq(c, 1, room) \in Seq(1..n+1) /\ Len(SubSeq(c, 1, room)) = room
        /\ \A i \in 1..room-1+1 : SubSeq(c, 1, room)[i] = c[1+i-1]
    BY <1>3, <1>4, PartOfList
  <2>3. \A i \in 1..room : i \in 1..room-1+1 /\ 1+i-1 = i
    BY <1>4
  <2> QED BY <2>1, <2>2, <2>3, LenProperties
<1> HIDE DEF r
<1>6. \A i \in 2..room : i-1 \in DOMAIN list /\ r[i] = list[i-1]
  <2> SUFFICES ASSUME NEW i \in 2..room PROVE i-1 \in DOMAIN list /\ r[i] = list[i-1]
    OBVIOUS
  <2>1. i-1 \in 1..Len(list) /\ i = 1 + (i-1) /\ i \in 1..room
    BY <1>1, <1>3, <1>4
  <2>2. c[1 + (i-1)] = list[i-1]
    BY <1>3, <2>1
  <2> QED BY <1>1, <1>5, <2>1, <2>2
<1>7. r[1] = n+1
  BY <1>3, <1>4, <1>5
<1>8. ASSUME NEW i \in DOMAIN r, NEW j \in DOMAIN r, i < j PROVE r[i] > r[j]
  <2>1. j \in 2..room /\ r[j] = list[j-1] /\ j-1 \in DOMAIN list /\ r[j] \in 1..n
    <3>1. j \in 2..room
      BY <1>4, <1>5, <1>8
    <3> QED BY <1>1, <1>6, <3>1
  <2>2. CASE i = 1
    BY <1>7, <2>1, <2>2
  <2>3. CASE i # 1
    <3>1. i \in 2..room /\ i-1 < j-1
      BY <1>5, <1>8, <1>4, <2>3
    <3>2. i-1 \in DOMAIN list /\ r[i] = list[i-1]
      BY <1>6, <3>1
    <3> QED BY <1>1, <2>1, <3>1, <3>2
  <2> QED BY <2>2, <2>3
<1>9. NewestFirst(r, n+1)
  BY <1>4, <1>5, <1>8 DEF NewestFirst
<1>10. Contains(r, n+1)
  BY <1>4, <1>5, <1>7 DEF Contains
<1>11. ASSUME NEW m \in 1..n, Contains(list, m)
       PROVE  Contains(r, m) \/ FullOfNewer(r, m)
  <2>1. PICK i \in 1..Len(list) : list[i] = m
    BY <1>11 DEF Contains
  <2>2. CASE i+1 <= room
    <3>1. i+1 \in 1..Len(r) /\ i+1 \in 2..room /\ (i+1)-1 = i
      BY <1>4, <1>5, <2>2
    <3>2. r[i+1] = m
      BY <1>6, <2>1, <3>1
    <3> QED BY <3>1, <3>2 DEF Contains
  <2>3. CASE ~(i+1 <= room)
    <3>1. room = MaxStored /\ i = MaxStored /\ i = Len(list)
      <4> DEFINE l == Len(list)
                 k == Len(c)
      <4>1. /\ l \in Nat /\ k = l+1 /\ l <= MaxStored /\ MaxStored \in Nat
            /\ room \in Nat /\ (room = MaxStored \/ room = k) /\ i \in 1..l
        BY <1>1, <1>3, <1>4
      <4> HIDE DEF l, k
      <4>2. room = MaxStored /\ i = MaxStored /\ i = l
        BY ONLY <4>1, <2>3
      <4> QED BY <4>2 DEF l
    <3>2. ASSUME NEW k \in DOMAIN r PROVE r[k] > m
      <4>1. CASE k = 1
        BY <1>7, <4>1
      <4>2. CASE k # 1
        <5>1. k \in 2..room /\ k-1 < i
          BY <1>4, <1>5, <3>1, <4>2
        <5>2. k-1 \in DOMAIN list /\ r[k] = list[k-1] /\ i \in DOMAIN list
          BY <1>1, <1>6, <5>1
        <5> QED BY <1>1, <2>1, <5>1, <5>2
      <4> QED BY <4>1, <4>2
    <3>3. n+1 \in Nat /\ m \in Int /\ Len(r) = MaxStored
      BY <1>5, <3>1
    <3> QED BY <1>9, <3>2, <3>3, FullWhen
  <2> QED BY <2>2, <2>3
<1>12. ASSUME NEW m \in 1..n, FullOfNewer(list, m)
       PROVE  FullOfNewer(r, m)
  <2>1. Len(list) = MaxStored /\ \A i \in DOMAIN list : list[i] > m
    BY <1>12, FullWhen
  <2>2. room = MaxStored
    BY <1>1, <1>3, <1>4, <2>1
  <2>3. ASSUME NEW k \in DOMAIN r PROVE r[k] > m
    <3>1. CASE k = 1
      BY <1>7, <3>1
    <3>2. CASE k # 1
      <4>1. k \in 2..room
        BY <1>4, <1>5, <3>2
      <4>2. k-1 \in DOMAIN list /\ r[k] = list[k-1]
        BY <1>6, <4>1
      <4> QED BY <2>1, <4>2
    <3> QED BY <3>1, <3>2
  <2>4. n+1 \in Nat /\ m \in Int /\ Len(r) = MaxStored
    BY <1>5, <2>2
  <2> QED BY <1>9, <2>3, <2>4, FullWhen
<1> QED BY <1>9, <1>10, <1>11, <1>12 DEF r, c

\* A shorter list, or the same, of what there was is newest first still.
LEMMA MoreNotices ==
    ASSUME NEW n \in Nat, NEW list, NewestFirst(list, n)
    PROVE  NewestFirst(list, n+1)
<1>1. 1..n \subseteq 1..n+1
  OBVIOUS
<1>2. list \in Seq(1..n+1)
  BY <1>1, SeqMonotonic DEF NewestFirst
<1> QED BY <1>2 DEF NewestFirst

\* A menu that no notification has come to.
LEMMA EmptyMenu ==
    ASSUME NEW n \in Nat
    PROVE  NewestFirst(<<>>, n)
BY NoticeParameters DEF NewestFirst

\* What the screen shows is typed, whatever is taken from it.
LEMMA ShownOf ==
    ASSUME NoticesTyped, NEW t \in NoticeTabs, NEW i \in DOMAIN onScreen[t]
    PROVE  onScreen[t][i] \in OnScreen /\ onScreen[t][i].id \in 1..nNotices
<1>1. onScreen[t] \in Seq(OnScreen)
  BY DEF NoticesTyped
<1>2. onScreen[t][i] \in OnScreen
  BY <1>1, LenProperties, ElementOfSeq
<1> QED BY <1>2 DEF OnScreen

\* A notification on the screen is in the menu, or was cleared from it, or is
\* older than all in it.
Recalled(list, to, n) == Contains(list, n) \/ n <= to \/ FullOfNewer(list, n)

\* Only what is shown at the tab, and no more than there was.
LEMMA ScreenLoses ==
    ASSUME NoticesAgree, NEW t \in NoticeTabs, NEW rest \in Seq(OnScreen),
           \A x \in ToSet(rest) : \E y \in ToSet(onScreen[t]) : x.id = y.id,
           onScreen' = [onScreen EXCEPT ![t] = rest],
           UNCHANGED <<storedNotices, storage, nNotices, clearedTo>>
    PROVE  NoticesAgree'
<1>1. NoticesTyped'
  BY DEF NoticesAgree, NoticesTyped, OnScreen
<1>2. ASSUME NEW u \in NoticeTabs, NEW i \in DOMAIN onScreen'[u]
      PROVE  Recalled(storedNotices[u], clearedTo[u], onScreen'[u][i].id)
  <2>1. PICK k \in DOMAIN onScreen[u] : onScreen[u][k].id = onScreen'[u][i].id
    <3>1. CASE u = t
      <4>1. onScreen'[u] = rest
        BY <3>1 DEF NoticesAgree, NoticesTyped
      <4>2. rest[i] \in ToSet(rest)
        BY <1>2, <4>1 DEF ToSet
      <4> QED BY <3>1, <4>1, <4>2 DEF ToSet
    <3>2. CASE u # t
      BY <1>2, <3>2 DEF NoticesAgree, NoticesTyped
    <3> QED BY <3>1, <3>2
  <2> QED BY <2>1 DEF NoticesAgree, ShownIsRecent, Recalled, FullOfNewer
<1> QED BY <1>1, <1>2 DEF NoticesAgree, ShownIsRecent, Recalled, FullOfNewer

\* No tab has seen a notification.
LEMMA NoticesStart == NoticesInit => NoticesAgree
<1> SUFFICES ASSUME NoticesInit PROVE NoticesAgree
  OBVIOUS
<1>1. <<>> \in Seq(OnScreen) /\ NewestFirst(<<>>, 0)
  BY EmptyMenu
<1>2. NoticesTyped
  BY <1>1, NoticeParameters DEF NoticesInit, NoticesTyped
<1> QED BY <1>2 DEF NoticesAgree, NoticesInit, ShownIsRecent

\* A new notification is the first of the screen and of the menu.
LEMMA NotifyAgrees ==
    ASSUME NoticesAgree, NEW t \in NoticeTabs, NEW sticky \in BOOLEAN, Notify(t, sticky)
    PROVE  NoticesAgree'
<1> DEFINE n == nNotices
           new == [id |-> n+1, sticky |-> sticky, aged |-> FALSE]
           r == Recent(<<n+1>> \o storedNotices[t])
           s == <<new>> \o onScreen[t]
           ShownNow == [id : 1..n+1, sticky : BOOLEAN, aged : BOOLEAN]
<1>1. /\ n \in Nat /\ n < MaxNotices /\ MaxNotices \in Nat /\ nNotices' = n+1
      /\ onScreen' = [onScreen EXCEPT ![t] = s]
      /\ storedNotices' = [storedNotices EXCEPT ![t] = r]
      /\ storage' = r /\ clearedTo' = clearedTo
      /\ DOMAIN storedNotices = NoticeTabs
  BY NoticeParameters DEF Notify, NoticesAgree, NoticesTyped
<1>2. /\ NewestFirst(r, n+1) /\ Contains(r, n+1)
      /\ \A m \in 1..n : Contains(storedNotices[t], m) \/ FullOfNewer(storedNotices[t], m)
                           => Contains(r, m) \/ FullOfNewer(r, m)
  BY <1>1, NotifiedRecent DEF NoticesAgree, NoticesTyped
<1>3. OnScreen \subseteq ShownNow /\ OnScreen' = ShownNow /\ new \in ShownNow
  <2>1. 1..n \subseteq 1..n+1 /\ n+1 \in 1..n+1
    BY <1>1
  <2> QED BY <1>1, <2>1 DEF OnScreen
<1> HIDE DEF ShownNow, new
<1>4. \A u \in NoticeTabs : onScreen[u] \in Seq(ShownNow)
  BY <1>3, SeqMonotonic DEF NoticesAgree, NoticesTyped
<1>5. /\ s \in Seq(ShownNow) /\ ToSet(s) = {new} \cup ToSet(onScreen[t])
  <2>1. <<new>> \in Seq(ShownNow) /\ ToSet(<<new>>) = {new}
    BY <1>3, OneMember
  <2> DEFINE a == <<new>>
             b == onScreen[t]
  <2>2. a \in Seq(ShownNow) /\ b \in Seq(ShownNow) /\ ToSet(a) = {new}
    BY <1>4, <2>1
  <2> HIDE DEF a, b
  <2>3. a \o b \in Seq(ShownNow) /\ ToSet(a \o b) = {new} \cup ToSet(b)
    BY <2>2, Concatenated
  <2> QED BY <2>3 DEF a, b
<1> HIDE DEF s, r
<1>6. NoticesTyped'
  <2>1. nNotices' \in 0..MaxNotices
    BY <1>1
  <2>2. onScreen' \in [NoticeTabs -> Seq(OnScreen')]
    BY <1>1, <1>3, <1>4, <1>5 DEF NoticesAgree, NoticesTyped
  <2>3. DOMAIN storedNotices' = NoticeTabs
    BY <1>1
  <2>4. clearedTo' \in [NoticeTabs -> 0..n+1]
    <3>1. 0..n \subseteq 0..n+1
      BY <1>1
    <3> QED BY <1>1, <3>1 DEF NoticesAgree, NoticesTyped
  <2>5. \A u \in NoticeTabs : NewestFirst(storedNotices'[u], n+1)
    BY <1>1, <1>2, MoreNotices DEF NoticesAgree, NoticesTyped
  <2>6. NewestFirst(storage', n+1)
    BY <1>1, <1>2
  <2> QED BY <1>1, <2>1, <2>2, <2>3, <2>4, <2>5, <2>6 DEF NoticesTyped
<1>7. ASSUME NEW u \in NoticeTabs, NEW i \in DOMAIN onScreen'[u]
      PROVE  Recalled(storedNotices'[u], clearedTo'[u], onScreen'[u][i].id)
  <2>1. CASE u = t
    <3>1. onScreen'[u] = s /\ storedNotices'[u] = r /\ clearedTo'[u] = clearedTo[t]
      BY <1>1, <2>1 DEF NoticesAgree, NoticesTyped
    <3>2. s[i] = new \/ s[i] \in ToSet(onScreen[t])
      <4>1. s[i] \in ToSet(s)
        BY <1>7, <3>1 DEF ToSet
      <4> QED BY <1>5, <4>1
    <3>3. CASE s[i] = new
      BY <1>2, <3>1, <3>3 DEF Recalled, new
    <3>4. CASE s[i] \in ToSet(onScreen[t])
      <4>1. PICK k \in DOMAIN onScreen[t] : onScreen[t][k] = s[i]
        BY <3>4 DEF ToSet
      <4>2. s[i].id \in 1..n
        BY <4>1, ShownOf DEF NoticesAgree
      <4>3. Recalled(storedNotices[t], clearedTo[t], s[i].id)
        BY <4>1 DEF NoticesAgree, ShownIsRecent, Recalled, FullOfNewer
      <4> QED BY <1>2, <3>1, <4>2, <4>3 DEF Recalled
    <3> QED BY <3>2, <3>3, <3>4
  <2>2. CASE u # t
    <3>1. onScreen'[u] = onScreen[u] /\ storedNotices'[u] = storedNotices[u] /\ clearedTo'[u] = clearedTo[u]
      BY <1>1, <2>2 DEF NoticesAgree, NoticesTyped
    <3> QED BY <1>7, <3>1 DEF NoticesAgree, ShownIsRecent, Recalled, FullOfNewer
  <2> QED BY <2>1, <2>2
<1> QED BY <1>6, <1>7 DEF NoticesAgree, ShownIsRecent, Recalled, FullOfNewer

\* Whatever a tab does, and whichever tab tells another.
LEMMA NoticesStep == NoticesAgree /\ [NoticesNext]_noticeVars => NoticesAgree'
<1> SUFFICES ASSUME NoticesAgree, [NoticesNext]_noticeVars PROVE NoticesAgree'
  OBVIOUS
<1>1. CASE UNCHANGED noticeVars
  BY <1>1 DEF NoticesAgree, NoticesTyped, ShownIsRecent, noticeVars, OnScreen
<1>2. ASSUME NEW t \in NoticeTabs,
             \/ \E i \in DOMAIN onScreen[t] : Ages(t, i) \/ ClearNotification(t, i)
             \/ ClearExpired(t) \/ ClearAllOnScreen(t)
      PROVE  NoticesAgree'
  <2> DEFINE scr == onScreen[t]
  <2>1. scr \in Seq(OnScreen) /\ onScreen \in [NoticeTabs -> Seq(OnScreen)]
    BY DEF NoticesAgree, NoticesTyped
  <2>2. UNCHANGED <<storedNotices, storage, nNotices, clearedTo>>
    BY <1>2 DEF Ages, ClearNotification, ClearExpired, ClearAllOnScreen
  <2>3. ASSUME NEW i \in DOMAIN scr, Ages(t, i) PROVE NoticesAgree'
    <3> DEFINE rest == [scr EXCEPT ![i].aged = TRUE]
    <3>1. /\ DOMAIN rest = DOMAIN scr
          /\ \A k \in DOMAIN scr : rest[k] \in OnScreen /\ rest[k].id = scr[k].id
      <4>1. \A k \in DOMAIN scr : scr[k] \in OnScreen
        BY <2>1, LenProperties, ElementOfSeq
      <4> QED BY <4>1 DEF OnScreen
    <3>2. rest \in Seq(OnScreen)
      <4>1. rest \in [1..Len(scr) -> OnScreen] /\ Len(scr) \in Nat
        BY <2>1, <3>1, LenProperties
      <4> QED BY <4>1, FunctionIsList
    <3>3. onScreen' = [onScreen EXCEPT ![t] = rest]
      BY <2>3 DEF Ages
    <3>4. \A x \in ToSet(rest) : \E y \in ToSet(scr) : x.id = y.id
      BY <3>1 DEF ToSet
    <3> HIDE DEF rest
    <3> QED BY <2>2, <3>2, <3>3, <3>4, ScreenLoses
  <2>4. ASSUME NEW i \in DOMAIN scr, ClearNotification(t, i) PROVE NoticesAgree'
    <3> DEFINE rest == RemoveAt(scr, i)
    <3>1. rest \in Seq(OnScreen) /\ ToSet(rest) \subseteq ToSet(scr)
      BY <2>1, RemoveAtMembers
    <3>2. onScreen' = [onScreen EXCEPT ![t] = rest]
      BY <2>4 DEF ClearNotification
    <3> HIDE DEF rest
    <3> QED BY <2>2, <3>1, <3>2, ScreenLoses
  <2>5. CASE ClearExpired(t)
    <3> DEFINE rest == Keep(scr, {n \in ToSet(scr) : Stays(n)})
    <3>1. rest \in Seq(OnScreen) /\ ToSet(rest) \subseteq ToSet(scr)
      BY <2>1, KeepMembers
    <3>2. onScreen' = [onScreen EXCEPT ![t] = rest]
      BY <2>5 DEF ClearExpired
    <3> HIDE DEF rest
    <3> QED BY <2>2, <3>1, <3>2, ScreenLoses
  <2>6. CASE ClearAllOnScreen(t)
    <3>1. <<>> \in Seq(OnScreen) /\ ToSet(<<>>) = {} /\ onScreen' = [onScreen EXCEPT ![t] = <<>>]
      BY <2>6 DEF ClearAllOnScreen, ToSet
    <3> QED BY <2>2, <3>1, ScreenLoses
  <2> QED BY <1>2, <2>3, <2>4, <2>5, <2>6
<1>3. ASSUME NEW t \in NoticeTabs, ClearStored(t) PROVE NoticesAgree'
  <2>1. /\ storedNotices' = [storedNotices EXCEPT ![t] = <<>>] /\ storage' = <<>>
        /\ clearedTo' = [clearedTo EXCEPT ![t] = nNotices]
        /\ UNCHANGED <<onScreen, nNotices>> /\ nNotices \in Nat
    BY <1>3, NoticeParameters DEF ClearStored, NoticesAgree, NoticesTyped
  <2>2. NewestFirst(<<>>, nNotices)
    BY <2>1, EmptyMenu
  <2>3. NoticesTyped'
    <3>1. /\ nNotices' \in 0..MaxNotices
          /\ onScreen' \in [NoticeTabs -> Seq(OnScreen')]
          /\ DOMAIN storedNotices' = NoticeTabs /\ clearedTo' \in [NoticeTabs -> 0..nNotices']
      <4>1. OnScreen' = OnScreen
        BY <2>1 DEF OnScreen
      <4> QED BY <2>1, <4>1 DEF NoticesAgree, NoticesTyped
    <3>2. /\ \A u \in NoticeTabs : NewestFirst(storedNotices'[u], nNotices)
          /\ NewestFirst(storage', nNotices) /\ nNotices' = nNotices
      BY <2>1, <2>2 DEF NoticesAgree, NoticesTyped
    <3> QED BY <3>1, <3>2 DEF NoticesTyped
  <2>4. ASSUME NEW u \in NoticeTabs, NEW i \in DOMAIN onScreen[u]
        PROVE  Recalled(storedNotices'[u], clearedTo'[u], onScreen[u][i].id)
    <3>1. CASE u = t
      <4>1. onScreen[u][i].id \in 1..nNotices
        BY ShownOf DEF NoticesAgree
      <4>2. clearedTo'[u] = nNotices
        BY <2>1, <3>1 DEF NoticesAgree, NoticesTyped
      <4> QED BY <2>1, <4>1, <4>2 DEF Recalled
    <3>2. CASE u # t
      BY <2>1, <3>2 DEF NoticesAgree, NoticesTyped, ShownIsRecent, Recalled, FullOfNewer
    <3> QED BY <3>1, <3>2
  <2> QED BY <2>1, <2>3, <2>4 DEF NoticesAgree, ShownIsRecent, Recalled, FullOfNewer
<1>4. ASSUME NEW t \in NoticeTabs, LoadTab(t) PROVE NoticesAgree'
  <2>1. /\ onScreen' = [onScreen EXCEPT ![t] = <<>>]
        /\ storedNotices' = [storedNotices EXCEPT ![t] = storage]
        /\ UNCHANGED <<storage, nNotices, clearedTo>>
    BY <1>4 DEF LoadTab
  <2>2. NoticesTyped'
    <3>1. /\ nNotices' \in 0..MaxNotices
          /\ onScreen' \in [NoticeTabs -> Seq(OnScreen')]
          /\ DOMAIN storedNotices' = NoticeTabs /\ clearedTo' \in [NoticeTabs -> 0..nNotices']
      <4>1. OnScreen' = OnScreen
        BY <2>1 DEF OnScreen
      <4> QED BY <2>1, <4>1 DEF NoticesAgree, NoticesTyped
    <3>2. /\ \A u \in NoticeTabs : NewestFirst(storedNotices'[u], nNotices)
          /\ NewestFirst(storage', nNotices) /\ nNotices' = nNotices
      BY <2>1 DEF NoticesAgree, NoticesTyped
    <3> QED BY <3>1, <3>2 DEF NoticesTyped
  <2>3. \A u \in NoticeTabs : \A i \in DOMAIN onScreen'[u] :
           Recalled(storedNotices'[u], clearedTo'[u], onScreen'[u][i].id)
    BY <2>1 DEF NoticesAgree, NoticesTyped, ShownIsRecent, Recalled, FullOfNewer
  <2> QED BY <2>2, <2>3 DEF NoticesAgree, ShownIsRecent, Recalled, FullOfNewer
<1> QED BY <1>1, <1>2, <1>3, <1>4, NotifyAgrees DEF NoticesNext

\* What is on the screen of a tab can be recalled from its menu, whatever tabs
\* notify, clear and tell each other.
THEOREM NoticesRecalled == NoticesSpec => []NoticesAgree
BY NoticesStart, NoticesStep, PTL DEF NoticesSpec

\* A menu has room for no more than it should have.
LEMMA NoticesTypes == NoticesAgree => NoticesTypeOK
<1> SUFFICES ASSUME NoticesAgree PROVE NoticesTypeOK
  OBVIOUS
<1>1. nNotices \in Nat /\ 1..nNotices \subseteq 1..MaxNotices
  BY NoticeParameters DEF NoticesAgree, NoticesTyped
<1>2. ASSUME NEW list, NewestFirst(list, nNotices)
      PROVE  list \in BoundedSeq(1..MaxNotices, MaxStored)
  <2>1. list \in Seq(1..MaxNotices)
    BY <1>1, <1>2, SeqMonotonic DEF NewestFirst
  <2>2. list \in [1..Len(list) -> 1..MaxNotices] /\ Len(list) \in 0..MaxStored
    BY <1>2, <2>1, LenProperties, NoticeParameters DEF NewestFirst
  <2> QED BY <2>2 DEF BoundedSeq, SeqOf
<1>3. \A t \in NoticeTabs : \A i \in DOMAIN onScreen[t] :
        onScreen[t][i] \in [id : 1..MaxNotices, sticky : BOOLEAN, aged : BOOLEAN]
  BY <1>1, ShownOf DEF NoticesAgree, OnScreen
<1> QED BY <1>2, <1>3 DEF NoticesTypeOK, NoticesAgree, NoticesTyped

\* A notification that a tab still shows is in its menu, was cleared from it, or
\* is older than all the menu has room for.
THEOREM ShownIsRecentCorrect == PagesSpec => []ShownIsRecent
<1>1. NoticesAgree => ShownIsRecent
  BY DEF NoticesAgree
<1> QED BY <1>1, NoticesRecalled, PagesImplementParts, PTL

-----------------------------------------------------------------------------
(* The graphs and the comparison.                                          *)

\* A series that is hidden has no colour, however series are added, hidden,
\* taken away and answered late, so that none is drawn in the colour of another.
THEOREM HiddenHasNoColourCorrect == PagesSpec => []HiddenHasNoColour
<1>1. GraphTyped => HiddenHasNoColour
  BY DEF GraphTyped, PlotTyped
<1> QED BY <1>1, GraphsTyped, PagesImplementParts, PTL

\* The tables of a comparison show the rows that pass its filters and no others,
\* whatever is sorted, filtered, typed and answered in between.
THEOREM TablesShowFilteredCorrect == PagesSpec => []TablesShowFiltered
BY CompareAgrees, TablesShow, PagesImplementParts, PTL

-----------------------------------------------------------------------------
(* Types.                                                                  *)

\* The stages of a login in its window.
LoginStages == {"login", "fetch", "authorize", "token", "error"}

WindowsNumbered ==
    /\ store \in [user : {"in", "out"}, session : BOOLEAN, expired : BOOLEAN,
                  credentials : {"none", "valid"}, requestState : 0 .. nWindows]
    /\ windows \subseteq [id : 1 .. nWindows, stage : LoginStages]
    /\ nWindows \in 0 .. MaxWindows /\ logouts \subseteq Tabs

\* A window goes from one stage of the login to another.
LEMMA WindowMoved ==
    ASSUME WindowsNumbered, NEW w \in windows, NEW stage \in LoginStages, At(w, stage)
    PROVE  windows' \subseteq [id : 1 .. nWindows, stage : LoginStages]
BY DEF WindowsNumbered, At

\* Windows are opened, move on and close; the state of the request that the
\* store remembers is of one of them.
LEMMA WindowsStep ==
    ASSUME WindowsNumbered, [SessionNext]_sessionVars
    PROVE  WindowsNumbered'
<1> DEFINE Kept == UNCHANGED <<windows, nWindows>> /\ logouts' \subseteq logouts
           StoreTyped == store' \in [user : {"in", "out"}, session : BOOLEAN, expired : BOOLEAN,
                                     credentials : {"none", "valid"}, requestState : 0 .. nWindows]
<1>1. Kept /\ StoreTyped => WindowsNumbered'
  BY DEF WindowsNumbered
<1>2. ASSUME NEW t \in Tabs, NEW evs, AuthLogout(t, evs) PROVE StoreTyped
  BY <1>2 DEF AuthLogout, WindowsNumbered
<1>3. UNCHANGED store => StoreTyped
  BY DEF WindowsNumbered
<1>4. CASE UNCHANGED sessionVars
  BY <1>1, <1>3, <1>4 DEF sessionVars, tabVars, sessionCounts
<1>5. ASSUME NEW t \in Tabs, \/ ServerAnswers(t) \/ CheckAnswered(t) \/ HandleStorageEvent(t)
                             \/ LogoutAnswered(t) \/ LogoutRefused(t) \/ Reload(t) \/ RenewAuth(t)
                             \/ RenewedToken(t) \/ \E consent \in BOOLEAN : RenewalRefused(t, consent)
      PROVE  WindowsNumbered'
  <2>1. Kept
    BY <1>5 DEF ServerAnswers, CheckAnswered, HandleStorageEvent, LogoutAnswered, LogoutRefused, Reload,
                RenewAuth, RenewedToken, RenewalRefused, sessionCounts
  <2>2. UNCHANGED store \/ \E evs : AuthLogout(t, evs)
    BY <1>5 DEF ServerAnswers, CheckAnswered, HandleStorageEvent, LogoutAnswered, LogoutRefused, Reload,
                RenewAuth, RenewedToken, RenewalRefused
  <2> QED BY <1>1, <1>2, <1>3, <2>1, <2>2
<1>6. ASSUME NEW t \in Tabs, Login(t) PROVE WindowsNumbered'
  <2>1. /\ nWindows' = nWindows + 1 /\ nWindows' \in 0 .. MaxWindows /\ nWindows \in Nat
        /\ windows' = windows \cup {[id |-> nWindows + 1, stage |-> "login"]}
        /\ UNCHANGED <<store, logouts>>
    BY <1>6, SessionBounds DEF Login, WindowsNumbered, tabVars
  <2>2. 1 .. nWindows \subseteq 1 .. nWindows' /\ 0 .. nWindows \subseteq 0 .. nWindows'
        /\ nWindows + 1 \in 1 .. nWindows'
    BY <2>1
  <2>3. store' \in [user : {"in", "out"}, session : BOOLEAN, expired : BOOLEAN,
                    credentials : {"none", "valid"}, requestState : 0 .. nWindows']
    BY <2>1, <2>2 DEF WindowsNumbered
  <2>4. windows' \subseteq [id : 1 .. nWindows', stage : LoginStages]
    BY <2>1, <2>2 DEF WindowsNumbered, LoginStages
  <2> QED BY <2>1, <2>3, <2>4 DEF WindowsNumbered
<1>7. ASSUME NEW t \in Tabs, Logout(t) PROVE WindowsNumbered'
  BY <1>7 DEF Logout, WindowsNumbered, sessionCounts
<1>8. ASSUME NEW t \in Tabs, RenewedUser(t) PROVE WindowsNumbered'
  BY <1>8 DEF RenewedUser, SaveCredentials, WindowsNumbered, sessionCounts
<1>9. CASE TokenExpires
  BY <1>9 DEF TokenExpires, WindowsNumbered, tabVars, sessionCounts
<1>10. ASSUME NEW w \in windows, \/ LoginReturned(w) \/ TaskclusterReturned(w) \/ CredentialsFetched(w)
                                 \/ LoginSaved(w) \/ WindowRefused(w) \/ CloseWindow(w)
       PROVE  WindowsNumbered'
  <2>1. UNCHANGED <<nWindows, logouts>>
    BY <1>10 DEF LoginReturned, LoginSaved, TaskclusterReturned, CredentialsFetched, WindowRefused,
                 CloseWindow, tabVars, sessionCounts
  <2>2. windows' \subseteq [id : 1 .. nWindows, stage : LoginStages]
    <3>1. windows' \subseteq windows \/ \E stage \in LoginStages : At(w, stage)
      BY <1>10 DEF LoginReturned, LoginSaved, TaskclusterReturned, CredentialsFetched, WindowRefused,
                   CloseWindow, LoginStages
    <3> QED BY <3>1, WindowMoved DEF WindowsNumbered
  <2>3. StoreTyped
    <3>1. w.id \in 0 .. nWindows
      BY DEF WindowsNumbered
    <3> QED BY <1>10, <3>1 DEF LoginReturned, LoginSaved, TaskclusterReturned, CredentialsFetched,
                               WindowRefused, CloseWindow, WindowsNumbered
  <2> QED BY <2>1, <2>2, <2>3 DEF WindowsNumbered
<1> QED BY <1>4, <1>5, <1>6, <1>7, <1>8, <1>9, <1>10 DEF SessionNext

\* No window is open.
LEMMA WindowsStart == SessionInit => WindowsNumbered
BY SessionBounds DEF SessionInit, WindowsNumbered

\* What the health of a push is made of.
RowsTyped ==
    /\ DOMAIN rows \subseteq FailedTests /\ tickedRows \subseteq DOMAIN rows
    /\ \A t \in DOMAIN rows : rows[t].task \in ToSet(RunsOf[t]) \cup {NoDecision}
HealthDataTyped ==
    /\ health \in Nat \cup {NoTests} /\ healthTab \in HealthTabs \cup {NoHealthTab}
    /\ healthLoads \subseteq {"first", "poll", "repos"} /\ shownGroups \subseteq {"pr", "ki"}
GroupNames == {"", "pr", "ki"}
HealthUrlsTyped ==
    /\ DOMAIN healthUrl = ViewParams /\ DOMAIN pastUrl = ViewParams /\ DOMAIN healthView = ViewParams
    /\ healthView["testGroup"] \in GroupNames
HealthTyped == RowsTyped /\ HealthDataTyped /\ HealthUrlsTyped

\* The rows that are shown are tests of the group, with a task of their own.
LEMMA RowsShown ==
    ASSUME RowsTyped, ShowRows
    PROVE  RowsTyped'
<1> DEFINE search == healthView'["searchStr"]
           shown == IF healthTab' = "tests" THEN FilteredFailures(FailedTests, search) ELSE {}
           old == StillThere
<1>1. shown \subseteq FailedTests
  <2>1. FilteredFailures(FailedTests, search) \subseteq FailedTests
    BY Zenon DEF FilteredFailures
  <2> QED BY <2>1
<1>2. old \subseteq DOMAIN rows
  BY DEF StillThere
<1>3. /\ rows' = [t \in shown |-> IF t \in old THEN rows[t] ELSE MountedRow(t, healthView')]
      /\ tickedRows' = tickedRows \cap shown \cap old
  BY Zenon DEF ShowRows
<1>4. \A t : MountedRow(t, healthView').task \in ToSet(RunsOf[t]) \cup {NoDecision}
  BY DEF MountedRow
<1> HIDE DEF shown, old
<1> QED BY <1>1, <1>2, <1>3, <1>4 DEF RowsTyped

\* The URL and the view have the same parameters always.
LEMMA ParamsTyped ==
    ASSUME HealthUrlsTyped, NEW new, UpdateParamsAndState(new),
           "testGroup" \in DOMAIN new => new["testGroup"] \in GroupNames
    PROVE  HealthUrlsTyped'
<1>1. "testGroup" \in ViewParams
  BY DEF ViewParams
<1>2. /\ healthUrl' = [p \in ViewParams |-> IF p \in DOMAIN new THEN new[p] ELSE healthUrl[p]]
      /\ healthView' = [p \in ViewParams |-> IF p \in DOMAIN new THEN new[p] ELSE healthView[p]]
      /\ pastUrl' = healthUrl
  BY DEF UpdateParamsAndState
<1>3. healthView'["testGroup"] \in GroupNames
  BY <1>1, <1>2 DEF HealthUrlsTyped
<1> QED BY <1>2, <1>3 DEF HealthUrlsTyped

\* Data that comes, rows that come and go with it, and what is ticked in them.
LEMMA HealthStep ==
    ASSUME HealthTyped, [HealthNext]_healthVars
    PROVE  HealthTyped'
<1> DEFINE Urls == HealthUrlsTyped'  Data == HealthDataTyped'  Rows == RowsTyped'
<1>1. UNCHANGED urlState => Urls
  BY DEF HealthTyped, HealthUrlsTyped, urlState
<1>2. UNCHANGED <<dataState, tabState>> => Data
  BY DEF HealthTyped, HealthDataTyped, dataState, tabState
<1>3. UNCHANGED <<rows, tickedRows>> => Rows
  BY DEF HealthTyped, RowsTyped
<1>4. ShowRows => Rows
  BY RowsShown DEF HealthTyped
<1>5. ASSUME NEW new, UpdateParamsAndState(new),
             "testGroup" \in DOMAIN new => new["testGroup"] \in GroupNames
      PROVE  Urls
  BY <1>5, ParamsTyped DEF HealthTyped
<1>6. Urls /\ Data /\ Rows => HealthTyped'
  BY DEF HealthTyped
<1>7. HealthDataTyped
  BY DEF HealthTyped
<1> HIDE DEF Urls, Data, Rows
<1>8. CASE UNCHANGED healthVars
  BY <1>1, <1>2, <1>3, <1>6, <1>8 DEF healthVars, testState
<1>9. ASSUME NEW what \in healthLoads, HealthAnswered(what)
      PROVE  HealthTyped'
  <2>1. UNCHANGED urlState /\ ShowRows
    BY <1>9 DEF HealthAnswered
  <2>2. Data
    BY <1>7, <1>9 DEF HealthAnswered, HealthDataTyped, NoTests, tabState, Data
  <2> QED BY <1>1, <1>4, <1>6, <2>1, <2>2
<1>10. ASSUME NEW what \in healthLoads, HealthRefused(what) \/ HealthThrows(what)
       PROVE  HealthTyped'
  <2>1. UNCHANGED <<urlState, rows, tickedRows>>
    BY <1>10 DEF HealthRefused, HealthThrows, testState
  <2>2. Data
    BY <1>7, <1>10 DEF HealthRefused, HealthThrows, HealthDataTyped, tabState, Data
  <2> QED BY <1>1, <1>3, <1>6, <2>1, <2>2
<1>f. ASSUME NEW tab \in HealthTabs, OpenTab(tab)
      PROVE  healthTab' \in HealthTabs /\ shownGroups' \subseteq {"pr", "ki"}
  <2>1. healthView["testGroup"] \in GroupNames
    BY DEF HealthTyped, HealthUrlsTyped
  <2>2. ExpandedGroups(healthView) \subseteq {"pr", "ki"}
    BY <2>1 DEF ExpandedGroups, GroupNames
  <2> QED BY <1>f, <2>2 DEF OpenTab
<1>11. ASSUME NEW tab \in HealthTabs, HealthReposAnswered(tab)
       PROVE  HealthTyped'
  <2>1. UNCHANGED urlState /\ ShowRows /\ OpenTab(tab)
    BY <1>11 DEF HealthReposAnswered
  <2>2. Data
    BY <1>7, <1>11, <1>f, <2>1 DEF HealthReposAnswered, HealthDataTyped, Data
  <2> QED BY <1>1, <1>4, <1>6, <2>1, <2>2
<1>24. CASE HealthReposThrow
  <2>1. UNCHANGED <<urlState, rows, tickedRows>>
    BY <1>24 DEF HealthReposThrow, testState
  <2>2. Data
    BY <1>7, <1>24 DEF HealthReposThrow, HealthDataTyped, tabState, Data
  <2> QED BY <1>1, <1>3, <1>6, <2>1, <2>2
<1>25. ASSUME NEW tab \in HealthTabs, SwitchTab(tab)
       PROVE  HealthTyped'
  <2>1. UNCHANGED urlState /\ ShowRows /\ OpenTab(tab)
    BY <1>25 DEF SwitchTab
  <2>2. Data
    BY <1>7, <1>25, <1>f, <2>1 DEF SwitchTab, HealthDataTyped, dataState, Data
  <2> QED BY <1>1, <1>4, <1>6, <2>1, <2>2
<1>12. CASE PollHealth
  <2>1. UNCHANGED <<urlState, rows, tickedRows>>
    BY <1>12 DEF PollHealth, testState
  <2>2. Data
    BY <1>7, <1>12 DEF PollHealth, UpdatePushHealth, HealthDataTyped, tabState, Data
  <2> QED BY <1>1, <1>3, <1>6, <2>1, <2>2
<1>13. CASE GoBack
  <2>1. UNCHANGED <<dataState, tabState, rows, tickedRows>>
    BY <1>13 DEF GoBack, testState
  <2>2. Urls
    BY <1>13 DEF GoBack, HealthTyped, HealthUrlsTyped, Urls
  <2> QED BY <1>2, <1>3, <1>6, <2>1, <2>2
<1>14. CASE ToggleTest
  <2>1. UNCHANGED <<dataState, tabState, rows, tickedRows>>
    BY Zenon, <1>14 DEF ToggleTest
  <2> DEFINE new == [p \in {"testGroup", "selectedTest", "selectedTaskId"} |->
                       CASE p = "testGroup" -> "pr" [] p = "selectedTest" -> "T" [] OTHER -> ""]
  <2>2. UNCHANGED urlState \/ UpdateParamsAndState(new)
    BY Zenon, <1>14 DEF ToggleTest
  <2>3. new["testGroup"] \in GroupNames
    BY DEF GroupNames
  <2> HIDE DEF new
  <2> QED BY <1>1, <1>2, <1>3, <1>5, <1>6, <2>1, <2>2, <2>3
<1>15. CASE SelectAll
  <2>1. UNCHANGED <<urlState, dataState, tabState, rows>>
    BY <1>15 DEF SelectAll
  <2>2. tickedRows' \subseteq DOMAIN rows
    BY <1>15 DEF SelectAll
  <2>3. Rows
    BY <2>1, <2>2 DEF HealthTyped, RowsTyped, Rows
  <2> QED BY <1>1, <1>2, <1>6, <2>1, <2>3
<1>16. ASSUME NEW s, SearchTests(s)
       PROVE  HealthTyped'
  <2> DEFINE new == [p \in {"searchStr"} |-> s]
  <2>1. UpdateParamsAndState(new) /\ UNCHANGED <<dataState, tabState>> /\ ShowRows
    BY <1>16, Zenon DEF SearchTests, Browse
  <2>2. "testGroup" \notin DOMAIN new
    OBVIOUS
  <2> HIDE DEF new
  <2> QED BY <1>2, <1>4, <1>5, <1>6, <2>1, <2>2
<1>17. ASSUME NEW by, SetGroupedBy(by)
       PROVE  HealthTyped'
  <2> DEFINE new == [p \in {"testGroup", "regressionsGroupBy"} |-> IF p = "testGroup" THEN "pr" ELSE by]
  <2>1. UpdateParamsAndState(new) /\ UNCHANGED <<dataState, tabState>> /\ ShowRows
    BY <1>17, Zenon DEF SetGroupedBy, Browse
  <2>2. new["testGroup"] \in GroupNames
    BY DEF GroupNames
  <2> HIDE DEF new
  <2> QED BY <1>2, <1>4, <1>5, <1>6, <2>1, <2>2
<1>18. ASSUME NEW g \in {"pr", "ki"}, ToggleGroup(g)
       PROVE  HealthTyped'
  <2> DEFINE new == [p \in {"testGroup"} |-> g]
  <2>1. UNCHANGED <<dataState, healthTab, rows, tickedRows>> /\ UpdateParamsAndState(new)
    BY <1>18, Zenon DEF ToggleGroup, testState
  <2>4. new["testGroup"] \in GroupNames
    BY DEF GroupNames
  <2> HIDE DEF new
  <2>2. shownGroups' \subseteq {"pr", "ki"}
    BY <1>7, <1>18 DEF ToggleGroup, HealthDataTyped
  <2>3. Data
    BY <1>7, <2>1, <2>2 DEF HealthDataTyped, dataState, Data
  <2> QED BY <1>3, <1>5, <1>6, <2>1, <2>3, <2>4
<1>19. ASSUME NEW t \in FailedTests, SelectTest(t)
       PROVE  HealthTyped'
  <2>1. UNCHANGED <<urlState, dataState, tabState, rows>>
    BY <1>19 DEF SelectTest
  <2>2. tickedRows' \subseteq DOMAIN rows
    BY <1>19 DEF SelectTest, HealthTyped, RowsTyped
  <2>3. Rows
    BY <2>1, <2>2 DEF HealthTyped, RowsTyped, Rows
  <2> QED BY <1>1, <1>2, <1>6, <2>1, <2>3
<1>20. ASSUME NEW t, OthersMark(t) PROVE HealthTyped'
  BY <1>1, <1>2, <1>3, <1>6, <1>20 DEF OthersMark, testState
<1>21. ASSUME NEW t \in FailedTests, NEW task \in ToSet(RunsOf[t]) \cup {NoDecision}, SetSelectedTask(t, task)
       PROVE  HealthTyped'
  <2>1. UNCHANGED <<dataState, tabState, tickedRows>>
    BY <1>21, Zenon DEF SetSelectedTask, testState
  <2>2. ASSUME NEW id, NEW name PROVE TaskParams(id, name)["testGroup"] \in GroupNames
    BY DEF TaskParams, GroupNames
  <2>3. UpdateParamsAndState(TaskParams("", "")) \/ UpdateParamsAndState(TaskParams(task, t))
    BY <1>21, Zenon DEF SetSelectedTask
  <2>4. Urls
    BY <1>5, <2>2, <2>3
  <2>5. PICK new : rows' = [rows EXCEPT ![t] = new] /\ new.task \in {task, NoDecision}
    <3> DEFINE closes == task = NoDecision \/ (task = rows[t].task /\ rows[t].of = health)
               one == [open |-> ~closes, of |-> health, task |-> IF closes THEN NoDecision ELSE task]
    <3>1. rows' = [rows EXCEPT ![t] = one]
      BY <1>21, Zenon DEF SetSelectedTask
    <3>2. one.task \in {task, NoDecision}
      OBVIOUS
    <3> HIDE DEF one
    <3> QED BY <3>1, <3>2
  <2>6. Rows
    BY <2>1, <2>5 DEF HealthTyped, RowsTyped, Rows
  <2> QED BY <1>2, <1>6, <2>1, <2>4, <2>6
<1>22. ASSUME NEW what, Marking(what) PROVE HealthTyped'
  BY <1>1, <1>2, <1>3, <1>6, <1>22 DEF Marking, testState
<1>23. ASSUME NEW m \in marks, MarkAnswered(m)
       PROVE  HealthTyped'
  <2>1. UNCHANGED <<urlState, rows, tickedRows>>
    BY <1>23 DEF MarkAnswered
  <2>2. Data
    BY <1>7, <1>23 DEF MarkAnswered, UpdatePushHealth, HealthDataTyped, tabState, Data
  <2> QED BY <1>1, <1>3, <1>6, <2>1, <2>2
<1> QED BY <1>8, <1>9, <1>10, <1>11, <1>12, <1>13, <1>14, <1>15, <1>16, <1>17, <1>18, <1>19, <1>20, <1>21,
           <1>22, <1>23, <1>24, <1>25, Zenon DEF HealthNext

\* The page is opened plainly or by a link to a task.
LEMMA HealthStart == HealthInit => HealthTyped
<1> SUFFICES ASSUME HealthInit PROVE HealthTyped
  OBVIOUS
<1>1. /\ DOMAIN healthUrl = ViewParams /\ (healthUrl["testGroup"] = "" \/ healthUrl["testGroup"] = "pr")
  <2>1. CASE healthUrl = [p \in ViewParams |-> ""]
    BY <2>1, Zenon DEF ViewParams
  <2>2. ASSUME NEW t, healthUrl = LinkTo(t)
        PROVE  DOMAIN healthUrl = ViewParams /\ healthUrl["testGroup"] = "pr"
    BY <2>2 DEF LinkTo, ViewParams
  <2> QED BY <2>1, <2>2, Zenon DEF HealthInit
<1>2. /\ pastUrl = healthUrl /\ healthView = healthUrl /\ health = NoTests /\ healthLoads = {"first"}
      /\ rows = <<>> /\ tickedRows = {} /\ healthTab = NoHealthTab /\ shownGroups = {}
  BY Zenon DEF HealthInit
<1>3. healthView["testGroup"] \in GroupNames
  BY <1>1, <1>2 DEF GroupNames
<1>4. RowsTyped
  BY <1>2 DEF RowsTyped
<1>6. HealthDataTyped
  BY <1>2 DEF HealthDataTyped
<1> QED BY <1>1, <1>2, <1>3, <1>4, <1>6, Zenon DEF HealthTyped, HealthUrlsTyped

\* The types of the health of a push.
LEMMA HealthTypes == HealthSpec => []HealthTypeOK
<1>1. HealthTyped => HealthTypeOK
  BY DEF HealthTyped, RowsTyped, HealthDataTyped, HealthUrlsTyped, HealthTypeOK
<1> QED BY <1>1, HealthStart, HealthStep, PTL DEF HealthSpec

\* Every variable of every page keeps its type.
THEOREM PagesTypeOKCorrect == PagesSpec => []PagesTypeOK
<1>1. PagesSpec => [](route \in Routes)
  <2>1. PagesInit => route \in Routes
    BY DEF PagesInit
  <2>2. ASSUME route \in Routes, [PagesNext]_pagesVars
        PROVE  (route \in Routes)'
    BY <2>2 DEF PagesNext, pagesVars, Alone
  <2> QED BY <2>1, <2>2, PTL DEF PagesSpec
<1>2. SessionSpec => []WindowsNumbered
  BY WindowsStart, WindowsStep, PTL DEF SessionSpec
<1>3. WindowsNumbered /\ LogoutIsTold => SessionTypeOK
  <2>1. ASSUME WindowsNumbered PROVE 0 .. nWindows \subseteq 0 .. MaxWindows
    BY <2>1, SessionBounds DEF WindowsNumbered
  <2> QED BY <2>1 DEF WindowsNumbered, LogoutIsTold, SessionTypeOK
<1>4. /\ NoticesAgree => NoticesTypeOK /\ (GraphTyped => GraphTypeOK)
      /\ CompareTyped /\ TablesAgree => CompareTypeOK
  BY NoticesTypes, GraphTypes, CompareTypes
<1>5. /\ route \in Routes /\ AlertsTypeOK /\ MenuTypeOK /\ GraphTypeOK /\ CompareTypeOK
      /\ ChooserTypeOK /\ SessionTypeOK /\ HealthTypeOK /\ LogTypeOK /\ NoticesTypeOK
      => PagesTypeOK
  BY DEF PagesTypeOK
<1> QED
  BY <1>1, <1>2, <1>3, <1>4, <1>5, AlertsTypes, MenuTypes, GraphsTyped, GraphTypes, CompareAgrees,
     ChooserTypes, LogoutTold, HealthTypes, LogTypes, NoticesRecalled, NoticesTypes,
     PagesImplementParts, PTL
=============================================================================
