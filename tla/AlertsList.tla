----------------------------- MODULE AlertsList -----------------------------
(***************************************************************************)
(* The alerts view of Perfherder (perfherder/alerts): the list of alert    *)
(* summaries by filters and page, or a single one, and for each a table of *)
(* its alerts with the tick boxes and the panel that acts on those ticked. *)
(* Requests for the list and refreshes of single summaries are answered in *)
(* any order, or throw; a refresh puts its summary into the array it began *)
(* with.                                                                   *)
(***************************************************************************)
EXTENDS Integers, FiniteSets, Lists

CONSTANTS
    AlertFilters,    \* statuses, frameworks and texts to filter summaries by
    AlertPages,      \* the pages of each
    SummariesOf,     \* the summaries of a page, in order
    AlertsOf,        \* the alerts of each summary
    MaxAlertMoves,   \* what the sheriff does
    MaxAlertFetches, \* requests for summaries
    MaxModifies      \* requests to change alerts

AlertSummaries == DOMAIN AlertsOf
ASSUME AlertParameters ==
    /\ SummariesOf \in [AlertFilters -> [AlertPages -> Seq(AlertSummaries)]]
    /\ 1 \in AlertPages /\ AlertPages \subseteq Nat
    /\ {MaxAlertMoves, MaxModifies} \subseteq Nat /\ MaxAlertFetches \in Nat \ {0}

VARIABLES
    alertStatus,   \* of each alert, on the server
    alertRelated,  \* and the summary it is downstream of
    listFilter, listPage, listOnly, hideDone,  \* filters, page, id; hideDownstream
    arrays,        \* the array each answer made, of summaries as they came; updates splice it
    shownArray,    \* the one that is alertSummaries
    listLoading, listError,
    listThrown,    \* history: a request for the list threw, none was made since
    alertFetches,  \* fetchAlertSummaries under way
    alertTables,   \* selectedAlerts, the ticked boxes and allSelected of each table
    modifies,      \* changes of alerts under way
    urlPage,       \* page of the URL
    alertMoves, nFetches, nModifies

alertListVars == <<listFilter, listPage, listOnly, hideDone, urlPage>>
countVars == <<nFetches, nModifies>>
shownVars == <<arrays, shownArray>>
serverAlerts == <<alertStatus, alertRelated>>
loadingVars == <<listLoading, listError, listThrown>>
alertVars == <<serverAlerts, alertListVars, shownVars, loadingVars, alertFetches, alertTables,
               modifies, alertMoves, countVars>>

NoSummary == "none"
AlertsIn == UNION {AlertsOf[s] : s \in AlertSummaries}
AlertStatuses == {"untriaged", "acknowledged", "invalid", "downstream"}
\* stray is history: the box above the rows was left ticked by ClearTicked.
EmptyTable == [selected |-> {}, ticked |-> {}, all |-> FALSE, stray |-> FALSE]
AlertMove == alertMoves < MaxAlertMoves /\ alertMoves' = alertMoves + 1
summaryList == arrays[shownArray]
Row(s, L) == Keep(L, {r \in ToSet(L) : r.id = s})
StatusIn(s) == Row(s, summaryList)[1].statuses
RelatedIn(s) == Row(s, summaryList)[1].related
Listed(L) == {s \in AlertSummaries : Row(s, L) # <<>>}
InList(s) == Row(s, summaryList) # <<>>

\* filterAlert
FilteredAlerts(s) == {a \in AlertsOf[s] : ~(hideDone /\ StatusIn(s)[a] \in {"invalid", "downstream"})}

\* The panel behind each change under way follows its table while something is
\* selected; once it is unmounted it has the props it had last (allSelected TRUE
\* or FALSE), and once its table is, nothing to update.  T are the tables by
\* now, S the summaries that are listed.
Follow(M, T, S) ==
    {[m EXCEPT !.panel = CASE @ = "gone" \/ m.summary \notin S -> "gone"
                           [] @ = "mounted" /\ m.summary \in S /\ T[m.summary].selected = {} ->
                                  IF alertTables[m.summary].all THEN "all" ELSE "some"
                           [] OTHER -> @] : m \in M}
\* The tables get new states, under the list as it is.
SetTables(T) == alertTables' = T /\ modifies' = Follow(modifies, T, Listed(summaryList))

-----------------------------------------------------------------------------
(* Fetching.                                                               *)

AlertsRequest(f, p, only) ==
    [id |-> nFetches + 1, kind |-> "list", filter |-> f, page |-> p, only |-> only, array |-> 0]
Fetch(R) ==
    /\ nFetches + Cardinality(R) <= MaxAlertFetches
    /\ nFetches' = nFetches + Cardinality(R)
    /\ alertFetches' = alertFetches \cup R
\* fetchAlertSummaries of the list, or of the one that is shown.
FetchList(f, p, only) ==
    /\ Fetch({AlertsRequest(f, p, only)})
    /\ listLoading' = TRUE /\ listError' = FALSE /\ listThrown' = FALSE /\ listPage' = p

\* The summaries as the server has them; each answer makes objects of its own.
Snapshot(s, r) == [id |-> s, from |-> r.id, statuses |-> [a \in AlertsOf[s] |-> alertStatus[a]],
                   related |-> [a \in AlertsOf[s] |-> alertRelated[a]]]
Answer(r) ==
    LET seq == IF r.only # NoSummary THEN <<r.only>> ELSE SummariesOf[r.filter][r.page]
    IN  [i \in 1 .. Len(seq) |-> Snapshot(seq[i], r)]

\* A table is filled again, with nothing ticked, when it gets a new object.
Refilled(S) == [s \in AlertSummaries |-> IF s \in S THEN EmptyTable ELSE alertTables[s]]

ListAnswered(r) ==
    /\ r.kind = "list"
    /\ alertFetches' = alertFetches \ {r}
    /\ arrays' = [arrays EXCEPT ![r.id] = Answer(r)] /\ shownArray' = r.id
    /\ alertTables' = Refilled(AlertSummaries)
    /\ modifies' = Follow(modifies, alertTables', Listed(Answer(r)))
    /\ listLoading' = FALSE
    /\ UNCHANGED <<serverAlerts, alertListVars, listError, listThrown, alertMoves, countVars>>

\* splice(findIndex): the last one when it is not in the list.  Tables of those
\* that are in neither list any more are gone.
Splice(L, row) ==
    IF L = <<>> THEN <<row>>
    ELSE LET I == {i \in 1 .. Len(L) : L[i].id = row.id}
         IN  [L EXCEPT ![IF I = {} THEN Len(L) ELSE Min(I)] = row]
UpdateAnswered(r) ==
    /\ r.kind = "update"
    /\ alertFetches' = alertFetches \ {r}
    /\ arrays' = [arrays EXCEPT ![r.array] = Splice(@, Snapshot(r.only, r))]
    /\ shownArray' = r.array
    /\ alertTables' = Refilled({s \in AlertSummaries : Row(s, arrays'[shownArray']) # Row(s, summaryList)})
    /\ modifies' = Follow(modifies, alertTables', Listed(arrays'[r.array]))
    /\ listLoading' = FALSE
    /\ UNCHANGED <<serverAlerts, alertListVars, listError, listThrown, alertMoves, countVars>>

\* Mutation: a refusal leaves the page loading.
FetchRefusedQuietly(r) ==
    /\ alertFetches' = alertFetches \ {r}
    /\ listError' = TRUE
    /\ UNCHANGED <<serverAlerts, alertListVars, shownVars, listLoading, listThrown, alertTables,
                   modifies, alertMoves, countVars>>
FetchRefused(r) ==
    /\ alertFetches' = alertFetches \ {r}
    /\ listError' = TRUE /\ listLoading' = FALSE
    /\ UNCHANGED <<serverAlerts, alertListVars, shownVars, listThrown, alertTables, modifies,
                   alertMoves, countVars>>
\* Nobody catches what throws: a fetch without an answer, an answer that is no
\* JSON, and the first of no results, when the filters of the list, which are
\* sent with a refresh, leave its summary out.
FetchThrows(r) ==
    /\ alertFetches' = alertFetches \ {r}
    /\ listThrown' = (listThrown \/ r.kind = "list")
    /\ UNCHANGED <<serverAlerts, alertListVars, shownVars, listLoading, listError, alertTables,
                   modifies, alertMoves, countVars>>

-----------------------------------------------------------------------------
(* Filters and pages.                                                      *)

\* The list is fetched from page p; the URL goes to page 1 and, when it was on
\* another, its change fetches page 1 as well.
FetchFrom(f, p) ==
    /\ urlPage' = 1
    /\ Fetch({AlertsRequest(f, p, NoSummary)} \cup
             (IF urlPage # 1 THEN {[AlertsRequest(f, 1, NoSummary) EXCEPT !.id = @ + 1]} ELSE {}))
    /\ listPage' = IF urlPage # 1 THEN 1 ELSE p
    /\ listLoading' = TRUE /\ listError' = FALSE /\ listThrown' = FALSE

\* A status or framework: the page goes to 1 before the list is fetched.
UpdateFilter(f) ==
    /\ AlertMove /\ listOnly = NoSummary /\ f # listFilter
    /\ listFilter' = f
    /\ SetTables(Refilled(AlertSummaries))
    /\ FetchFrom(f, 1)
    /\ UNCHANGED <<serverAlerts, listOnly, hideDone, shownVars, nModifies>>
\* A text: the page of the URL goes to 1, the one that is fetched does not.
UpdateFilterText(f) ==
    /\ AlertMove /\ listOnly = NoSummary /\ f # listFilter
    /\ listFilter' = f
    /\ SetTables(Refilled(AlertSummaries))
    /\ FetchFrom(f, listPage)
    /\ UNCHANGED <<serverAlerts, listOnly, hideDone, shownVars, nModifies>>
\* Hide downstream and invalid: in a single alert only the table is filtered.
ToggleHide ==
    /\ AlertMove
    /\ hideDone' = ~hideDone
    /\ SetTables(Refilled(AlertSummaries))
    /\ IF listOnly = NoSummary
       THEN FetchFrom(listFilter, 1)
       ELSE /\ listPage' = 1
            /\ UNCHANGED <<alertFetches, nFetches, loadingVars, urlPage>>
    /\ UNCHANGED <<serverAlerts, listFilter, listOnly, shownVars, nModifies>>

\* navigatePage, and Back.
NavigatePage(p) ==
    /\ AlertMove /\ p # urlPage /\ listOnly = NoSummary
    /\ urlPage' = p
    /\ FetchList(listFilter, p, NoSummary)
    /\ UNCHANGED <<serverAlerts, listFilter, listOnly, hideDone, shownVars, alertTables, modifies,
                   nModifies>>
\* A link to one summary, whose URL has no filters, or Back to the list, whose
\* URL has those of the list as it was.
NavigateTo(only) ==
    /\ AlertMove /\ only # listOnly
    /\ listOnly' = only
    /\ listFilter' \in IF only = NoSummary THEN AlertFilters ELSE {listFilter}
    /\ hideDone' \in IF only = NoSummary THEN BOOLEAN ELSE {FALSE}
    /\ SetTables(Refilled(AlertSummaries))
    /\ FetchList(listFilter', listPage, only)
    /\ UNCHANGED <<serverAlerts, urlPage, shownVars, nModifies>>

-----------------------------------------------------------------------------
(* Ticking alerts: selectedAlerts of the table and the box of each row.    *)

SetSelected(s, S, all) ==
    SetTables([alertTables EXCEPT ![s] =
                   [selected |-> S, ticked |-> S, all |-> all, stray |-> FALSE]])
\* selectAlertsByStatus
SelectBy(s, choice) ==
    LET S == CASE choice = "all" -> FilteredAlerts(s)
               [] choice = "none" -> {}
               [] choice = "triaged" -> {a \in FilteredAlerts(s) : StatusIn(s)[a] # "untriaged"}
               [] choice = "untriaged" -> {a \in FilteredAlerts(s) : StatusIn(s)[a] = "untriaged"}
    IN  /\ AlertMove /\ InList(s) /\ FilteredAlerts(s) # {}
        /\ SetSelected(s, S, choice # "none" /\ S = FilteredAlerts(s))
        /\ UNCHANGED <<serverAlerts, alertListVars, shownVars, loadingVars, alertFetches, countVars>>
\* Mutation: the row is unticked, the table not told.
UntickedOnly(t, a) == [t EXCEPT !.ticked = @ \ {a}, !.all = FALSE, !.stray = FALSE]
\* updateCheckbox
Unticked(t, a) ==
    [selected |-> t.selected \ {a}, ticked |-> t.ticked \ {a}, all |-> FALSE, stray |-> FALSE]
Ticked(t, a) == [t EXCEPT !.selected = @ \cup {a}, !.ticked = @ \cup {a}]
UpdateCheckbox(s, a) ==
    /\ AlertMove /\ InList(s) /\ a \in FilteredAlerts(s)
    /\ SetTables([alertTables EXCEPT ![s] = IF a \in @.ticked THEN Unticked(@, a) ELSE Ticked(@, a)])
    /\ UNCHANGED <<serverAlerts, alertListVars, shownVars, loadingVars, alertFetches, countVars>>

-----------------------------------------------------------------------------
(* Acting on what is ticked.                                               *)

HasTriagedAlerts(s) == \E a \in alertTables[s].selected : StatusIn(s)[a] # "untriaged"
\* Which buttons the panel has.
Offered(s) == IF HasTriagedAlerts(s) THEN {"untriaged"} ELSE AlertStatuses \ {"untriaged"}

\* updateAlerts, updateAndFetch: the requests are sent, with the array and the
\* alerts the panel has now; related are the summaries to refresh besides its
\* own, the one the alerts go to or, for a reset, those they were downstream of.
Modify(s, status, other) ==
    /\ InList(s) /\ alertTables[s].selected # {} /\ status \in Offered(s)
    /\ other # NoSummary <=> status = "downstream"
    /\ nModifies < MaxModifies /\ nModifies' = nModifies + 1
    /\ modifies' = modifies \cup
           {[id |-> nModifies', summary |-> s, alerts |-> alertTables[s].selected,
             status |-> status, other |-> other, array |-> shownArray, panel |-> "mounted",
             related |-> CASE status = "downstream" -> {other}
                           [] status = "untriaged" -> {RelatedIn(s)[a] : a \in alertTables[s].selected}
                           [] OTHER -> {}]}
    /\ UNCHANGED <<serverAlerts, alertListVars, shownVars, loadingVars, alertFetches, alertTables,
                   nFetches, alertMoves>>

\* What the server has once it has changed the alerts in done.
Changed(m, done) ==
    /\ alertStatus' = [a \in AlertsIn |-> IF a \in done THEN m.status ELSE alertStatus[a]]
    /\ alertRelated' = [a \in AlertsIn |->
           IF a \in done /\ m.status \in {"untriaged", "downstream"} THEN m.other ELSE alertRelated[a]]

\* The refreshes, each into the list as it is now.
Refreshes(S) ==
    {[id |-> nFetches + 1, kind |-> "update", filter |-> listFilter, page |-> listPage,
      only |-> s, array |-> shownArray] : s \in S}
\* clearSelectedAlerts: what is ticked by now is forgotten, whether or not it was
\* acted on.  The box above is cleared by a panel that sees it ticked, or last
\* saw it ticked; one that did not leaves it as it is.
ClearTicked(m) ==
    IF m.panel = "gone" THEN alertTables
    ELSE LET left == alertTables[m.summary].all /\ m.panel = "some"
         IN  [alertTables EXCEPT ![m.summary] = [EmptyTable EXCEPT !.all = left, !.stray = left]]
\* Some of the alerts may be refused: acknowledging and rejecting go on as if
\* none was, the others stop with an error and refresh nothing.  Of the related
\* summaries those are refreshed that the list had which the panel began with.
ModifyAnswered(m, done) ==
    LET shown == {m.summary} \cup (m.related \cap Listed(arrays[m.array]))
        rest == modifies \ {m}
        stops == done # m.alerts /\ m.status \in {"untriaged", "downstream"}
    IN  /\ Changed(m, done)
        /\ IF stops
           THEN /\ listError' = TRUE /\ modifies' = rest
                /\ UNCHANGED <<alertFetches, nFetches, listLoading, alertTables>>
           ELSE /\ Fetch(Refreshes(shown))
                /\ alertTables' = ClearTicked(m)
                /\ modifies' = Follow(rest, alertTables', Listed(summaryList))
                /\ listError' = FALSE /\ listLoading' = FALSE
        /\ UNCHANGED <<alertListVars, shownVars, listThrown, alertMoves, nModifies>>
\* One of the requests throws: nobody is told, and nothing is refreshed.
ModifyThrows(m, done) ==
    /\ Changed(m, done)
    /\ modifies' = modifies \ {m}
    /\ UNCHANGED <<alertListVars, shownVars, loadingVars, alertFetches, alertTables, alertMoves,
                   countVars>>

-----------------------------------------------------------------------------
AlertsInit ==
    /\ alertStatus = [a \in AlertsIn |-> "untriaged"]
    /\ alertRelated = [a \in AlertsIn |-> NoSummary]
    /\ listFilter \in AlertFilters /\ listPage = 1 /\ listOnly = NoSummary /\ hideDone = FALSE
    /\ urlPage = 1
    /\ arrays = [i \in 0 .. MaxAlertFetches |-> <<>>] /\ shownArray = 0
    /\ listLoading = TRUE /\ listError = FALSE /\ listThrown = FALSE
    /\ alertFetches = {[id |-> 1, kind |-> "list", filter |-> listFilter, page |-> 1,
                        only |-> NoSummary, array |-> 0]}
    /\ alertTables = [s \in AlertSummaries |-> EmptyTable] /\ modifies = {}
    /\ alertMoves = 0 /\ nFetches = 1 /\ nModifies = 0

Fetching ==
    \E r \in alertFetches :
        ListAnswered(r) \/ UpdateAnswered(r) \/ FetchRefused(r) \/ FetchThrows(r)
AlertsNext ==
    \/ Fetching
    \/ \E f \in AlertFilters : UpdateFilter(f) \/ UpdateFilterText(f)
    \/ ToggleHide
    \/ \E p \in AlertPages : NavigatePage(p)
    \/ \E s \in AlertSummaries \cup {NoSummary} : NavigateTo(s)
    \/ \E s \in AlertSummaries :
           \/ \E c \in {"all", "none", "triaged", "untriaged"} : SelectBy(s, c)
           \/ \E a \in AlertsOf[s] : UpdateCheckbox(s, a)
           \/ \E st \in AlertStatuses, o \in AlertSummaries \cup {NoSummary} : Modify(s, st, o)
    \/ \E m \in modifies : \E done \in SUBSET m.alerts : ModifyAnswered(m, done) \/ ModifyThrows(m, done)

AlertsSpec == AlertsInit /\ [][AlertsNext]_alertVars

-----------------------------------------------------------------------------
AlertsTypeOK ==
    /\ alertStatus \in [AlertsIn -> AlertStatuses]
    /\ alertRelated \in [AlertsIn -> AlertSummaries \cup {NoSummary}]
    /\ listFilter \in AlertFilters /\ {listPage, urlPage} \subseteq AlertPages
    /\ listOnly \in AlertSummaries \cup {NoSummary} /\ {hideDone, listLoading, listError, listThrown} \subseteq BOOLEAN
    /\ \A i \in 1 .. Len(summaryList) : summaryList[i].id \in AlertSummaries
    /\ \A s \in AlertSummaries : alertTables[s].selected \cup alertTables[s].ticked \subseteq AlertsOf[s]

\* The sheriff acts on what is ticked: the boxes show the alerts that the panel
\* changes, all of them in view, and the box above them is ticked for all.  The
\* one exception is a box that clearSelectedAlerts leaves ticked, for a panel
\* that was closed in between: what the panel acts on is shown even then.
ActsOnWhatIsTicked ==
    \A s \in AlertSummaries : InList(s) =>
        LET t == alertTables[s]
        IN  /\ t.selected = t.ticked
            /\ t.selected \subseteq FilteredAlerts(s)
            /\ t.all /\ ~t.stray => t.selected = FilteredAlerts(s)

\* The spinner is there only while an answer is awaited that ends it, in
\* whatever order answers and refusals come; a request for the list that throws
\* leaves it there until the next one.
AlertsLoadingIsAwaited == listLoading => alertFetches # {} \/ listThrown

\* The comment in fetchAlertSummaries says an update is "used with the id
\* argument to update one specific alert summary in the array of alert summaries".
UpdatesOneSummary ==
    [][\A r \in alertFetches : UpdateAnswered(r) =>
          \A s \in AlertSummaries \ {r.only} : Row(s, arrays'[shownArray']) = Row(s, summaryList)]_alertVars
=============================================================================
