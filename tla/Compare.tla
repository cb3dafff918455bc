------------------------------- MODULE Compare -------------------------------
(***************************************************************************)
(* The comparison of two revisions (Validation.jsx, CompareTableView.jsx   *)
(* as CompareView or CompareSubtestsView): the parameters of the URL are   *)
(* validated once, the two sides are fetched and paired into rows, the     *)
(* controls filter the rows and each table sorts its own copy of them; a   *)
(* row may be retriggered.                                                 *)
(***************************************************************************)
EXTENDS Integers, FiniteSets, Lists

CONSTANTS
    CmpFrameworks, CmpRanges,
    CmpTests, CmpPlatforms, \* platforms in their order
    SidesOf,        \* what the server has: the sides of a row, by framework, range and row
    Comparable,     \* rows with a difference that matters, and not too much noise
    MaxCmpMoves, MaxCmpLoads, MaxRetriggers

CmpRows == CmpTests \X ToSet(CmpPlatforms)
CmpSides == {"base", "new"}
ASSUME CompareParameters ==
    /\ SidesOf \in [CmpFrameworks \X CmpRanges -> [CmpRows -> SUBSET CmpSides]]
    /\ Comparable \subseteq CmpRows
    /\ IsFiniteSet(CmpTests) /\ CmpPlatforms \in Seq(ToSet(CmpPlatforms))
    /\ {MaxCmpMoves, MaxCmpLoads, MaxRetriggers} \subseteq Nat

VARIABLES
    view,         \* subtests, aggregate (no base revision), ancient (older than a year)
    checked,      \* Validation: checking, shown or errors
    compareUrl,   \* framework and range of the URL, and of the pages before
    cmpFramework, cmpRange,
    cmpLoads, cmpLoading, cmpFailed, nCmpLoads,
    compareResults, \* the rows
    metrics, cmpText, cmpInput, typing, \* filters; the text, and what is typed
    results,      \* CompareTableControls: the rows that pass
    tables,       \* CompareTable: data and currentSort of each test
    retrigger,    \* the row, the dialog and what it holds
    retriggered, cmpMoves

cmpUrlVars == <<view, checked, compareUrl>>
cmpDataVars == <<cmpFramework, cmpRange, cmpLoads, cmpLoading, cmpFailed, nCmpLoads>>
shownRowVars == <<compareResults, results, tables>>
cmpFilterVars == <<metrics, cmpText, cmpInput, typing>>
rowVars == <<shownRowVars, cmpFilterVars>>
retriggerVars == <<retrigger, retriggered>>
compareVars == <<cmpUrlVars, cmpDataVars, rowVars, retriggerVars, cmpMoves>>

NoiseMetric == "noise metric"
CmpMove == checked = "shown" /\ cmpMoves < MaxCmpMoves /\ cmpMoves' = cmpMoves + 1
Metrics == {"comparable", "important", "confident", "noise"}
Columns == {"name", "delta"}
NextSort == [default |-> "ascending", ascending |-> "descending", descending |-> "default"]
UnsortedTable == [c \in Columns |-> "default"]

-----------------------------------------------------------------------------
(* Validation.  The history is one object that changes: what it was before *)
(* an update is what it is after, so nothing is validated again.           *)

ValidateParams(found) ==
    /\ checked = "checking"
    /\ checked' = IF found /\ compareUrl.complete THEN "shown" ELSE "errors"
    /\ UNCHANGED <<view, compareUrl, rowVars, retriggerVars, cmpMoves>>

\* getInterval finds no range for what is older than the longest.
GetPerformanceData ==
    /\ nCmpLoads < MaxCmpLoads /\ nCmpLoads' = nCmpLoads + 1
    /\ cmpLoading' = TRUE
    /\ cmpLoads' = IF view.ancient /\ ~view.aggregate /\ ~view.subtests THEN cmpLoads
                   ELSE cmpLoads \cup {[id |-> nCmpLoads', framework |-> cmpFramework', range |-> cmpRange']}

Validated(found) ==
    /\ ValidateParams(found)
    /\ cmpFramework' = compareUrl.framework /\ cmpRange' = compareUrl.range /\ UNCHANGED cmpFailed
    /\ IF checked' = "shown" THEN GetPerformanceData ELSE UNCHANGED <<cmpLoads, cmpLoading, nCmpLoads>>

\* updateParams
PushUrl == compareUrl' = [compareUrl EXCEPT !.framework = cmpFramework', !.range = cmpRange',
                                            !.back = Append(@, <<cmpFramework, cmpRange>>)]
UpdateFramework(f) ==
    /\ CmpMove /\ ~view.subtests
    /\ cmpFramework' = f /\ UNCHANGED <<cmpRange, cmpFailed>>
    /\ PushUrl /\ GetPerformanceData
    /\ UNCHANGED <<view, checked, rowVars, retriggerVars>>
UpdateCmpRange(t) ==
    /\ CmpMove /\ view.aggregate
    /\ cmpRange' = t /\ UNCHANGED <<cmpFramework, cmpFailed>>
    /\ PushUrl /\ GetPerformanceData
    /\ UNCHANGED <<view, checked, rowVars, retriggerVars>>
BackButton ==
    /\ CmpMove /\ compareUrl.back # <<>>
    /\ compareUrl' = LET page == Last(compareUrl.back)
                     IN [compareUrl EXCEPT !.framework = page[1], !.range = page[2], !.back = Front(@)]
    /\ UNCHANGED <<view, checked, cmpDataVars, rowVars, retriggerVars>>

-----------------------------------------------------------------------------
(* The rows.                                                               *)

\* getCounterMap; a side that is there has a job to retrigger.
CounterMap(row, sides) ==
    [test |-> row[1], name |-> row[2], sides |-> sides, noise |-> FALSE,
     comparable |-> sides = CmpSides,
     meaningful |-> sides = CmpSides /\ row \in Comparable]
NoiseOf(test, name) ==
    [test |-> test, name |-> name, sides |-> {}, noise |-> TRUE, comparable |-> TRUE, meaningful |-> FALSE]

\* getDisplayResults (subtests are the rows of one table), with the noise metric of each platform, or of the test.
Quiet(rows) == {r \in rows : r.meaningful}
NoiseRows(rows) ==
    IF view.subtests THEN {NoiseOf(NoiseMetric, r.test) : r \in Quiet(rows)}
                     ELSE {NoiseOf(NoiseMetric, r.name) : r \in Quiet(rows)}
DisplayResults(l) ==
    LET sides == SidesOf[<<l.framework, l.range>>]
        rows == {CounterMap(row, sides[row]) : row \in {r \in CmpRows : sides[r] # {}}}
    IN  rows \cup NoiseRows(rows)

\* filterResult
Passes(r, on, text) ==
    /\ "important" \in on => r.meaningful
    /\ "comparable" \in on => r.comparable
    /\ "confident" \in on => r.meaningful
    /\ "noise" \in on => r.noise
    /\ text # "" => text \in {r.test, r.name}
FilteredTests == {r \in compareResults' : Passes(r, metrics', cmpText')}

Rank(r) == IF r.name \in CmpTests THEN 0 ELSE CHOOSE k \in DOMAIN CmpPlatforms : CmpPlatforms[k] = r.name
InOrder(rows) ==
    CHOOSE list \in SetToSeqs(rows) :
        \A i, j \in DOMAIN list : Rank(list[i]) < Rank(list[j]) => i < j
RowsOf(rows, t) == {r \in rows : r.test = t}
NewTable(rows) == [data |-> InOrder(rows), sort |-> UnsortedTable]

\* Mutation: a sorted table keeps its rows.
RefilledUnlessSorted(rows, t) ==
    IF t \in DOMAIN tables /\ tables[t].sort # UnsortedTable THEN tables[t] ELSE NewTable(RowsOf(rows, t))
\* updateFilteredResults; a table that is given other rows starts again.
RefilledTables(rows, t) == NewTable(RowsOf(rows, t))
UpdateFilteredResults ==
    /\ results' = FilteredTests
    /\ tables' = [t \in {r.test : r \in results'} |-> RefilledTables(results', t)]

\* A row that only the base has: the new side of a subtest is read all the same.
Unreadable(l) == view.subtests /\ \E row \in CmpRows : SidesOf[<<l.framework, l.range>>][row] = {"base"}
DataAnswered(l) ==
    /\ cmpLoads' = cmpLoads \ {l}
    /\ cmpLoading' = (cmpLoading /\ Unreadable(l))
    /\ UNCHANGED <<cmpFramework, cmpRange, cmpFailed, nCmpLoads, cmpUrlVars, cmpFilterVars, retriggerVars,
                   cmpMoves>>
    /\ IF Unreadable(l) \/ DisplayResults(l) = {} THEN UNCHANGED shownRowVars
       ELSE compareResults' = DisplayResults(l) /\ UpdateFilteredResults
DataRefused(l) ==
    /\ cmpLoads' = cmpLoads \ {l}
    /\ cmpLoading' = FALSE /\ cmpFailed' = TRUE
    /\ UNCHANGED <<cmpFramework, cmpRange, nCmpLoads, cmpUrlVars, rowVars, retriggerVars, cmpMoves>>

UpdateCmpFilter(m) ==
    /\ CmpMove
    /\ metrics' = IF m \in metrics THEN metrics \ {m} ELSE metrics \cup {m}
    /\ UNCHANGED <<compareResults, cmpText, cmpInput, typing, cmpUrlVars, cmpDataVars, retriggerVars>>
    /\ UpdateFilteredResults
\* InputFilter waits until typing stops, unless the input is emptied.
UpdateInput(text) ==
    /\ CmpMove /\ text # cmpInput
    /\ cmpInput' = text /\ typing' = (text # "")
    /\ cmpText' = IF text = "" THEN text ELSE cmpText
    /\ UNCHANGED <<compareResults, metrics, cmpUrlVars, cmpDataVars, retriggerVars>>
    /\ IF text = "" /\ (cmpText # "" \/ metrics # {}) THEN UpdateFilteredResults ELSE UNCHANGED <<results, tables>>
TypingStopped ==
    /\ typing /\ typing' = FALSE
    /\ cmpText' = cmpInput
    /\ UNCHANGED <<compareResults, metrics, cmpInput, cmpUrlVars, cmpDataVars, retriggerVars, cmpMoves>>
    /\ UpdateFilteredResults

\* onChangeSort: of the rows the table was given; those without a value go last.
Sorted(rows, column, order) ==
    LET hasValue == {r \in ToSet(rows) : column = "name" \/ r.comparable}
        valid == Keep(rows, hasValue)
        null == Keep(rows, ToSet(rows) \ hasValue)
    IN  CASE order = "ascending" -> valid \o null
          [] order = "descending" -> Reverse(valid) \o null
          [] OTHER -> rows
OnChangeSort(t, c) ==
    LET next == NextSort[tables[t].sort[c]] IN
    /\ CmpMove /\ t \in DOMAIN tables
    /\ tables' = [tables EXCEPT ![t] =
                    [data |-> Sorted(InOrder(RowsOf(results, t)), c, next),
                     sort |-> [UnsortedTable EXCEPT ![c] = next]]]
    /\ UNCHANGED <<compareResults, results, cmpFilterVars, cmpUrlVars, cmpDataVars, retriggerVars>>

-----------------------------------------------------------------------------
(* The dialog; what it holds is reset when it has opened, not when it opens.*)

DefaultTimes == 1
InitialTimes(row) ==
    [s \in CmpSides |-> IF s \notin row.sides \/ (s = "base" /\ view.aggregate) THEN 0 ELSE DefaultTimes]
Retriggerable(r) ==
    IF view.subtests THEN r = Head(tables[r.test].data) ELSE ~r.noise
OnModalOpen(r) ==
    /\ CmpMove /\ ~retrigger.shown
    /\ r \in results /\ Retriggerable(r) /\ ("new" \in r.sides \/ ~view.aggregate)
    /\ retrigger' = [retrigger EXCEPT !.row = r, !.shown = TRUE]
    /\ UNCHANGED <<cmpUrlVars, cmpDataVars, rowVars, retriggered>>
OnOpened ==
    /\ retrigger.shown /\ ~retrigger.opened
    /\ retrigger' = [retrigger EXCEPT !.opened = TRUE, !.invalid = FALSE, !.times = InitialTimes(retrigger.row)]
    /\ UNCHANGED <<cmpUrlVars, cmpDataVars, rowVars, retriggered, cmpMoves>>
HandleChange(s, n, valid) ==
    /\ CmpMove /\ retrigger.shown /\ s \in retrigger.row.sides /\ (s = "base" => ~view.aggregate)
    /\ retrigger' = [retrigger EXCEPT !.times[s] = IF valid THEN n ELSE 0, !.invalid = ~valid]
    /\ UNCHANGED <<cmpUrlVars, cmpDataVars, rowVars, retriggered>>
RetriggerClosed == [retrigger EXCEPT !.shown = FALSE, !.opened = FALSE, !.invalid = FALSE,
                            !.times = [s \in CmpSides |-> DefaultTimes]]
ToggleRetriggerModal ==
    /\ CmpMove /\ retrigger.shown
    /\ retrigger' = RetriggerClosed
    /\ UNCHANGED <<cmpUrlVars, cmpDataVars, rowVars, retriggered>>
\* retriggerMultipleJobs; the base is left alone when it is an aggregate.
RetriggeredSides(row) == IF view.aggregate THEN row.sides \ {"base"} ELSE row.sides
UpdateAndClose ==
    /\ retrigger.shown /\ ~retrigger.invalid
    /\ Len(retriggered) < MaxRetriggers
    /\ retriggered' = Append(retriggered, [s \in RetriggeredSides(retrigger.row) |-> retrigger.times[s]])
    /\ retrigger' = RetriggerClosed
    /\ UNCHANGED <<cmpUrlVars, cmpDataVars, rowVars, cmpMoves>>

-----------------------------------------------------------------------------
NoRow == NoiseOf("", "")
CompareInit ==
    /\ view \in [subtests : BOOLEAN, aggregate : BOOLEAN, ancient : BOOLEAN]
    /\ checked = "checking"
    /\ compareUrl \in [framework : CmpFrameworks, range : CmpRanges, complete : BOOLEAN, back : {<<>>}]
    /\ cmpFramework = compareUrl.framework /\ cmpRange = compareUrl.range
    /\ cmpLoads = {} /\ cmpLoading = FALSE /\ cmpFailed = FALSE /\ nCmpLoads = 0
    /\ compareResults = {} /\ results = {} /\ tables = <<>>
    /\ metrics \in {{}, {"comparable"}} /\ cmpText = "" /\ cmpInput = "" /\ typing = FALSE
    /\ retrigger = [row |-> NoRow, shown |-> FALSE, opened |-> FALSE, invalid |-> FALSE,
                    times |-> [s \in CmpSides |-> 0]]
    /\ retriggered = <<>> /\ cmpMoves = 0

CompareNext ==
    \/ \E found \in BOOLEAN : Validated(found)
    \/ \E f \in CmpFrameworks : UpdateFramework(f)
    \/ \E t \in CmpRanges : UpdateCmpRange(t)
    \/ BackButton \/ TypingStopped \/ OnOpened \/ ToggleRetriggerModal \/ UpdateAndClose
    \/ \E l \in cmpLoads : DataAnswered(l) \/ DataRefused(l)
    \/ \E m \in Metrics : UpdateCmpFilter(m)
    \/ \E text \in CmpTests \cup {""} : UpdateInput(text)
    \/ \E t \in DOMAIN tables, c \in Columns : OnChangeSort(t, c)
    \/ \E r \in results : OnModalOpen(r)
    \/ \E s \in CmpSides, n \in {0, 2}, valid \in BOOLEAN : HandleChange(s, n, valid)

CompareSpec == CompareInit /\ [][CompareNext]_compareVars

-----------------------------------------------------------------------------
CompareTypeOK ==
    /\ checked \in {"checking", "shown", "errors"}
    /\ compareUrl.framework \in CmpFrameworks /\ cmpFramework \in CmpFrameworks
    /\ results \subseteq compareResults /\ DOMAIN tables = {r.test : r \in results}
    /\ metrics \subseteq Metrics /\ cmpText \in CmpTests \cup {""}

\* However the comparison was loaded again, filtered and sorted meanwhile, the
\* rows a table shows are those of the comparison that pass the filters.
TablesShowFiltered ==
    \A t \in CmpTests \cup {NoiseMetric} :
        (IF t \in DOMAIN tables THEN ToSet(tables[t].data) ELSE {})
            = {r \in compareResults : r.test = t /\ Passes(r, metrics, cmpText)}
=============================================================================
