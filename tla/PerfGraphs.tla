------------------------------- MODULE PerfGraphs -----------------------------
(***************************************************************************)
(* The graphs of Perfherder (GraphsView.jsx, GraphsContainer.jsx): the     *)
(* tests of the URL are fetched and plotted, each in a colour of its own   *)
(* as long as there are some; the cards of the legend (LegendCard.jsx)     *)
(* hide, show and remove them; the dialog (TestDataModal.jsx) adds more;   *)
(* the tooltip (GraphTooltip.jsx) creates alerts.  A test that is plotted  *)
(* is an object the arrays of tests share: `items` holds the objects.      *)
(***************************************************************************)
EXTENDS Integers, FiniteSets, Lists

CONSTANTS
    Series,         \* signatures
    NoData,         \* those the server has no data for
    NumColours,     \* graphColors.length
    MaxGraphMoves,  \* what the user does
    MaxGraphLoads,  \* calls of getTestData
    MaxTestLists,   \* lists of tests the dialog fetches
    MaxAlerts       \* alerts that are created

ASSUME GraphBounds ==
    /\ IsFiniteSet(Series) /\ NoData \subseteq Series
    /\ NumColours \in Nat \ {0}
    /\ {MaxGraphMoves, MaxGraphLoads, MaxTestLists, MaxAlerts} \subseteq Nat

VARIABLES
    items,      \* the objects: signature_id, color, visible
    plotted,    \* testData: indices of items
    palette,    \* colors
    symbolsLeft, \* Len(symbols)
    graphLoads, \* getTestData under way
    graphLoading,
    graphThrown,    \* history: a fetch threw since the last getTestData
    visibilityChanged,
    range,      \* timeRange
    point,      \* selectedDataPoint: the test it is of
    locked,     \* GraphsContainer: lockTooltip
    zoomed,
    graphUrl,   \* the tests the URL names
    chooser,    \* TestDataModal: open, offered, picked, innerTimeRange
    testLists,      \* getSeriesList under way
    newAlerts,  \* createAlert and updateData under way
    graphMoves, nGraphLoads, nLists, nNewAlerts

plotVars == <<items, plotted, palette, symbolsLeft>>
loadVars == <<graphLoads, graphLoading, graphThrown, visibilityChanged, nGraphLoads>>
lookVars == <<range, point, locked, zoomed, graphUrl>>
testModalVars == <<chooser, testLists, nLists>>
alertDataVars == <<newAlerts, nNewAlerts>>
graphVars == <<plotVars, loadVars, lookVars, testModalVars, alertDataVars, graphMoves>>

NoColour == 0
NoPoint == "none"
GraphColours == [k \in 1 .. NumColours |-> k]
Secondary(i) == items[i].colour = NoColour
SigsOf(its, seq) == {its[seq[k]].sig : k \in DOMAIN seq}
GraphMove == graphMoves < MaxGraphMoves /\ graphMoves' = graphMoves + 1

\* changeParams, after the state was set.
ChangeParams == graphUrl' = SigsOf(items', plotted')

\* GraphsContainer is there.
GraphsMounted == plotted # <<>>

-----------------------------------------------------------------------------
(* Fetching.                                                               *)

\* getTestData: of the tests that are added, or of all that are plotted.
GetTestData(added, init) ==
    /\ nGraphLoads < MaxGraphLoads /\ nGraphLoads' = nGraphLoads + 1
    /\ graphLoads' = graphLoads \cup
        {[id |-> nGraphLoads', before |-> plotted, added |-> added # <<>>, init |-> init,
          sigs |-> IF added # <<>> THEN added ELSE [k \in DOMAIN plotted |-> items[plotted[k]].sig],
          answered |-> FALSE, colours |-> <<>>, symbols |-> 0]}
    /\ graphLoading' = TRUE /\ graphThrown' = FALSE

\* createGraphObject has the colours that are left, and asks for the alerts.
SeriesAnswered(l) ==
    /\ ~l.answered
    /\ graphLoads' = (graphLoads \ {l}) \cup
        {[l EXCEPT !.answered = TRUE, !.colours = palette, !.symbols = symbolsLeft,
                   !.sigs = Keep(@, Series \ NoData)]}
    /\ UNCHANGED <<graphLoading, graphThrown, visibilityChanged, nGraphLoads, plotVars, lookVars,
                   testModalVars, alertDataVars, graphMoves>>
SeriesRefused(l) ==
    /\ ~l.answered
    /\ graphLoads' = graphLoads \ {l}
    /\ graphLoading' = FALSE
    /\ UNCHANGED <<graphThrown, visibilityChanged, nGraphLoads, plotVars, lookVars, testModalVars,
                   alertDataVars, graphMoves>>
\* A fetch that throws, of the data or of the alerts, is caught nowhere: the
\* page goes on loading.  (Other requests that throw are as good as never
\* answered: nothing waits for them.)
SeriesThrows(l) ==
    /\ graphLoads' = graphLoads \ {l}
    /\ graphThrown' = TRUE
    /\ UNCHANGED <<graphLoading, visibilityChanged, nGraphLoads, plotVars, lookVars, testModalVars,
                   alertDataVars, graphMoves>>

\* createGraphData
GraphData(l) ==
    [k \in DOMAIN l.sigs |->
        LET left == Len(l.colours) + 1 - k
            colour == IF left > 0 THEN l.colours[left] ELSE NoColour
        IN [sig |-> l.sigs[k], colour |-> colour, shown |-> colour # NoColour]]
Left(n, l) == IF Len(l.sigs) < n THEN n - Len(l.sigs) ELSE 0

\* The point of the URL is looked for when the first tests are plotted.
VerifySelected == locked' = (point \in SigsOf(items', plotted'))

AlertsAnswered(l) ==
    LET ids == [k \in DOMAIN l.sigs |-> Len(items) + k] IN
    /\ l.answered
    /\ graphLoads' = graphLoads \ {l}
    /\ items' = items \o GraphData(l)
    /\ palette' = SubSeq(l.colours, 1, Left(Len(l.colours), l))
    /\ symbolsLeft' = Left(l.symbols, l)
    /\ plotted' = IF l.added THEN l.before \o ids ELSE ids
    /\ graphLoading' = FALSE /\ visibilityChanged' = FALSE
    /\ zoomed' = (zoomed /\ ~GraphsMounted)
    /\ IF ~GraphsMounted /\ plotted' # <<>> /\ point # NoPoint THEN VerifySelected ELSE UNCHANGED locked
    /\ IF l.init /\ ~GraphsMounted /\ (point # NoPoint => locked') THEN UNCHANGED graphUrl ELSE ChangeParams
    /\ UNCHANGED <<graphThrown, nGraphLoads, range, point, testModalVars, alertDataVars, graphMoves>>

-----------------------------------------------------------------------------
(* The legend.                                                             *)

\* updateSelectedTest changes the objects; every one of that signature.
ShownWith(st, i) == [st EXCEPT !.items[i].shown = TRUE, !.items[i].colour = Last(st.colours),
                               !.colours = Front(@), !.symbols = @ - 1]
\* Mutation: a hidden line keeps its colour.
HiddenKeepsColour(st, i) == [st EXCEPT !.items[i].shown = FALSE, !.symbols = @ + 1,
                                       !.colours = Append(@, st.items[i].colour)]
Hidden(st, i) == [st EXCEPT !.items[i].shown = FALSE, !.symbols = @ + 1,
                            !.colours = Append(@, st.items[i].colour), !.items[i].colour = NoColour]
ToggleSeries(s, st, i) ==
    CASE st.items[i].sig # s -> st
      [] st.items[i].sig = s /\ st.items[i].shown -> Hidden(st, i)
      [] st.items[i].sig = s /\ ~st.items[i].shown /\ st.colours # <<>> /\ st.symbols > 0 -> ShownWith(st, i)
      [] OTHER -> [st EXCEPT !.refused = TRUE]
UpdateSelectedTest(s) ==
    LET st == FoldLeft(LAMBDA acc, i : ToggleSeries(s, acc, i),
                       [items |-> items, colours |-> palette, symbols |-> symbolsLeft, refused |-> FALSE],
                       plotted)
    IN
    /\ GraphMove /\ s \in SigsOf(items, plotted)
    /\ items' = st.items /\ UNCHANGED plotted
    /\ IF st.refused THEN UNCHANGED <<palette, symbolsLeft>>
                     ELSE palette' = st.colours /\ symbolsLeft' = st.symbols
    /\ visibilityChanged' = ~st.refused
    /\ ChangeParams
    /\ UNCHANGED <<graphLoads, graphLoading, graphThrown, nGraphLoads, range, point, locked, zoomed,
                   testModalVars, alertDataVars>>

\* The next in the queue takes the colour of the one that is removed.
RemoveTest(k) ==
    LET gone == plotted[k]
        rest == RemoveAt(plotted, k)
        next == rest[NumColours]
    IN
    /\ GraphMove
    /\ plotted' = rest
    /\ IF Len(rest) >= NumColours /\ Secondary(next)
       THEN /\ items' = [items EXCEPT ![next].colour = items[gone].colour, ![next].shown = TRUE]
            /\ UNCHANGED palette
       ELSE /\ palette' = IF Secondary(gone) THEN palette ELSE Append(palette, items[gone].colour)
            /\ UNCHANGED items
    /\ point' = IF point = items[gone].sig THEN NoPoint ELSE point
    /\ zoomed' = (zoomed /\ visibilityChanged /\ rest # <<>>)
    /\ ChangeParams
    /\ UNCHANGED <<symbolsLeft, loadVars, range, locked, testModalVars, alertDataVars>>

-----------------------------------------------------------------------------
(* The graph and its controls.                                             *)

Highlight ==
    /\ GraphMove /\ (GraphsMounted \/ graphLoading)
    /\ UNCHANGED <<plotVars, loadVars, range, point, locked, zoomed, testModalVars, alertDataVars>>
    /\ ChangeParams
SetTooltip(s) ==
    /\ GraphMove /\ \E k \in DOMAIN plotted : items[plotted[k]].shown /\ items[plotted[k]].sig = s
    /\ point' = s /\ locked' = TRUE
    /\ UNCHANGED <<plotVars, loadVars, range, zoomed, testModalVars, alertDataVars>>
    /\ ChangeParams
CloseTooltip ==
    /\ GraphMove /\ locked
    /\ point' = NoPoint /\ locked' = FALSE
    /\ UNCHANGED <<plotVars, loadVars, range, zoomed, testModalVars, alertDataVars>>
    /\ ChangeParams
UpdateZoom ==
    /\ GraphMove /\ GraphsMounted
    /\ zoomed' = TRUE /\ locked' = FALSE
    /\ point' = IF locked THEN NoPoint ELSE point
    /\ UNCHANGED <<plotVars, loadVars, range, testModalVars, alertDataVars>>
    /\ ChangeParams

\* All colours are free again; the tests that are added are not all there are.
NewRange(r, added) ==
    /\ range' = r /\ zoomed' = FALSE /\ point' = NoPoint
    /\ palette' = GraphColours /\ symbolsLeft' = NumColours
    /\ UNCHANGED <<items, plotted, visibilityChanged>>
    /\ IF GraphsMounted THEN locked' = FALSE /\ ChangeParams ELSE UNCHANGED <<locked, graphUrl>>
    /\ GetTestData(added, FALSE)
UpdateTimeRange(r) ==
    /\ GraphMove /\ r # range
    /\ NewRange(r, <<>>)
    /\ chooser' = [chooser EXCEPT !.inner = r]
    /\ UNCHANGED <<testLists, nLists, alertDataVars>>

\* createAlert, then updateData of the objects there were.
CreateAlert(s) ==
    /\ locked /\ point = s /\ s \in SigsOf(items, plotted)
    /\ nNewAlerts < MaxAlerts /\ nNewAlerts' = nNewAlerts + 1
    /\ newAlerts' = newAlerts \cup {[sig |-> s, before |-> plotted]}
    /\ UNCHANGED <<plotVars, loadVars, lookVars, testModalVars, graphMoves>>
AlertCreated(u) ==
    LET index == CHOOSE k \in DOMAIN u.before : items[u.before[k]].sig = u.sig
        others == Keep(u.before, {i \in DOMAIN items : items[i].sig # u.sig})
    IN
    /\ newAlerts' = newAlerts \ {u}
    /\ plotted' = <<u.before[index]>> \o others
    /\ UNCHANGED <<items, palette, symbolsLeft, loadVars, range, point, locked, testModalVars,
                   nNewAlerts, graphMoves>>
    /\ IF GraphsMounted /\ ~visibilityChanged THEN zoomed' = FALSE /\ ChangeParams
                                         ELSE UNCHANGED <<zoomed, graphUrl>>
AlertRefused(u) ==
    /\ newAlerts' = newAlerts \ {u}
    /\ UNCHANGED <<plotVars, loadVars, range, point, locked, zoomed, testModalVars, nNewAlerts, graphMoves>>
    /\ ChangeParams

-----------------------------------------------------------------------------
(* The dialog.  A test of another list is another object.                  *)

ProcessOptions(related) ==
    /\ nLists < MaxTestLists /\ nLists' = nLists + 1
    /\ testLists' = testLists \cup {[id |-> nLists', known |-> IF related THEN {} ELSE SigsOf(items, plotted)]}
OpenChooser(related) ==
    /\ GraphMove /\ ~chooser.open /\ (related => GraphsMounted)
    /\ chooser' = [chooser EXCEPT !.open = TRUE]
    /\ ProcessOptions(related)
    /\ UNCHANGED <<plotVars, loadVars, lookVars, alertDataVars>>
ChangeOptions(r) ==
    /\ GraphMove /\ chooser.open
    /\ chooser' = [chooser EXCEPT !.inner = r]
    /\ ProcessOptions(FALSE)
    /\ UNCHANGED <<plotVars, loadVars, lookVars, alertDataVars>>
TestsListed(q) ==
    /\ testLists' = testLists \ {q}
    /\ chooser' = [chooser EXCEPT !.offered = {<<s, q.id>> : s \in Series \ q.known}]
    /\ UNCHANGED <<nLists, plotVars, loadVars, lookVars, alertDataVars, graphMoves>>
UpdateSelectedTests(test) ==
    /\ GraphMove /\ chooser.open
    /\ chooser' = [chooser EXCEPT !.picked =
                     IF Contains(@, test) THEN Keep(@, ToSet(@) \ {test}) ELSE Append(@, test)]
    /\ UNCHANGED <<plotVars, loadVars, lookVars, testLists, nLists, alertDataVars>>
CloseChooser ==
    /\ GraphMove /\ chooser.open
    /\ chooser' = [chooser EXCEPT !.open = FALSE, !.inner = range]
    /\ UNCHANGED <<plotVars, loadVars, lookVars, testLists, nLists, alertDataVars>>
SubmitTests ==
    LET sigs == [k \in DOMAIN chooser.picked |-> chooser.picked[k][1]] IN
    /\ GraphMove /\ chooser.open /\ sigs # <<>>
    /\ chooser' = [chooser EXCEPT !.open = FALSE, !.picked = <<>>]
    /\ IF chooser.inner # range THEN NewRange(chooser.inner, sigs)
       ELSE GetTestData(sigs, FALSE) /\ UNCHANGED <<plotVars, lookVars, visibilityChanged>>
    /\ UNCHANGED <<testLists, nLists, alertDataVars>>

-----------------------------------------------------------------------------
GraphInit ==
    /\ graphUrl \in {{}, Series}
    /\ items = <<>> /\ plotted = <<>>
    /\ palette = GraphColours /\ symbolsLeft = NumColours
    /\ graphLoads = {[id |-> 0, before |-> <<>>, added |-> TRUE, init |-> TRUE, answered |-> FALSE,
                      sigs |-> SetToSeq(graphUrl), colours |-> <<>>, symbols |-> 0] : s \in graphUrl}
    /\ graphLoading = (graphUrl # {}) /\ graphThrown = FALSE /\ visibilityChanged = FALSE
    /\ range = 1 /\ zoomed = FALSE /\ locked = FALSE
    /\ point \in {NoPoint} \cup graphUrl
    /\ chooser = [open |-> FALSE, offered |-> {}, picked |-> <<>>, inner |-> 1]
    /\ testLists = {} /\ newAlerts = {}
    /\ graphMoves = 0 /\ nGraphLoads = 0 /\ nLists = 0 /\ nNewAlerts = 0

GraphNext ==
    \/ \E l \in graphLoads : SeriesAnswered(l) \/ SeriesRefused(l) \/ SeriesThrows(l) \/ AlertsAnswered(l)
    \/ \E s \in Series : UpdateSelectedTest(s) \/ SetTooltip(s) \/ CreateAlert(s)
    \/ \E k \in DOMAIN plotted : RemoveTest(k)
    \/ Highlight \/ CloseTooltip \/ UpdateZoom \/ CloseChooser \/ SubmitTests
    \/ \E r \in {1, 2} : UpdateTimeRange(r) \/ ChangeOptions(r)
    \/ \E u \in newAlerts : AlertCreated(u) \/ AlertRefused(u)
    \/ \E related \in BOOLEAN : OpenChooser(related)
    \/ \E q \in testLists : TestsListed(q)
    \/ \E test \in chooser.offered \cup ToSet(chooser.picked) : UpdateSelectedTests(test)

GraphSpec == GraphInit /\ [][GraphNext]_graphVars

-----------------------------------------------------------------------------
GraphTypeOK ==
    /\ \A i \in DOMAIN items : items[i] \in [sig : Series, colour : 0 .. NumColours, shown : BOOLEAN]
    /\ ToSet(plotted) \subseteq DOMAIN items
    /\ ToSet(palette) \subseteq 0 .. NumColours /\ symbolsLeft \in Nat
    /\ graphUrl \subseteq Series /\ point \in Series \cup {NoPoint}

\* A card whose line is hidden is grey, whatever was hidden, shown, removed or
\* fetched meanwhile.
HiddenHasNoColour == \A i \in DOMAIN items : ~items[i].shown => items[i].colour = NoColour

\* The spinner is there only while an answer is awaited that ends it, whatever
\* series were added, removed or refused meanwhile, or a fetch threw since the
\* last one was sent.
GraphLoadingIsAwaited == graphLoading => graphLoads # {} \/ graphThrown
=============================================================================
