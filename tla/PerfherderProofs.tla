-------------------------- MODULE PerfherderProofs --------------------------
(***************************************************************************)
(* The pages of Perfherder, for any number of summaries, series, rows,     *)
(* moves and requests: each has an invariant that its actions keep, of the *)
(* arrays, requests and tables that name each other, and what it shows     *)
(* follows from that.                                                      *)
(***************************************************************************)
EXTENDS AlertsList, AlertSummaryMenu, PerfGraphs, Compare, CompareChooser, ListLemmas

-----------------------------------------------------------------------------
(* The alerts.                                                             *)

\* What the page of alerts holds: its arrays, requests, changes and tables.
AlertRows ==
    [id : AlertSummaries, from : Nat,
     statuses : UNION {[AlertsOf[s] -> AlertStatuses] : s \in AlertSummaries},
     related : UNION {[AlertsOf[s] -> AlertSummaries \cup {NoSummary}] : s \in AlertSummaries}]
AlertLists == [0 .. MaxAlertFetches -> Seq(AlertRows)]
AlertRequests(n) ==
    [id : 1 .. n, kind : {"list", "update"}, filter : AlertFilters, page : AlertPages,
     only : AlertSummaries \cup {NoSummary}, array : 0 .. MaxAlertFetches]
AlertsViewTyped ==
    /\ listFilter \in AlertFilters /\ listPage \in AlertPages /\ urlPage \in AlertPages
    /\ listOnly \in AlertSummaries \cup {NoSummary}
    /\ hideDone \in BOOLEAN /\ listLoading \in BOOLEAN /\ listError \in BOOLEAN
    /\ listThrown \in BOOLEAN
FetchesTyped ==
    /\ nFetches \in Nat /\ nFetches <= MaxAlertFetches
    /\ alertFetches \subseteq AlertRequests(nFetches)
    /\ \A r \in alertFetches : r.kind = "update" => r.only \in AlertSummaries
ListsTyped == arrays \in AlertLists /\ shownArray \in 0 .. MaxAlertFetches
ModifyTyped(m) ==
    /\ {"summary", "other", "status", "array"} \subseteq DOMAIN m
    /\ m.summary \in AlertSummaries /\ m.other \in AlertSummaries \cup {NoSummary}
    /\ m.status \in AlertStatuses /\ m.array \in 0 .. MaxAlertFetches
ModifiesTyped == \A m \in modifies : ModifyTyped(m)
TableOf(s) ==
    [selected : SUBSET AlertsOf[s], ticked : SUBSET AlertsOf[s], all : BOOLEAN, stray : BOOLEAN]
OwnTicks == DOMAIN alertTables = AlertSummaries /\ \A s \in AlertSummaries : alertTables[s] \in TableOf(s)
AlertsTyped ==
    /\ alertStatus \in [AlertsIn -> AlertStatuses]
    /\ alertRelated \in [AlertsIn -> AlertSummaries \cup {NoSummary}]
    /\ AlertsViewTyped /\ FetchesTyped /\ ListsTyped /\ ModifiesTyped /\ OwnTicks

\* Requests take the next numbers.
LEMMA RequestsNumbered ==
    ASSUME FetchesTyped, NEW R, IsFiniteSet(R), Fetch(R),
           R \subseteq AlertRequests(nFetches + Cardinality(R)),
           \A r \in R : r.kind = "update" => r.only \in AlertSummaries
    PROVE  FetchesTyped'
<1> DEFINE c == Cardinality(R)
<1>1. c \in Nat
  BY FS_CardinalityType
<1> HIDE DEF c
<1>2. /\ nFetches \in Nat /\ MaxAlertFetches \in Nat
      /\ nFetches + c <= MaxAlertFetches /\ nFetches' = nFetches + c
      /\ alertFetches' = alertFetches \cup R
  BY AlertParameters DEF Fetch, FetchesTyped, c
<1>3. /\ nFetches' \in Nat /\ nFetches' <= MaxAlertFetches /\ 1 .. nFetches \subseteq 1 .. nFetches'
  BY <1>1, <1>2
<1>4. AlertRequests(nFetches) \subseteq AlertRequests(nFetches')
  BY <1>3 DEF AlertRequests
<1>5. R \subseteq AlertRequests(nFetches')
  BY <1>2 DEF c
<1>6. alertFetches' \subseteq AlertRequests(nFetches')
  BY <1>2, <1>4, <1>5 DEF FetchesTyped
<1>7. \A r \in alertFetches' : r.kind = "update" => r.only \in AlertSummaries
  BY <1>2 DEF FetchesTyped
<1> QED BY <1>3, <1>6, <1>7 DEF FetchesTyped

\* A request for the list or for one summary.
LEMMA RequestTyped ==
    ASSUME FetchesTyped, NEW f \in AlertFilters, NEW p \in AlertPages,
           NEW only \in AlertSummaries \cup {NoSummary}, NEW k \in {1, 2}
    PROVE  /\ AlertsRequest(f, p, only) \in AlertRequests(nFetches + k)
           /\ AlertsRequest(f, p, only).kind = "list" /\ AlertsRequest(f, p, only).id = nFetches + 1
<1>1. nFetches \in Nat /\ MaxAlertFetches \in Nat
  BY AlertParameters DEF FetchesTyped
<1>2. nFetches + 1 \in 1 .. nFetches + k /\ 0 \in 0 .. MaxAlertFetches
  BY <1>1
<1> QED BY <1>2 DEF AlertsRequest, AlertRequests

\* The second of two requests that are sent together.
LEMMA NextRequestTyped ==
    ASSUME FetchesTyped, NEW f \in AlertFilters, NEW p \in AlertPages
    PROVE  \E b \in AlertRequests(nFetches + 2) :
               /\ b = [AlertsRequest(f, p, NoSummary) EXCEPT !.id = @ + 1]
               /\ b.kind = "list" /\ b.id = nFetches + 2
<1>1. nFetches \in Nat /\ MaxAlertFetches \in Nat
  BY AlertParameters DEF FetchesTyped
<1> DEFINE a == AlertsRequest(f, p, NoSummary)
           b == [a EXCEPT !.id = @ + 1]
<1>2. nFetches + 2 \in 1 .. nFetches + 2 /\ (nFetches + 1) + 1 = nFetches + 2
  BY <1>1
<1>3. a \in AlertRequests(nFetches + 2) /\ a.kind = "list" /\ a.id = nFetches + 1
  BY RequestTyped
<1> HIDE DEF a
<1>4. b.id = nFetches + 2 /\ b.kind = "list"
  BY <1>2, <1>3 DEF AlertRequests
<1>5. b \in AlertRequests(nFetches + 2)
  BY <1>2, <1>3 DEF AlertRequests
<1> HIDE DEF b
<1>6. b = [a EXCEPT !.id = @ + 1]
  BY DEF b
<1> QED BY <1>4, <1>5, <1>6 DEF a

\* A page of the list is asked for, or one summary.
LEMMA ListAsked ==
    ASSUME AlertsTyped, NEW f \in AlertFilters, NEW p \in AlertPages,
           NEW only \in AlertSummaries \cup {NoSummary}, FetchList(f, p, only)
    PROVE  /\ FetchesTyped' /\ listPage' \in AlertPages
           /\ listLoading' \in BOOLEAN /\ listError' \in BOOLEAN /\ listThrown' \in BOOLEAN
<1> DEFINE R == {AlertsRequest(f, p, only)}
<1>1. IsFiniteSet(R) /\ Cardinality(R) = 1
  BY OneElement
<1>2. R \subseteq AlertRequests(nFetches + 1) /\ \A r \in R : r.kind = "list"
  <2> DEFINE a == AlertsRequest(f, p, only)
  <2>1. a \in AlertRequests(nFetches + 1) /\ a.kind = "list"
    BY RequestTyped DEF AlertsTyped
  <2> HIDE DEF a
  <2> QED BY <2>1 DEF a
<1>3. Fetch(R) /\ listPage' = p /\ listLoading' = TRUE /\ listError' = FALSE /\ listThrown' = FALSE
  BY DEF FetchList
<1> HIDE DEF R
<1>4. FetchesTyped'
  BY <1>1, <1>2, <1>3, RequestsNumbered DEF AlertsTyped
<1> QED BY <1>3, <1>4

\* A filter asks for the list from a page of it, and perhaps for its first page.
LEMMA FromAsked ==
    ASSUME AlertsTyped, NEW f \in AlertFilters, NEW p \in AlertPages, FetchFrom(f, p)
    PROVE  /\ FetchesTyped' /\ listPage' \in AlertPages /\ urlPage' \in AlertPages
           /\ listLoading' \in BOOLEAN /\ listError' \in BOOLEAN /\ listThrown' \in BOOLEAN
<1> DEFINE a == AlertsRequest(f, p, NoSummary)
<1>1. FetchesTyped /\ 1 \in AlertPages /\ nFetches \in Nat
  BY AlertParameters DEF AlertsTyped, FetchesTyped
<1>2. PICK b \in AlertRequests(nFetches + 2) :
        /\ b = [AlertsRequest(f, 1, NoSummary) EXCEPT !.id = @ + 1]
        /\ b.kind = "list" /\ b.id = nFetches + 2
  BY <1>1, NextRequestTyped
<1>3. /\ a \in AlertRequests(nFetches + 1) /\ a \in AlertRequests(nFetches + 2)
      /\ a.kind = "list" /\ a.id = nFetches + 1
  BY <1>1, RequestTyped
<1> DEFINE R == {a} \cup (IF urlPage # 1 THEN {b} ELSE {})
<1>4. /\ Fetch(R) /\ listPage' \in {1, p} /\ urlPage' = 1 /\ listLoading' = TRUE /\ listError' = FALSE
      /\ listThrown' = FALSE
  BY <1>2 DEF FetchFrom
<1> HIDE DEF a
<1>5. a # b /\ (R = {a} \/ R = {a, b})
  <2>1. a.id # b.id
    BY ONLY <1>1, <1>2, <1>3
  <2> QED BY ONLY <2>1
<1> HIDE DEF R
<1>6. FetchesTyped'
  <2>1. CASE R = {a}
    <3>1. IsFiniteSet(R) /\ Cardinality(R) = 1
      BY <2>1, OneElement
    <3>2. R \subseteq AlertRequests(nFetches + 1) /\ \A r \in R : r.kind = "list"
      BY <1>3, <2>1
    <3> QED BY <1>1, <1>4, <3>1, <3>2, RequestsNumbered
  <2>2. CASE R = {a, b}
    <3>1. IsFiniteSet(R) /\ Cardinality(R) = 2
      BY <1>5, <2>2, TwoElements
    <3>2. R \subseteq AlertRequests(nFetches + 2) /\ \A r \in R : r.kind = "list"
      BY <1>2, <1>3, <2>2
    <3> QED BY <1>1, <1>4, <3>1, <3>2, RequestsNumbered
  <2> QED BY <1>5, <2>1, <2>2
<1> QED BY <1>1, <1>4, <1>6

\* What is listed in an array is the summary of one of its rows.
LEMMA ListedRow ==
    ASSUME NEW L \in Seq(AlertRows), NEW s, Row(s, L) # <<>>
    PROVE  \E i \in 1 .. Len(L) : L[i].id = s
<1> DEFINE S == {r \in ToSet(L) : r.id = s}
<1>1. Keep(L, S) \in Seq(AlertRows) /\ ToSet(Keep(L, S)) = ToSet(L) \cap S
  BY KeepMembers
<1>2. Keep(L, S) # <<>>
  BY DEF Row
<1> HIDE DEF S
<1>3. 1 \in DOMAIN Keep(L, S)
  BY <1>1, <1>2, EmptySeq, LenProperties
<1>4. ToSet(Keep(L, S)) # {}
  BY <1>3 DEF ToSet
<1>5. PICK r \in S : r \in ToSet(L)
  BY <1>1, <1>4
<1>6. r.id = s /\ \E i \in DOMAIN L : L[i] = r
  BY <1>5 DEF S, ToSet
<1> QED BY <1>6, LenProperties

\* A summary as the server has it.
LEMMA SnapshotTyped ==
    ASSUME alertStatus \in [AlertsIn -> AlertStatuses],
           alertRelated \in [AlertsIn -> AlertSummaries \cup {NoSummary}], NEW s \in AlertSummaries, NEW r, r.id \in Nat
    PROVE  Snapshot(s, r) \in AlertRows
<1>1. \A a \in AlertsOf[s] : a \in AlertsIn
  BY DEF AlertsIn
<1>2. [a \in AlertsOf[s] |-> alertStatus[a]] \in [AlertsOf[s] -> AlertStatuses]
  BY <1>1
<1>3. [a \in AlertsOf[s] |-> alertStatus[a]] \in UNION {[AlertsOf[u] -> AlertStatuses] : u \in AlertSummaries}
  BY <1>2
<1>4. [a \in AlertsOf[s] |-> alertRelated[a]] \in [AlertsOf[s] -> AlertSummaries \cup {NoSummary}]
  BY <1>1
<1>5. [a \in AlertsOf[s] |-> alertRelated[a]]
        \in UNION {[AlertsOf[u] -> AlertSummaries \cup {NoSummary}] : u \in AlertSummaries}
  BY <1>4
<1> QED BY <1>3, <1>5 DEF Snapshot, AlertRows

\* An answer is an array of summaries.
LEMMA AnswerRows ==
    ASSUME AlertsTyped, NEW r \in alertFetches
    PROVE  Answer(r) \in Seq(AlertRows)
<1> DEFINE list == IF r.only # NoSummary THEN <<r.only>> ELSE SummariesOf[r.filter][r.page]
<1>1. r \in AlertRequests(nFetches)
  BY DEF AlertsTyped, FetchesTyped
<1>2. r.only \in AlertSummaries \cup {NoSummary} /\ r.filter \in AlertFilters /\ r.page \in AlertPages /\ r.id \in Nat
  BY <1>1 DEF AlertRequests
<1>3. list \in Seq(AlertSummaries)
  <2>1. r.only # NoSummary => <<r.only>> \in Seq(AlertSummaries)
    BY <1>2
  <2>2. SummariesOf[r.filter][r.page] \in Seq(AlertSummaries)
    BY <1>2, AlertParameters, Zenon
  <2> QED BY <2>1, <2>2
<1> HIDE DEF list
<1>4. Len(list) \in Nat /\ \A i \in 1 .. Len(list) : list[i] \in AlertSummaries
  BY <1>3, LenProperties, ElementOfSeq
<1>5. \A i \in 1 .. Len(list) : Snapshot(list[i], r) \in AlertRows
  BY <1>2, <1>4, SnapshotTyped DEF AlertsTyped
<1> DEFINE answer == [i \in 1 .. Len(list) |-> Snapshot(list[i], r)]
<1>6. answer \in [1 .. Len(list) -> AlertRows]
  BY <1>5
<1>7. Answer(r) = answer
  BY DEF Answer, list
<1> HIDE DEF answer
<1> QED BY <1>4, <1>6, <1>7, FunctionIsList

\* A refreshed summary is put into the array.
LEMMA SpliceTyped ==
    ASSUME NEW L \in Seq(AlertRows), NEW row \in AlertRows
    PROVE  Splice(L, row) \in Seq(AlertRows)
<1>1. CASE L = <<>>
  BY <1>1 DEF Splice
<1>2. CASE L # <<>>
  <2> DEFINE I == {i \in 1 .. Len(L) : L[i].id = row.id}
             k == IF I = {} THEN Len(L) ELSE Min(I)
  <2>1. Splice(L, row) = [L EXCEPT ![k] = row]
    BY <1>2 DEF Splice
  <2> HIDE DEF k
  <2>2. Len(L) \in Nat /\ L \in [1 .. Len(L) -> AlertRows]
    BY LenProperties, ElementOfSeq
  <2>3. [L EXCEPT ![k] = row] \in [1 .. Len(L) -> AlertRows]
    BY <2>2
  <2> QED BY <2>1, <2>2, <2>3, FunctionIsList
<1> QED BY <1>1, <1>2

\* Tables that are filled again tick nothing.
LEMMA OwnRefilled ==
    ASSUME OwnTicks, NEW S, alertTables' = Refilled(S)
    PROVE  OwnTicks'
<1>1. \A s : EmptyTable \in TableOf(s)
  BY DEF EmptyTable, TableOf
<1> QED BY <1>1 DEF OwnTicks, Refilled

\* A table ticks alerts of its own.
LEMMA OwnChanged ==
    ASSUME OwnTicks, NEW s \in AlertSummaries, NEW t \in TableOf(s), alertTables' = [alertTables EXCEPT ![s] = t]
    PROVE  OwnTicks'
BY DEF OwnTicks

\* The alerts start with the list being asked for.
LEMMA AlertsStart == AlertsInit => AlertsTyped
<1> SUFFICES ASSUME AlertsInit PROVE AlertsTyped
  OBVIOUS
<1>1. /\ alertStatus \in [AlertsIn -> AlertStatuses]
      /\ alertRelated \in [AlertsIn -> AlertSummaries \cup {NoSummary}]
  BY DEF AlertsInit, AlertStatuses
<1>2. AlertsViewTyped
  BY AlertParameters DEF AlertsInit, AlertsViewTyped
<1>3. MaxAlertFetches \in Nat \ {0} /\ 1 \in AlertPages
  BY AlertParameters
<1>4. FetchesTyped
  <2> DEFINE r == [id |-> 1, kind |-> "list", filter |-> listFilter, page |-> 1, only |-> NoSummary, array |-> 0]
  <2>1. alertFetches = {r} /\ nFetches = 1 /\ listFilter \in AlertFilters
    BY DEF AlertsInit
  <2>2. r \in AlertRequests(1) /\ r.kind = "list"
    BY <1>3, <2>1 DEF AlertRequests
  <2> HIDE DEF r
  <2> QED BY <1>3, <2>1, <2>2 DEF FetchesTyped
<1>5. ListsTyped
  <2>1. <<>> \in Seq(AlertRows)
    OBVIOUS
  <2> QED BY <1>3, <2>1 DEF AlertsInit, ListsTyped, AlertLists
<1>6. ModifiesTyped
  BY DEF AlertsInit, ModifiesTyped
<1>7. OwnTicks
  BY DEF AlertsInit, OwnTicks, EmptyTable, TableOf
<1> QED BY <1>1, <1>2, <1>4, <1>5, <1>6, <1>7 DEF AlertsTyped

\* A change of alerts under way keeps its summary and its array, whatever becomes
\* of its panel.
LEMMA Followed ==
    ASSUME NEW M, \A m \in M : ModifyTyped(m), NEW T, NEW S
    PROVE  \A n \in Follow(M, T, S) : ModifyTyped(n)
<1>1. ASSUME NEW m \in M, NEW c PROVE ModifyTyped([m EXCEPT !.panel = c])
  BY <1>1 DEF ModifyTyped
<1>2. ASSUME NEW n \in Follow(M, T, S) PROVE \E m \in M : \E c : n = [m EXCEPT !.panel = c]
  BY <1>2, Zenon DEF Follow
<1> QED BY <1>1, <1>2

\* The summaries that a change of alerts refreshes are its own and some of those
\* that were listed when it began.
LEMMA RefreshesAsked ==
    ASSUME AlertsTyped, NEW m \in modifies, NEW related,
           Fetch(Refreshes({m.summary} \cup (related \cap Listed(arrays[m.array]))))
    PROVE  FetchesTyped'
<1> DEFINE ask(s) == [id |-> nFetches + 1, kind |-> "update", filter |-> listFilter, page |-> listPage,
                      only |-> s, array |-> shownArray]
           S == {m.summary} \cup (related \cap Listed(arrays[m.array]))
           R == Refreshes(S)
           L == arrays[m.array]
           Ids == {L[i].id : i \in 1 .. Len(L)}
<1>1. m.summary \in AlertSummaries /\ L \in Seq(AlertRows)
  BY DEF AlertsTyped, ModifiesTyped, ModifyTyped, ListsTyped, AlertLists
<1>2. m.summary \in S /\ S \subseteq AlertSummaries /\ S \subseteq {m.summary} \cup Ids
  <2>1. ASSUME NEW s \in Listed(L) PROVE s \in AlertSummaries /\ s \in Ids
    BY <1>1, <2>1, ListedRow DEF Listed
  <2> QED BY <1>1, <2>1
<1>3. IsFiniteSet(S)
  <2>1. Len(L) \in Nat
    BY <1>1, LenProperties
  <2>2. IsFiniteSet(1 .. Len(L))
    BY <2>1, PositionCount
  <2> DEFINE f == [i \in 1 .. Len(L) |-> L[i].id]
  <2>3. IsFiniteSet({f[i] : i \in 1 .. Len(L)})
    <3>1. DOMAIN f = 1 .. Len(L)
      OBVIOUS
    <3> HIDE DEF f
    <3> QED BY <2>2, <3>1, ImageFinite
  <2>4. Ids = {f[i] : i \in 1 .. Len(L)}
    OBVIOUS
  <2>5. IsFiniteSet({m.summary} \cup Ids)
    BY <2>3, <2>4, OneElement, FS_Union
  <2> QED BY <1>2, <2>5, FS_Subset
<1> HIDE DEF S, L, Ids
<1>4. R = {ask(s) : s \in S} /\ ask(m.summary) \in R
  BY <1>2 DEF Refreshes
<1>5. IsFiniteSet(R)
  <2> DEFINE f == [s \in S |-> ask(s)]
  <2>1. DOMAIN f = S /\ {f[s] : s \in S} = {ask(s) : s \in S}
    OBVIOUS
  <2>2. IsFiniteSet({f[s] : s \in S})
    <3> HIDE DEF f
    <3> QED BY <1>3, <2>1, ImageFinite
  <2> QED BY <1>4, <2>1, <2>2
<1>6. Cardinality(R) \in Nat \ {0}
  <2>1. R # {} /\ Cardinality(R) \in Nat
    BY <1>4, <1>5, FS_CardinalityType
  <2> QED BY <1>5, <2>1, FS_EmptySet
<1> DEFINE c == Cardinality(R)
<1>7. \A s \in S : ask(s) \in AlertRequests(nFetches + c) /\ ask(s).only \in AlertSummaries
  <2>1. nFetches \in Nat /\ c \in Nat \ {0}
    BY <1>6 DEF AlertsTyped, FetchesTyped
  <2> HIDE DEF c
  <2>2. nFetches + 1 \in 1 .. nFetches + c
    BY <2>1
  <2>3. /\ listFilter \in AlertFilters /\ listPage \in AlertPages /\ shownArray \in 0 .. MaxAlertFetches
        /\ \A s \in S : s \in AlertSummaries
    BY <1>2 DEF AlertsTyped, AlertsViewTyped, ListsTyped
  <2> QED BY <2>2, <2>3 DEF AlertRequests
<1>8. \A r \in R : r \in AlertRequests(nFetches + c) /\ r.only \in AlertSummaries
  <2> HIDE DEF ask, c
  <2> QED BY <1>4, <1>7
<1>9. Fetch(R)
  BY DEF S
<1> HIDE DEF R
<1> QED BY <1>5, <1>8, <1>9, RequestsNumbered DEF AlertsTyped

\* However filters, pages, links, ticks and changes follow each other, and in
\* whatever order they are answered.
LEMMA AlertsStep ==
    ASSUME AlertsTyped, [AlertsNext]_alertVars
    PROVE  AlertsTyped'
<1> DEFINE Status == /\ alertStatus' \in [AlertsIn -> AlertStatuses]
                     /\ alertRelated' \in [AlertsIn -> AlertSummaries \cup {NoSummary}]
           View == AlertsViewTyped'  Fetches == FetchesTyped'  Lists == ListsTyped'
           Modifies == ModifiesTyped'  Ticks == OwnTicks'
<1>1. Status /\ View /\ Fetches /\ Lists /\ Modifies /\ Ticks => AlertsTyped'
  BY DEF AlertsTyped
<1>2. UNCHANGED serverAlerts => Status
  BY DEF AlertsTyped, serverAlerts
<1>3. UNCHANGED <<alertListVars, loadingVars>> => View
  BY DEF AlertsTyped, AlertsViewTyped, alertListVars, loadingVars
<1>4. UNCHANGED <<alertFetches, nFetches>> => Fetches
  BY DEF AlertsTyped, FetchesTyped
<1>5. UNCHANGED shownVars => Lists
  BY DEF AlertsTyped, ListsTyped, shownVars
<1>6. /\ modifies' \subseteq modifies => Modifies
      /\ \A M, T, S : M \subseteq modifies /\ modifies' = Follow(M, T, S) => Modifies
  <2>1. \A m \in modifies : ModifyTyped(m)
    BY DEF AlertsTyped, ModifiesTyped
  <2>2. modifies' \subseteq modifies => Modifies
    BY <2>1 DEF ModifiesTyped
  <2>3. ASSUME NEW M, NEW T, NEW S, M \subseteq modifies, modifies' = Follow(M, T, S)
        PROVE  Modifies
    <3>1. \A n \in Follow(M, T, S) : ModifyTyped(n)
      BY <2>1, <2>3, Followed
    <3> QED BY <2>3, <3>1 DEF ModifiesTyped
  <2> QED BY <2>2, <2>3
<1>7. /\ UNCHANGED alertTables => Ticks
      /\ \A S : alertTables' = Refilled(S) => Ticks
  BY OwnRefilled DEF AlertsTyped, OwnTicks
<1>8. \A r \in alertFetches : alertFetches' = alertFetches \ {r} /\ UNCHANGED nFetches => Fetches
  BY DEF AlertsTyped, FetchesTyped
<1>9. AlertsViewTyped /\ FetchesTyped /\ ListsTyped /\ ModifiesTyped /\ OwnTicks
      /\ alertStatus \in [AlertsIn -> AlertStatuses]
      /\ alertRelated \in [AlertsIn -> AlertSummaries \cup {NoSummary}]
  BY DEF AlertsTyped
<1>10. ASSUME NEW s, InList(s)
       PROVE  FilteredAlerts(s) \subseteq AlertsOf[s]
  BY DEF FilteredAlerts
<1> HIDE DEF Status, View, Fetches, Lists, Modifies, Ticks
<1>11. CASE UNCHANGED alertVars
  BY <1>1, <1>2, <1>3, <1>4, <1>5, <1>6, <1>7, <1>11 DEF alertVars, countVars
<1>12. ASSUME NEW r \in alertFetches, ListAnswered(r)
       PROVE  AlertsTyped'
  <2>1. Answer(r) \in Seq(AlertRows)
    BY AnswerRows
  <2>2. /\ alertFetches' = alertFetches \ {r} /\ UNCHANGED nFetches
        /\ \E T, S : modifies' = Follow(modifies, T, S)
        /\ arrays' = [arrays EXCEPT ![r.id] = Answer(r)] /\ shownArray' = r.id
        /\ alertTables' = Refilled(AlertSummaries) /\ UNCHANGED serverAlerts
        /\ listLoading' = FALSE /\ UNCHANGED <<alertListVars, listError, listThrown>>
    BY <1>12 DEF ListAnswered, countVars
  <2>3. r.id \in 0 .. MaxAlertFetches
    <3>1. r.id \in 1 .. nFetches
      BY <1>9 DEF FetchesTyped, AlertRequests
    <3>2. nFetches \in Nat /\ nFetches <= MaxAlertFetches /\ MaxAlertFetches \in Nat
      BY <1>9, AlertParameters DEF FetchesTyped
    <3> QED BY <3>1, <3>2
  <2>4. Lists
    BY <1>9, <2>1, <2>2, <2>3 DEF ListsTyped, AlertLists, Lists
  <2>5. View
    BY <1>9, <2>2 DEF AlertsViewTyped, alertListVars, View
  <2> QED BY <1>1, <1>2, <1>6, <1>7, <1>8, <2>2, <2>4, <2>5
<1>13. ASSUME NEW r \in alertFetches, UpdateAnswered(r)
       PROVE  AlertsTyped'
  <2>1. /\ r.only \in AlertSummaries /\ r.array \in 0 .. MaxAlertFetches /\ r.id \in Nat
    BY <1>9, <1>13 DEF FetchesTyped, AlertRequests, UpdateAnswered
  <2> DEFINE row == Snapshot(r.only, r)
  <2>2. row \in AlertRows
    BY <1>9, <2>1, SnapshotTyped
  <2>3. arrays[r.array] \in Seq(AlertRows)
    BY <1>9, <2>1 DEF ListsTyped, AlertLists
  <2>4. Splice(arrays[r.array], row) \in Seq(AlertRows)
    BY <2>2, <2>3, SpliceTyped
  <2>5. /\ alertFetches' = alertFetches \ {r} /\ UNCHANGED nFetches
        /\ \E T, S : modifies' = Follow(modifies, T, S)
        /\ arrays' = [arrays EXCEPT ![r.array] = Splice(@, row)] /\ shownArray' = r.array
        /\ UNCHANGED serverAlerts /\ (\E S : alertTables' = Refilled(S))
        /\ listLoading' = FALSE /\ UNCHANGED <<alertListVars, listError, listThrown>>
    BY <1>13 DEF UpdateAnswered, countVars
  <2> HIDE DEF row
  <2>6. Lists
    BY <1>9, <2>1, <2>4, <2>5 DEF ListsTyped, AlertLists, Lists
  <2>7. View
    BY <1>9, <2>5 DEF AlertsViewTyped, alertListVars, View
  <2> QED BY <1>1, <1>2, <1>6, <1>7, <1>8, <2>5, <2>6, <2>7
<1>14. ASSUME NEW r \in alertFetches, FetchRefused(r) \/ FetchThrows(r)
       PROVE  AlertsTyped'
  <2>1. /\ alertFetches' = alertFetches \ {r} /\ UNCHANGED <<nFetches, modifies, alertTables, serverAlerts, shownVars>>
        /\ listLoading' \in {listLoading, FALSE} /\ listError' \in {listError, TRUE}
        /\ listThrown' \in {listThrown, TRUE} /\ UNCHANGED alertListVars
    <3>1. CASE FetchRefused(r)
      BY <3>1 DEF FetchRefused, countVars
    <3>2. CASE FetchThrows(r)
      BY <1>9, <3>2 DEF FetchThrows, countVars, AlertsViewTyped
    <3> QED BY <1>14, <3>1, <3>2
  <2>2. View
    BY <1>9, <2>1 DEF AlertsViewTyped, alertListVars, View
  <2> QED BY <1>1, <1>2, <1>5, <1>6, <1>7, <1>8, <2>1, <2>2
<1>15. ASSUME NEW f \in AlertFilters, UpdateFilter(f) \/ UpdateFilterText(f)
       PROVE  AlertsTyped'
  <2>1. /\ listFilter' = f /\ alertTables' = Refilled(AlertSummaries)
        /\ (\E T, S : modifies' = Follow(modifies, T, S))
        /\ UNCHANGED <<serverAlerts, listOnly, hideDone, shownVars>>
        /\ \E p \in AlertPages : FetchFrom(f, p)
    BY <1>9, <1>15, AlertParameters DEF UpdateFilter, UpdateFilterText, SetTables, AlertsViewTyped
  <2>2. /\ Fetches /\ listPage' \in AlertPages /\ urlPage' \in AlertPages
        /\ listLoading' \in BOOLEAN /\ listError' \in BOOLEAN /\ listThrown' \in BOOLEAN
    BY <2>1, FromAsked DEF Fetches
  <2>3. View
    BY <1>9, <2>1, <2>2 DEF AlertsViewTyped, View
  <2> QED BY <1>1, <1>2, <1>5, <1>6, <1>7, <2>1, <2>2, <2>3
<1>16. CASE ToggleHide
  <2>1. /\ hideDone' = ~hideDone /\ alertTables' = Refilled(AlertSummaries)
        /\ (\E T, S : modifies' = Follow(modifies, T, S))
        /\ UNCHANGED <<serverAlerts, listFilter, listOnly, shownVars>>
        /\ \/ FetchFrom(listFilter, 1)
           \/ listPage' = 1 /\ UNCHANGED <<alertFetches, nFetches, loadingVars, urlPage>>
    BY <1>16 DEF ToggleHide, SetTables
  <2>2. /\ Fetches /\ listPage' \in AlertPages /\ urlPage' \in AlertPages
        /\ listLoading' \in BOOLEAN /\ listError' \in BOOLEAN /\ listThrown' \in BOOLEAN
    <3>1. 1 \in AlertPages
      BY AlertParameters
    <3>2. CASE FetchFrom(listFilter, 1)
      BY <1>9, <3>1, <3>2, FromAsked DEF Fetches, AlertsViewTyped
    <3>3. CASE listPage' = 1 /\ UNCHANGED <<alertFetches, nFetches, loadingVars, urlPage>>
      BY <1>4, <1>9, <3>1, <3>3 DEF AlertsViewTyped, loadingVars
    <3> QED BY <2>1, <3>2, <3>3
  <2>3. View
    BY <1>9, <2>1, <2>2 DEF AlertsViewTyped, View
  <2> QED BY <1>1, <1>2, <1>5, <1>6, <1>7, <2>1, <2>2, <2>3
<1>17. ASSUME NEW p \in AlertPages, NavigatePage(p)
       PROVE  AlertsTyped'
  <2>1. /\ urlPage' = p /\ FetchList(listFilter, p, NoSummary)
        /\ UNCHANGED <<serverAlerts, listFilter, listOnly, hideDone, shownVars, alertTables, modifies>>
    BY <1>17 DEF NavigatePage
  <2>2. /\ Fetches /\ listPage' \in AlertPages
        /\ listLoading' \in BOOLEAN /\ listError' \in BOOLEAN /\ listThrown' \in BOOLEAN
    BY <1>9, <2>1, ListAsked DEF Fetches, AlertsViewTyped
  <2>3. View
    BY <1>9, <2>1, <2>2 DEF AlertsViewTyped, View
  <2> QED BY <1>1, <1>2, <1>5, <1>6, <1>7, <2>1, <2>2, <2>3
<1>18. ASSUME NEW only \in AlertSummaries \cup {NoSummary}, NavigateTo(only)
       PROVE  AlertsTyped'
  <2>1. /\ listOnly' = only /\ hideDone' \in BOOLEAN /\ alertTables' = Refilled(AlertSummaries)
        /\ (\E T, S : modifies' = Follow(modifies, T, S))
        /\ UNCHANGED <<serverAlerts, urlPage, shownVars>>
        /\ listFilter' \in AlertFilters /\ FetchList(listFilter', listPage, only)
    BY <1>9, <1>18 DEF NavigateTo, SetTables, AlertsViewTyped
  <2>2. /\ Fetches /\ listPage' \in AlertPages
        /\ listLoading' \in BOOLEAN /\ listError' \in BOOLEAN /\ listThrown' \in BOOLEAN
    BY <1>9, <2>1, ListAsked DEF Fetches, AlertsViewTyped
  <2>3. View
    BY <1>9, <2>1, <2>2 DEF AlertsViewTyped, View
  <2> QED BY <1>1, <1>2, <1>5, <1>6, <1>7, <2>1, <2>2, <2>3
<1>19. ASSUME NEW s \in AlertSummaries, NEW c \in {"all", "none", "triaged", "untriaged"}, SelectBy(s, c)
       PROVE  AlertsTyped'
  <2>1. /\ UNCHANGED <<serverAlerts, alertListVars, shownVars, loadingVars, alertFetches, nFetches>>
        /\ \E T, S : modifies' = Follow(modifies, T, S)
    BY <1>19, Zenon DEF SelectBy, SetSelected, SetTables, countVars
  <2>2. \E S \in SUBSET AlertsOf[s], all \in BOOLEAN : SetSelected(s, S, all)
    <3> DEFINE S == CASE c = "all" -> FilteredAlerts(s)
                      [] c = "none" -> {}
                      [] c = "triaged" -> {a \in FilteredAlerts(s) : StatusIn(s)[a] # "untriaged"}
                      [] c = "untriaged" -> {a \in FilteredAlerts(s) : StatusIn(s)[a] = "untriaged"}
    <3>1. FilteredAlerts(s) \subseteq AlertsOf[s]
      BY DEF FilteredAlerts
    <3>2. S \subseteq AlertsOf[s]
      BY <3>1
    <3>3. SetSelected(s, S, c # "none" /\ S = FilteredAlerts(s))
      BY <1>19 DEF SelectBy
    <3> HIDE DEF S
    <3> QED BY <3>2, <3>3
  <2>3. PICK S \in SUBSET AlertsOf[s], all \in BOOLEAN :
          alertTables' = [alertTables EXCEPT ![s] = [selected |-> S, ticked |-> S, all |-> all,
                                                 stray |-> FALSE]]
    BY <2>2 DEF SetSelected, SetTables
  <2>4. [selected |-> S, ticked |-> S, all |-> all, stray |-> FALSE] \in TableOf(s)
    BY DEF TableOf
  <2>5. Ticks
    BY <1>9, <2>3, <2>4, OwnChanged DEF Ticks
  <2> QED BY <1>1, <1>2, <1>3, <1>4, <1>5, <1>6, <2>1, <2>5
<1>20. ASSUME NEW s \in AlertSummaries, NEW a \in AlertsOf[s], UpdateCheckbox(s, a)
       PROVE  AlertsTyped'
  <2>1. /\ UNCHANGED <<serverAlerts, alertListVars, shownVars, loadingVars, alertFetches, nFetches>>
        /\ \E T, S : modifies' = Follow(modifies, T, S)
    BY <1>20, Zenon DEF UpdateCheckbox, SetSelected, SetTables, countVars
  <2> DEFINE old == alertTables[s]
             new == IF a \in old.ticked THEN Unticked(old, a) ELSE Ticked(old, a)
  <2>2. alertTables' = [alertTables EXCEPT ![s] = new]
    BY <1>20 DEF UpdateCheckbox, SetTables
  <2>3. old \in TableOf(s)
    BY <1>9 DEF OwnTicks
  <2> HIDE DEF old
  <2>4. new \in TableOf(s)
    BY <2>3 DEF Unticked, Ticked, TableOf
  <2> HIDE DEF new
  <2>5. Ticks
    BY <1>9, <2>2, <2>4, OwnChanged DEF Ticks
  <2> QED BY <1>1, <1>2, <1>3, <1>4, <1>5, <1>6, <2>1, <2>5
<1>21. ASSUME NEW s \in AlertSummaries, NEW status \in AlertStatuses, NEW o \in AlertSummaries \cup {NoSummary},
              Modify(s, status, o)
       PROVE  AlertsTyped'
  <2> DEFINE related == CASE status = "downstream" -> {o}
                          [] status = "untriaged" -> {RelatedIn(s)[a] : a \in alertTables[s].selected}
                          [] OTHER -> {}
             m == [id |-> nModifies', summary |-> s, alerts |-> alertTables[s].selected, status |-> status,
                   other |-> o, array |-> shownArray, panel |-> "mounted", related |-> related]
  <2>1. /\ modifies' = modifies \cup {m}
        /\ UNCHANGED <<serverAlerts, alertListVars, shownVars, loadingVars, alertFetches, alertTables,
                       nFetches>>
    BY <1>21 DEF Modify
  <2> HIDE DEF related
  <2>2. ModifyTyped(m)
    BY <1>9 DEF ListsTyped, ModifyTyped
  <2> HIDE DEF m
  <2>3. Modifies
    BY <1>9, <2>1, <2>2 DEF ModifiesTyped, Modifies
  <2> QED BY <1>1, <1>2, <1>3, <1>4, <1>5, <1>7, <2>1, <2>3
<1>s. ASSUME NEW m \in modifies, NEW done, Changed(m, done)
      PROVE  Status
  <2>1. m.status \in AlertStatuses /\ m.other \in AlertSummaries \cup {NoSummary}
    BY <1>9 DEF ModifiesTyped, ModifyTyped
  <2> QED BY <1>9, <1>s, <2>1 DEF Changed, Status
<1>22. ASSUME NEW m \in modifies, NEW done \in SUBSET m.alerts, ModifyAnswered(m, done)
       PROVE  AlertsTyped'
  <2> DEFINE shown == {m.summary} \cup (m.related \cap Listed(arrays[m.array]))
  <2>1. /\ Changed(m, done) /\ UNCHANGED <<alertListVars, shownVars, listThrown>>
        /\ listLoading' \in {listLoading, FALSE}
        /\ \/ /\ listError' = TRUE /\ modifies' = modifies \ {m}
              /\ UNCHANGED <<alertFetches, nFetches, alertTables>>
           \/ /\ Fetch(Refreshes(shown)) /\ alertTables' = ClearTicked(m) /\ listError' = FALSE
              /\ \E T, S : modifies' = Follow(modifies \ {m}, T, S)
    BY <1>22, Zenon DEF ModifyAnswered
  <2>2. Status
    BY <1>s, <2>1
  <2>3. Modifies
    <3>1. modifies \ {m} \subseteq modifies
      OBVIOUS
    <3> QED BY <1>6, <2>1, <3>1
  <2>4. listError' \in BOOLEAN /\ listLoading' \in BOOLEAN /\ listThrown' \in BOOLEAN
    BY <1>9, <2>1 DEF AlertsViewTyped
  <2>5. View
    BY <1>9, <2>1, <2>4 DEF AlertsViewTyped, alertListVars, View
  <2>6. Fetch(Refreshes(shown)) => Fetches
    BY RefreshesAsked DEF Fetches
  <2>7. ASSUME alertTables' = ClearTicked(m) PROVE Ticks
    <3> DEFINE left == alertTables[m.summary].all /\ m.panel = "some"
               t == [EmptyTable EXCEPT !.all = left, !.stray = left]
    <3>1. m.summary \in AlertSummaries
      BY <1>9 DEF ModifiesTyped, ModifyTyped
    <3>2. left \in BOOLEAN
      BY <1>9, <3>1 DEF OwnTicks, TableOf
    <3>3. UNCHANGED alertTables \/ alertTables' = [alertTables EXCEPT ![m.summary] = t]
      BY <2>7 DEF ClearTicked
    <3> HIDE DEF left
    <3>4. t \in TableOf(m.summary)
      BY <3>2 DEF EmptyTable, TableOf
    <3> HIDE DEF t
    <3> QED BY <1>7, <1>9, <3>1, <3>3, <3>4, OwnChanged DEF Ticks
  <2>8. Fetches /\ Ticks
    BY <1>4, <1>7, <2>1, <2>6, <2>7
  <2> QED BY <1>1, <1>5, <2>1, <2>2, <2>3, <2>5, <2>8
<1>23. ASSUME NEW m \in modifies, NEW done \in SUBSET m.alerts, ModifyThrows(m, done)
       PROVE  AlertsTyped'
  <2>1. /\ Changed(m, done) /\ modifies' = modifies \ {m}
        /\ UNCHANGED <<alertListVars, shownVars, loadingVars, alertFetches, alertTables, nFetches>>
    BY <1>23 DEF ModifyThrows, countVars
  <2> QED BY <1>1, <1>3, <1>4, <1>5, <1>6, <1>7, <1>s, <2>1
<1> QED
  BY <1>11, <1>12, <1>13, <1>14, <1>15, <1>16, <1>17, <1>18, <1>19, <1>20, <1>21, <1>22, <1>23, Zenon
  DEF AlertsNext, Fetching

\* The types of the alerts.
LEMMA AlertsTypes == AlertsSpec => []AlertsTypeOK
<1>1. ASSUME AlertsTyped
      PROVE  AlertsTypeOK
  <2>1. summaryList \in Seq(AlertRows)
    BY <1>1 DEF AlertsTyped, summaryList, ListsTyped, AlertLists
  <2>2. \A i \in 1 .. Len(summaryList) : summaryList[i] \in AlertRows
    BY <2>1, LenProperties, ElementOfSeq
  <2>3. \A i \in 1 .. Len(summaryList) : summaryList[i].id \in AlertSummaries
    BY <2>2 DEF AlertRows
  <2> QED BY <1>1, <2>3 DEF AlertsTyped, AlertsViewTyped, OwnTicks, TableOf, AlertsTypeOK
<1> QED BY <1>1, AlertsStart, AlertsStep, PTL DEF AlertsSpec

-----------------------------------------------------------------------------
(* The header of a summary.                                                *)

\* A summary on the server and in its header; the dialogs and the assignee.
SummaryRecord == [status : SummaryStatuses, bug : Texts, notes : BOOLEAN, assignee : Sheriffs \cup {Nobody}]
DialogInput == [text : Texts, validated : BOOLEAN, invalid : BOOLEAN, due : BOOLEAN]
ChangeTyped(c) ==
    \/ c.field = "status" /\ c.value \in SummaryStatuses
    \/ c.field = "bug" /\ c.value \in Texts
    \/ c.field = "notes" /\ c.value \in BOOLEAN
SheetTyped ==
    /\ sumServer \in SummaryRecord /\ sumShown \in SummaryRecord
    /\ \A c \in changes : c.id \in 1 .. nChanges /\ ChangeTyped(c)
    /\ nChanges \in 0 .. MaxMenuChanges
DialogsTyped ==
    /\ dialogs \subseteq {"link", "file", "notes"} /\ notesDraft \in BOOLEAN
    /\ linkInput \in DialogInput /\ fileInput \in DialogInput
AssigneeTyped ==
    /\ assignee \in [shown : Sheriffs \cup {Nobody}, editing : BOOLEAN, draft : Sheriffs \cup {Nobody}]
    /\ \A r \in assigns : r.id \in 1 .. nChanges /\ r.name \in Sheriffs \cup {Nobody}
MenuTyped == SheetTyped /\ DialogsTyped /\ AssigneeTyped

\* The input may be empty.
LEMMA SomeTexts == "" \in Texts
BY Zenon DEF Texts

\* A change is asked for.
LEMMA ChangeAsked ==
    ASSUME MenuTyped, NEW field, NEW value, ChangeAlertSummary(field, value),
           ChangeTyped([id |-> nChanges + 1, field |-> field, value |-> value])
    PROVE  SheetTyped' /\ (UNCHANGED assignVars => AssigneeTyped')
<1> DEFINE new == [id |-> nChanges + 1, field |-> field, value |-> value]
<1>1. /\ nChanges' = nChanges + 1 /\ nChanges' \in 0 .. MaxMenuChanges
      /\ changes' = changes \cup {new} /\ UNCHANGED <<sumServer, sumShown>>
  BY MenuBounds DEF MenuTyped, SheetTyped, ChangeAlertSummary
<1>2. new.id \in 1 .. nChanges'
  <2>1. nChanges \in Nat /\ nChanges + 1 \in 1 .. nChanges'
    BY <1>1 DEF MenuTyped, SheetTyped
  <2> QED BY <2>1
<1>3. ChangeTyped(new)
  OBVIOUS
<1> HIDE DEF new
<1>4. \A n \in 1 .. nChanges : n \in 1 .. nChanges'
  BY <1>1 DEF MenuTyped, SheetTyped
<1>5. \A c \in changes' : c.id \in 1 .. nChanges' /\ ChangeTyped(c)
  BY <1>1, <1>2, <1>3, <1>4 DEF MenuTyped, SheetTyped
<1>6. \A c : ChangeTyped(c)' <=> ChangeTyped(c)
  BY DEF ChangeTyped
<1>7. SheetTyped'
  BY <1>1, <1>5 DEF MenuTyped, SheetTyped
<1>8. UNCHANGED assignVars => AssigneeTyped'
  BY <1>4 DEF MenuTyped, AssigneeTyped, assignVars
<1> QED BY <1>7, <1>8

\* Whatever the sheriff does in the header and in its dialogs, and whatever is
\* answered to it.
LEMMA MenuStep ==
    ASSUME MenuTyped, [MenuNext]_menuVars
    PROVE  MenuTyped'
<1> USE DEF MenuTyped
<1> DEFINE Types == MenuTyped'
<1>0. /\ UNCHANGED sheetVars => SheetTyped'
      /\ UNCHANGED menuModalVars => DialogsTyped'
      /\ UNCHANGED <<assignVars, nChanges>> => AssigneeTyped'
  BY DEF sheetVars, menuModalVars, assignVars, SheetTyped, DialogsTyped, AssigneeTyped, ChangeTyped
<1>1. CASE UNCHANGED menuVars
  BY <1>0, <1>1 DEF menuVars, sheetVars
<1>2. ASSUME NEW to \in SummaryStatuses, SetStatus(to) \/ ChangedElsewhere(to)
      PROVE  Types
  <2>1. CASE SetStatus(to)
    BY <1>0, <2>1, ChangeAsked DEF SetStatus, ChangeTyped
  <2>2. CASE ChangedElsewhere(to)
    BY <1>0, <2>2 DEF ChangedElsewhere, SheetTyped, SummaryRecord
  <2> QED BY <1>2, <2>1, <2>2
<1>3. CASE UnlinkBug
  <2>1. ChangeTyped([id |-> nChanges + 1, field |-> "bug", value |-> ""])
    BY SomeTexts, Zenon DEF ChangeTyped
  <2>2. ChangeAlertSummary("bug", "") /\ UNCHANGED <<menuModalVars, assignVars>>
    BY <1>3, Zenon DEF UnlinkBug
  <2>3. SheetTyped' /\ AssigneeTyped'
    BY <2>1, <2>2, ChangeAsked, Zenon
  <2> QED BY <1>0, <2>2, <2>3
<1>4. ASSUME NEW c \in changes, ChangeSaved(c) \/ ChangeRefused(c)
      PROVE  Types
  <2>1. ChangeTyped(c) /\ changes' \subseteq changes /\ UNCHANGED <<nChanges, menuModalVars, assignVars>>
    BY <1>4 DEF ChangeSaved, ChangeRefused, SheetTyped
  <2>2. sumServer' \in SummaryRecord /\ sumShown' \in SummaryRecord
    <3>1. CASE ChangeSaved(c)
      BY <2>1, <3>1 DEF ChangeSaved, SheetTyped, SummaryRecord, ChangeTyped
    <3>2. CASE ChangeRefused(c)
      BY <3>2 DEF ChangeRefused, SheetTyped
    <3> QED BY <1>4, <3>1, <3>2
  <2>3. SheetTyped'
    BY <2>1, <2>2 DEF SheetTyped, ChangeTyped
  <2> QED BY <1>0, <2>1, <2>3
<1>5. ASSUME NEW d \in {"link", "file", "notes"}, OpenMenuDialog(d) \/ CloseMenuDialog(d)
      PROVE  Types
  <2>1. dialogs' \subseteq {"link", "file", "notes"}
    BY <1>5 DEF OpenMenuDialog, CloseMenuDialog, ToggleDialog, DialogsTyped
  <2>2. UNCHANGED <<sheetVars, linkInput, fileInput, notesDraft, assignVars>>
    BY <1>5 DEF OpenMenuDialog, CloseMenuDialog
  <2> QED BY <1>0, <2>1, <2>2 DEF DialogsTyped, sheetVars
<1>6. ASSUME NEW t \in Texts, TypeLink(t) \/ TypeFile(t)
      PROVE  Types
  <2>1. /\ linkInput' \in DialogInput /\ fileInput' \in DialogInput
        /\ UNCHANGED <<sheetVars, dialogs, notesDraft, assignVars>>
    BY <1>6 DEF TypeLink, TypeFile, Typed, DialogsTyped, DialogInput
  <2> QED BY <1>0, <2>1 DEF DialogsTyped, sheetVars
<1>7. CASE LinkValidated
  <2>1. UNCHANGED <<sheetVars, dialogs, fileInput, notesDraft, assignVars>>
    BY <1>7 DEF LinkValidated
  <2>2. ASSUME NEW b \in BOOLEAN
        PROVE  /\ [linkInput EXCEPT !.due = FALSE] \in DialogInput
               /\ [linkInput EXCEPT !.due = FALSE, !.validated = TRUE, !.invalid = b] \in DialogInput
    BY DEF DialogsTyped, DialogInput
  <2>3. linkInput' \in DialogInput
    BY <1>7, <2>2, Zenon DEF LinkValidated, IsNumber
  <2> QED BY <1>0, <2>1, <2>3 DEF DialogsTyped, sheetVars
<1>8. CASE FileValidated
  <2>1. UNCHANGED <<sheetVars, dialogs, linkInput, notesDraft, assignVars>>
    BY <1>8 DEF FileValidated
  <2>2. ASSUME NEW v \in BOOLEAN, NEW b \in BOOLEAN
        PROVE  [fileInput EXCEPT !.due = FALSE, !.validated = v, !.invalid = b] \in DialogInput
    BY DEF DialogsTyped, DialogInput
  <2>3. fileInput' \in DialogInput
    BY <1>8, <2>2, Zenon DEF FileValidated, IsNumber
  <2> QED BY <1>0, <2>1, <2>3 DEF DialogsTyped, sheetVars
<1>9. CASE AssignBug
  <2>1. /\ ChangeAlertSummary("bug", linkInput.text) /\ linkInput.text \in Texts
        /\ dialogs' \subseteq {"link", "file", "notes"}
        /\ UNCHANGED <<linkInput, fileInput, notesDraft, assignVars>>
    <3>1. linkInput.text \in Texts
      BY DEF DialogsTyped, DialogInput
    <3> QED BY <1>9, <3>1, Zenon DEF AssignBug, ToggleDialog, DialogsTyped
  <2>2. ChangeTyped([id |-> nChanges + 1, field |-> "bug", value |-> linkInput.text])
    BY <2>1 DEF ChangeTyped
  <2> QED BY <2>1, <2>2, ChangeAsked DEF DialogsTyped
<1>10. CASE EditNotes
  BY <1>0, <1>10 DEF EditNotes, DialogsTyped, sheetVars
<1>11. CASE SaveNotes
  <2>1. /\ ChangeAlertSummary("notes", notesDraft) /\ notesDraft \in BOOLEAN
        /\ dialogs' \subseteq {"link", "file", "notes"}
        /\ UNCHANGED <<linkInput, fileInput, notesDraft, assignVars>>
    BY <1>11 DEF SaveNotes, ToggleDialog, DialogsTyped
  <2>2. ChangeTyped([id |-> nChanges + 1, field |-> "notes", value |-> notesDraft])
    BY <2>1 DEF ChangeTyped
  <2> QED BY <2>1, <2>2, ChangeAsked DEF DialogsTyped
<1>12. CASE FileRegression \/ \E f \in forms : NoTemplate(f)
  <2>1. UNCHANGED <<sheetVars, menuModalVars, assignVars>>
    BY <1>12 DEF FileRegression, NoTemplate
  <2> QED BY <1>0, <2>1 DEF sheetVars
<1>13. ASSUME NEW f \in forms, FormOpened(f)
       PROVE  Types
  <2>1. /\ dialogs' \subseteq {"link", "file", "notes"}
        /\ UNCHANGED <<sheetVars, linkInput, notesDraft, assignVars>>
    BY <1>13 DEF FormOpened, ToggleDialog, DialogsTyped
  <2>2. ASSUME NEW t \in Texts PROVE [fileInput EXCEPT !.text = t] \in DialogInput
    BY DEF DialogsTyped, DialogInput
  <2>3. fileInput' \in DialogInput
    BY <1>13, <2>2, SomeTexts, Zenon DEF FormOpened
  <2> QED BY <1>0, <2>1, <2>3 DEF DialogsTyped, sheetVars
<1>14. ASSUME \/ GoToEditMode \/ EscapeKey
              \/ \E n \in Sheriffs : PrefillWithLoggedInUsername(n) \/ EditUsername(n)
       PROVE  Types
  <2>1. UNCHANGED <<sheetVars, menuModalVars, assigns>>
    BY <1>14 DEF GoToEditMode, EscapeKey, PrefillWithLoggedInUsername, EditUsername, Edit
  <2>2. assignee' \in [shown : Sheriffs \cup {Nobody}, editing : BOOLEAN, draft : Sheriffs \cup {Nobody}]
    BY <1>14 DEF GoToEditMode, EscapeKey, PrefillWithLoggedInUsername, EditUsername, Edit, AssigneeTyped
  <2> QED BY <1>0, <2>1, <2>2 DEF AssigneeTyped, sheetVars
<1>15. CASE PressedEnter
  <2>1. /\ nChanges' = nChanges + 1 /\ nChanges' \in 0 .. MaxMenuChanges
        /\ assigns' = assigns \cup {[id |-> nChanges', name |-> assignee.draft]}
        /\ UNCHANGED <<assignee, sumServer, sumShown, changes, menuModalVars>>
    BY <1>15, MenuBounds DEF PressedEnter, SheetTyped
  <2>2. \A n \in 1 .. nChanges : n \in 1 .. nChanges'
    BY <2>1 DEF SheetTyped
  <2>3. nChanges' \in 1 .. nChanges'
    BY <2>1 DEF SheetTyped
  <2>4. assignee.draft \in Sheriffs \cup {Nobody}
    BY DEF AssigneeTyped
  <2>5. AssigneeTyped'
    BY <2>1, <2>2, <2>3, <2>4 DEF AssigneeTyped
  <2>6. SheetTyped'
    BY <2>1, <2>2 DEF SheetTyped, ChangeTyped
  <2> QED BY <1>0, <2>1, <2>5, <2>6
<1>16. ASSUME NEW r \in assigns, AssigneeSaved(r) \/ AssigneeRefused(r)
       PROVE  Types
  <2>1. /\ assigns' \subseteq assigns /\ UNCHANGED <<changes, nChanges, menuModalVars>>
        /\ r.name \in Sheriffs \cup {Nobody}
    BY <1>16 DEF AssigneeSaved, AssigneeRefused, AssigneeTyped, sheetVars
  <2>2. sumServer' \in SummaryRecord /\ sumShown' \in SummaryRecord
    BY <1>16, <2>1 DEF AssigneeSaved, AssigneeRefused, SheetTyped, SummaryRecord, sheetVars
  <2>3. assignee' \in [shown : Sheriffs \cup {Nobody}, editing : BOOLEAN, draft : Sheriffs \cup {Nobody}]
    BY <1>16, <2>1 DEF AssigneeSaved, AssigneeRefused, AssigneeTyped
  <2>4. SheetTyped'
    BY <2>1, <2>2 DEF SheetTyped, ChangeTyped
  <2> QED BY <1>0, <2>1, <2>3, <2>4 DEF AssigneeTyped
<1> QED BY <1>1, <1>2, <1>3, <1>4, <1>5, <1>6, <1>7, <1>8, <1>9, <1>10, <1>11, <1>12, <1>13, <1>14,
           <1>15, <1>16 DEF MenuNext

\* The types of the header of a summary.
LEMMA MenuTypes == MenuSpec => []MenuTypeOK
<1>1. MenuInit => MenuTyped
  <2> SUFFICES ASSUME MenuInit PROVE MenuTyped
    OBVIOUS
  <2>1. NewInput \in DialogInput
    BY SomeTexts, Zenon DEF NewInput, DialogInput
  <2>2. sumServer \in SummaryRecord
    BY SomeTexts, Zenon DEF MenuInit, SummaryRecord, SummaryStatuses
  <2>3. /\ sumShown = sumServer /\ changes = {} /\ dialogs = {} /\ linkInput = NewInput
        /\ fileInput = NewInput /\ notesDraft = FALSE /\ assigns = {} /\ nChanges = 0
        /\ assignee = [shown |-> Nobody, editing |-> FALSE, draft |-> Nobody]
    BY Zenon DEF MenuInit
  <2>4. 0 \in 0 .. MaxMenuChanges
    BY MenuBounds
  <2>5. SheetTyped
    BY <2>2, <2>3, <2>4 DEF SheetTyped
  <2>6. DialogsTyped
    BY <2>1, <2>3 DEF DialogsTyped
  <2>7. AssigneeTyped
    BY <2>3 DEF AssigneeTyped
  <2> QED BY <2>5, <2>6, <2>7 DEF MenuTyped
<1>2. MenuTyped /\ [MenuNext]_menuVars => MenuTyped'
  BY MenuStep
<1>3. MenuTyped => MenuTypeOK
  <2> SUFFICES ASSUME MenuTyped PROVE MenuTypeOK
    OBVIOUS
  <2>1. \A n \in 1 .. nChanges : n \in 1 .. MaxMenuChanges
    BY MenuBounds DEF MenuTyped, SheetTyped
  <2>2. /\ sumServer.status \in SummaryStatuses /\ sumShown.status \in SummaryStatuses
        /\ sumServer.bug \in Texts /\ sumShown.bug \in Texts
        /\ linkInput.text \in Texts /\ fileInput.text \in Texts
    BY DEF MenuTyped, SheetTyped, DialogsTyped, SummaryRecord, DialogInput
  <2> QED BY <2>1, <2>2 DEF MenuTyped, SheetTyped, DialogsTyped, AssigneeTyped, MenuTypeOK
<1> QED BY <1>1, <1>2, <1>3, PTL DEF MenuSpec

-----------------------------------------------------------------------------
(* The graphs.                                                             *)

\* The colours of series, and what the arrays of the page hold.
PlotColour == 0 .. NumColours
PlotItem == [sig : Series, colour : PlotColour, shown : BOOLEAN]

\* What updateSelectedTest works on, the objects of its in the arrays of it.
SeriesState(its) ==
    {st \in [items : Seq(PlotItem), colours : Seq(PlotColour), symbols : Nat, refused : BOOLEAN] :
        /\ Len(st.items) = Len(its)
        /\ \A i \in DOMAIN its : st.items[i].sig = its[i].sig
        /\ \A i \in DOMAIN its : ~st.items[i].shown => st.items[i].colour = NoColour}

\* A series that is ticked or unticked leaves what is hidden without a colour.
LEMMA Toggled ==
    ASSUME NEW its \in Seq(PlotItem), NEW st \in SeriesState(its), NEW s \in Series,
           NEW i \in DOMAIN its
    PROVE  ToggleSeries(s, st, i) \in SeriesState(its)
<1> DEFINE SR == [items : Seq(PlotItem), colours : Seq(PlotColour), symbols : Nat, refused : BOOLEAN]
<1>1. st \in SR /\ i \in DOMAIN st.items /\ st.items[i] \in PlotItem
      /\ Len(st.items) = Len(its)
      /\ DOMAIN st.items = DOMAIN its
  BY DEF SeriesState
<1>a. NoColour \in PlotColour
  BY GraphBounds DEF PlotColour, NoColour
<1>2. CASE st.items[i].sig = s /\ st.items[i].shown
  <2> DEFINE it == [st.items[i] EXCEPT !.shown = FALSE, !.colour = NoColour]
             w == [items |-> [st.items EXCEPT ![i] = it], colours |-> Append(st.colours, st.items[i].colour),
                   symbols |-> st.symbols + 1, refused |-> st.refused]
  <2>1. ToggleSeries(s, st, i) = Hidden(st, i)
    BY <1>2 DEF ToggleSeries
  <2>2. Hidden(st, i) = w
    <3> DEFINE h == Hidden(st, i)
    <3>1. h.items = [st.items EXCEPT ![i] = it]
      BY <1>1 DEF Hidden, PlotItem
    <3>2. h.colours = w.colours /\ h.symbols = w.symbols /\ h.refused = st.refused
      BY <1>1 DEF Hidden
    <3>3. DOMAIN h = DOMAIN st /\ DOMAIN st = DOMAIN w
      BY <1>1 DEF Hidden
    <3>4. DOMAIN w = {"items", "colours", "symbols", "refused"}
      OBVIOUS
    <3>6. h.items = w.items /\ h.colours = w.colours /\ h.symbols = w.symbols /\ h.refused = w.refused
      <4> HIDE DEF h, it
      <4> QED BY <3>1, <3>2
    <3>7. \A f \in DOMAIN w : h[f] = w[f]
      <4> HIDE DEF h, w
      <4> QED BY <3>4, <3>6
    <3>5. h = [f \in DOMAIN h |-> h[f]] /\ w = [f \in DOMAIN w |-> w[f]]
      BY DEF Hidden
    <3> QED BY <3>3, <3>7, <3>5
  <2>3. it \in PlotItem /\ it.sig = st.items[i].sig /\ it.colour = NoColour
    BY <1>1, <1>a DEF PlotItem
  <2>4. w.items \in Seq(PlotItem) /\ Len(w.items) = Len(its)
    BY <1>1, <2>3, ExceptSeq
  <2>5. Append(st.colours, st.items[i].colour) \in Seq(PlotColour)
    BY <1>1 DEF PlotItem
  <2>6. w \in SR
    BY <1>1, <2>4, <2>5 DEF SR
  <2>7. \A j \in DOMAIN its : /\ w.items[j].sig = its[j].sig
                              /\ ~w.items[j].shown => w.items[j].colour = NoColour
    BY <1>1, <2>3 DEF SeriesState
  <2> QED BY <2>1, <2>2, <2>6, <2>4, <2>7 DEF SeriesState
<1>3. CASE st.items[i].sig = s /\ ~st.items[i].shown /\ st.colours # <<>> /\ st.symbols > 0
  <2> DEFINE it == [st.items[i] EXCEPT !.shown = TRUE, !.colour = Last(st.colours)]
             w == [items |-> [st.items EXCEPT ![i] = it], colours |-> Front(st.colours),
                   symbols |-> st.symbols - 1, refused |-> st.refused]
  <2>1. ToggleSeries(s, st, i) = ShownWith(st, i)
    BY <1>3 DEF ToggleSeries
  <2>2. ShownWith(st, i) = w
    <3> DEFINE h == ShownWith(st, i)
    <3>1. h.items = [st.items EXCEPT ![i] = it]
      BY <1>1 DEF ShownWith, PlotItem
    <3>2. h.colours = w.colours /\ h.symbols = w.symbols /\ h.refused = st.refused
      BY <1>1 DEF ShownWith
    <3>3. DOMAIN h = DOMAIN st /\ DOMAIN st = DOMAIN w
      BY <1>1 DEF ShownWith
    <3>4. DOMAIN w = {"items", "colours", "symbols", "refused"}
      OBVIOUS
    <3>6. h.items = w.items /\ h.colours = w.colours /\ h.symbols = w.symbols /\ h.refused = w.refused
      <4> HIDE DEF h, it
      <4> QED BY <3>1, <3>2
    <3>7. \A f \in DOMAIN w : h[f] = w[f]
      <4> HIDE DEF h, w
      <4> QED BY <3>4, <3>6
    <3>5. h = [f \in DOMAIN h |-> h[f]] /\ w = [f \in DOMAIN w |-> w[f]]
      BY DEF ShownWith
    <3> QED BY <3>3, <3>7, <3>5
  <2>8. Last(st.colours) \in PlotColour /\ Front(st.colours) \in Seq(PlotColour)
    BY <1>1, <1>3 DEF Last, Front
  <2>3. it \in PlotItem /\ it.sig = st.items[i].sig /\ it.shown
    BY <1>1, <2>8 DEF PlotItem
  <2>4. w.items \in Seq(PlotItem) /\ Len(w.items) = Len(its)
    BY <1>1, <2>3, ExceptSeq
  <2>6. w \in SR
    BY <1>1, <1>3, <2>4, <2>8
  <2>7. \A j \in DOMAIN its : /\ w.items[j].sig = its[j].sig
                              /\ ~w.items[j].shown => w.items[j].colour = NoColour
    BY <1>1, <2>3 DEF SeriesState
  <2> QED BY <2>1, <2>2, <2>6, <2>4, <2>7 DEF SeriesState
<1>4. CASE st.items[i].sig # s
  BY <1>4 DEF ToggleSeries
<1>5. CASE st.items[i].sig = s /\ ~st.items[i].shown /\ ~(st.colours # <<>> /\ st.symbols > 0)
  <2> DEFINE w == [st EXCEPT !.refused = TRUE]
  <2>1. ToggleSeries(s, st, i) = w
    BY <1>5 DEF ToggleSeries
  <2>2. w \in SR /\ w.items = st.items
    BY <1>1
  <2> QED BY <2>1, <2>2 DEF SeriesState
<1> QED BY <1>2, <1>3, <1>4, <1>5

\* The fold.
LEMMA AllToggled ==
    ASSUME NEW its \in Seq(PlotItem), NEW list \in Seq(DOMAIN its), NEW s \in Series,
           NEW base \in SeriesState(its)
    PROVE  FoldLeft(LAMBDA acc, i : ToggleSeries(s, acc, i), base, list) \in SeriesState(its)
<1> DEFINE n == Len(list)
           A == SeriesState(its)
           op == [p \in A \X (1..n) |-> ToggleSeries(s, p[1], list[p[2]])]
           Rec(g) == g = [S \in SUBSET (1..n) |->
                            IF S = {} THEN base
                            ELSE ToggleSeries(s, g[S \ {Max(S)}], list[Max(S)])]
           iter == CHOOSE g : Rec(g)
<1>1. n \in Nat /\ DOMAIN list = 1..n /\ \A k \in 1..n : list[k] \in DOMAIN its
  OBVIOUS
<1>2. op \in [A \X (1..n) -> A]
  BY <1>1, Toggled
<1>3. PICK g \in [SUBSET (1..n) -> A] : Folds(g, n, base, op)
  <2> HIDE DEF op, A, n
  <2>1. base \in A
    BY DEF A
  <2> QED BY <1>1, <1>2, <2>1, PositionRecursion
<1>4. ASSUME NEW S \in SUBSET (1..n), S # {}
      PROVE  Max(S) \in 1..n /\ S \ {Max(S)} \in SUBSET (1..n)
  BY <1>1, <1>4, LastPosition
<1>5. Rec(g)
  <2>1. ASSUME NEW S \in SUBSET (1..n), S # {}
        PROVE  g[S] = ToggleSeries(s, g[S \ {Max(S)}], list[Max(S)])
    <3>1. g[S \ {Max(S)}] \in A
      BY <1>3, <1>4, <2>1
    <3> QED BY <1>3, <1>4, <2>1, <3>1 DEF Folds
  <2> QED BY <1>3, <2>1 DEF Folds
<1>6. Rec(iter)
  BY <1>5
<1>7. FoldLeft(LAMBDA acc, i : ToggleSeries(s, acc, i), base, list) = iter[1..n]
  BY <1>1 DEF FoldLeft, MapThenFoldSet
<1>8. \A S \in SUBSET (1..n) : S # {} =>
         iter[S] = ToggleSeries(s, iter[S \ {Max(S)}], list[Max(S)])
  <2> HIDE DEF iter
  <2> QED BY <1>6
<1>9. iter[{}] = base
  <2> HIDE DEF iter
  <2> QED BY <1>6
<1>10. {S \in SUBSET (1..n) : iter[S] \in A} = SUBSET (1..n)
  <2> DEFINE H == {S \in SUBSET (1..n) : iter[S] \in A}
  <2> HIDE DEF iter
  <2>1. H \in SUBSET SUBSET (1..n) /\ {} \in H
    BY <1>9
  <2>2. ASSUME NEW S \in SUBSET (1..n), S # {}, S \ {Max(S)} \in H
        PROVE  S \in H
    <3>1. list[Max(S)] \in DOMAIN its
      BY <1>1, <1>4, <2>2
    <3>2. iter[S \ {Max(S)}] \in SeriesState(its)
      BY <2>2
    <3>3. ToggleSeries(s, iter[S \ {Max(S)}], list[Max(S)]) \in SeriesState(its)
      BY <3>1, <3>2, Toggled
    <3> QED BY <2>2, <3>3, <1>8
  <2>3. H = SUBSET (1..n)
    <3> HIDE DEF H, n
    <3> QED BY <1>1, <2>1, <2>2, PositionInduction
  <2> QED BY <2>3
<1> QED BY <1>7, <1>10, Zenon

DataRequest(its) ==
    [id : Nat, before : Seq(DOMAIN its), added : BOOLEAN, init : BOOLEAN, sigs : Seq(Series),
     answered : BOOLEAN, colours : Seq(PlotColour), symbols : Nat]
AlertRequest(its) == {u \in [sig : Series, before : Seq(DOMAIN its)] : u.sig \in SigsOf(its, u.before)}
PickedSeries == Series \X Nat
PlotTyped ==
    /\ items \in Seq(PlotItem) /\ HiddenHasNoColour
    /\ plotted \in Seq(DOMAIN items)
    /\ palette \in Seq(PlotColour) /\ symbolsLeft \in Nat
LoadsTyped == graphLoads \subseteq DataRequest(items) /\ nGraphLoads \in Nat
LookTyped == graphUrl \subseteq Series /\ point \in Series \cup {NoPoint} /\ range \in {1, 2}
ChooserTyped ==
    /\ chooser \in [open : BOOLEAN, offered : SUBSET PickedSeries, picked : Seq(PickedSeries), inner : {1, 2}]
    /\ testLists \subseteq [id : Nat, known : SUBSET Series] /\ nLists \in Nat
CreatedTyped == newAlerts \subseteq AlertRequest(items)
GraphTyped == PlotTyped /\ LoadsTyped /\ LookTyped /\ ChooserTyped /\ CreatedTyped

\* The signatures of objects.
LEMMA SigsInSeries ==
    ASSUME NEW its \in Seq(PlotItem), NEW list \in Seq(DOMAIN its)
    PROVE  SigsOf(its, list) \subseteq Series
<1>1. ASSUME NEW k \in DOMAIN list PROVE its[list[k]].sig \in Series
  <2>1. list[k] \in DOMAIN its
    BY LenProperties, ElementOfSeq
  <2>2. its[list[k]] \in PlotItem
    BY <2>1, LenProperties, ElementOfSeq
  <2> QED BY <2>2 DEF PlotItem
<1> QED BY <1>1 DEF SigsOf

\* Objects are only added, and keep their signatures.
LEMMA Grown ==
    ASSUME NEW its \in Seq(PlotItem), NEW more \in Seq(PlotItem), Len(its) <= Len(more),
           \A i \in DOMAIN its : more[i].sig = its[i].sig
    PROVE  /\ Seq(DOMAIN its) \subseteq Seq(DOMAIN more)
           /\ DataRequest(its) \subseteq DataRequest(more)
           /\ AlertRequest(its) \subseteq AlertRequest(more)
<1>1. DOMAIN its \subseteq DOMAIN more
  OBVIOUS
<1>2. Seq(DOMAIN its) \subseteq Seq(DOMAIN more)
  BY <1>1, SeqMonotonic
<1>3. ASSUME NEW list \in Seq(DOMAIN its)
      PROVE  SigsOf(its, list) = SigsOf(more, list)
  <2>1. \A k \in DOMAIN list : more[list[k]].sig = its[list[k]].sig
    BY LenProperties, ElementOfSeq
  <2> QED BY <2>1 DEF SigsOf
<1> QED BY <1>2, <1>3 DEF DataRequest, AlertRequest

\* The parameters of the URL are the signatures of what is plotted.
LEMMA UrlTyped ==
    ASSUME items' \in Seq(PlotItem), plotted' \in Seq(DOMAIN items'), ChangeParams
    PROVE  graphUrl' \subseteq Series
<1>1. SigsOf(items', plotted') \subseteq Series
  BY SigsInSeries
<1> QED BY <1>1 DEF ChangeParams

\* A request remembers what is plotted, in the order of the data it asks for.
LEMMA LoadTyped ==
    ASSUME GraphTyped, NEW added \in Seq(Series), NEW init \in BOOLEAN, GetTestData(added, init),
           UNCHANGED items
    PROVE  LoadsTyped'
<1> DEFINE n == nGraphLoads + 1
           sigs == IF added # <<>> THEN added ELSE [k \in DOMAIN plotted |-> items[plotted[k]].sig]
           l == [id |-> n, before |-> plotted, added |-> added # <<>>, init |-> init,
                 sigs |-> sigs, answered |-> FALSE, colours |-> <<>>, symbols |-> 0]
<1>1. ASSUME NEW k \in DOMAIN plotted PROVE items[plotted[k]].sig \in Series
  <2>1. items[plotted[k]].sig \in SigsOf(items, plotted)
    BY DEF SigsOf
  <2> QED BY <2>1, SigsInSeries DEF GraphTyped, PlotTyped
<1>2. sigs \in Seq(Series)
  <2> DEFINE f == [k \in DOMAIN plotted |-> items[plotted[k]].sig]
  <2>1. DOMAIN plotted = 1..Len(plotted) /\ Len(plotted) \in Nat
    BY DEF GraphTyped, PlotTyped
  <2>2. f \in [1..Len(plotted) -> Series]
    BY <1>1, <2>1
  <2>3. f \in Seq(Series)
    <3> HIDE DEF f
    <3> QED BY <2>1, <2>2, FunctionIsList
  <2> QED BY <2>3
<1>3. n \in Nat /\ plotted \in Seq(DOMAIN items) /\ <<>> \in Seq(PlotColour)
  BY DEF GraphTyped, PlotTyped, LoadsTyped
<1>4. l \in DataRequest(items)
  <2> HIDE DEF n, sigs
  <2> QED BY <1>2, <1>3 DEF DataRequest
<1>5. graphLoads' = graphLoads \cup {l} /\ nGraphLoads' = n
  BY DEF GetTestData
<1> HIDE DEF l
<1> QED BY <1>3, <1>4, <1>5 DEF GraphTyped, LoadsTyped, DataRequest

\* The objects of an answer, coloured or hidden.
LEMMA AnswerTyped ==
    ASSUME NEW its \in Seq(PlotItem), NEW l \in DataRequest(its)
    PROVE  /\ GraphData(l) \in Seq(PlotItem) /\ Len(GraphData(l)) = Len(l.sigs)
           /\ \A k \in DOMAIN GraphData(l) : ~GraphData(l)[k].shown => GraphData(l)[k].colour = NoColour
<1>1. l.sigs \in Seq(Series) /\ l.colours \in Seq(PlotColour) /\ NoColour \in PlotColour
  BY GraphBounds DEF DataRequest, PlotColour, NoColour
<1>2. ASSUME NEW k \in 1..Len(l.sigs)
      PROVE  /\ GraphData(l)[k] \in PlotItem
             /\ ~GraphData(l)[k].shown => GraphData(l)[k].colour = NoColour
  <2> DEFINE left == Len(l.colours) + 1 - k
             colour == IF left > 0 THEN l.colours[left] ELSE NoColour
  <2>1. GraphData(l)[k] = [sig |-> l.sigs[k], colour |-> colour, shown |-> colour # NoColour]
    BY <1>1 DEF GraphData
  <2>2. colour \in PlotColour
    BY <1>1
  <2>3. l.sigs[k] \in Series
    BY <1>1
  <2> HIDE DEF colour
  <2>4. (colour # NoColour) \in BOOLEAN
    OBVIOUS
  <2> DEFINE shown == colour # NoColour
             r == [sig |-> l.sigs[k], colour |-> colour, shown |-> shown]
  <2>5. ~shown => colour = NoColour
    OBVIOUS
  <2> HIDE DEF shown
  <2>6. r \in PlotItem /\ r.colour = colour /\ r.shown = shown
    BY <2>2, <2>3, <2>4 DEF PlotItem, shown
  <2>7. GraphData(l)[k] = r
    BY <2>1 DEF shown
  <2> QED BY <2>5, <2>6, <2>7
<1>3. DOMAIN GraphData(l) = 1..Len(l.sigs) /\ Len(l.sigs) \in Nat
  BY <1>1 DEF GraphData
<1>4. GraphData(l) = [k \in 1..Len(l.sigs) |-> GraphData(l)[k]]
  BY <1>1 DEF GraphData
<1>5. [k \in 1..Len(l.sigs) |-> GraphData(l)[k]] \in Seq(PlotItem)
  <2> DEFINE f == [k \in 1..Len(l.sigs) |-> GraphData(l)[k]]
  <2>1. f \in [1..Len(l.sigs) -> PlotItem]
    BY <1>2
  <2> HIDE DEF f
  <2>2. f \in Seq(PlotItem)
    BY <1>3, <2>1, FunctionIsList
  <2> QED BY <2>2 DEF f
<1>6. Len(GraphData(l)) = Len(l.sigs)
  BY <1>3, <1>4, <1>5
<1> QED BY <1>2, <1>3, <1>4, <1>5, <1>6

\* What is plotted stands.
LEMMA PlotStands ==
    ASSUME GraphTyped, UNCHANGED plotVars
    PROVE  PlotTyped'
BY DEF plotVars, GraphTyped, PlotTyped, HiddenHasNoColour

\* The answer in its second step, when the alerts have come as well.
LEMMA AnswersTyped ==
    ASSUME GraphTyped, NEW l \in graphLoads, AlertsAnswered(l)
    PROVE  GraphTyped'
<1> DEFINE data == GraphData(l)
           ids == [k \in DOMAIN l.sigs |-> Len(items) + k]
           n == Left(Len(l.colours), l)
<1>1. l \in DataRequest(items) /\ items \in Seq(PlotItem)
  BY DEF GraphTyped, LoadsTyped, PlotTyped
<1>2. data \in Seq(PlotItem) /\ Len(data) = Len(l.sigs)
      /\ (\A k \in DOMAIN data : ~data[k].shown => data[k].colour = NoColour)
  BY <1>1, AnswerTyped
<1> HIDE DEF data
<1>3. items' = items \o data /\ palette' = SubSeq(l.colours, 1, n) /\ symbolsLeft' = Left(l.symbols, l)
      /\ plotted' = IF l.added THEN l.before \o ids ELSE ids
  BY DEF AlertsAnswered, data
<1>4. /\ items' \in Seq(PlotItem) /\ Len(items') = Len(items) + Len(data)
      /\ \A i \in 1..Len(items) : items'[i] = items[i]
      /\ \A i \in 1..Len(data) : items'[Len(items) + i] = data[i]
  <2>1. /\ items \o data \in Seq(PlotItem) /\ Len(items \o data) = Len(items) + Len(data)
        /\ \A i \in 1..Len(items) : (items \o data)[i] = items[i]
        /\ \A i \in 1..Len(data) : (items \o data)[Len(items) + i] = data[i]
    <3>1. items \in Seq(PlotItem) /\ data \in Seq(PlotItem)
      BY <1>1, <1>2
    <3> QED BY ONLY <3>1, Concatenated
  <2> QED BY ONLY <1>3, <2>1
<1>5. HiddenHasNoColour'
  <2> SUFFICES ASSUME NEW i \in DOMAIN items', ~items'[i].shown
               PROVE  items'[i].colour = NoColour
    BY DEF HiddenHasNoColour
  <2>1. CASE i \in 1..Len(items)
    BY <2>1, <1>1, <1>4 DEF GraphTyped, PlotTyped, HiddenHasNoColour
  <2>2. CASE i \notin 1..Len(items)
    <3>1. PICK k \in 1..Len(data) : i = Len(items) + k
      <4>1. Len(items) \in Nat /\ Len(data) \in Nat /\ i \in 1..Len(items) + Len(data)
        <5>1. Len(items) \in Nat /\ Len(data) \in Nat
          BY <1>1, <1>2, LenProperties
        <5>2. DOMAIN items' = 1..Len(items')
          BY <1>4, LenProperties
        <5> QED BY <1>4, <5>1, <5>2
      <4>2. i - Len(items) \in 1..Len(data) /\ i = Len(items) + (i - Len(items))
        BY <2>2, <4>1
      <4> QED BY <4>2
    <3>2. items'[i] = data[k] /\ k \in DOMAIN data
      <4>1. DOMAIN data = 1..Len(data)
        BY <1>2, LenProperties
      <4>2. items'[Len(items) + k] = data[k]
        BY <1>4
      <4> QED BY <4>1, <4>2, <3>1
    <3> QED BY <3>2, <1>2
  <2> QED BY <2>1, <2>2
<1>6. /\ Seq(DOMAIN items) \subseteq Seq(DOMAIN items')
      /\ DataRequest(items) \subseteq DataRequest(items') /\ AlertRequest(items) \subseteq AlertRequest(items')
  <2>1. Len(items) \in Nat /\ Len(data) \in Nat /\ DOMAIN items = 1..Len(items)
    BY <1>1, <1>2
  <2>2. Len(items) <= Len(items') /\ \A i \in DOMAIN items : items'[i].sig = items[i].sig
    BY <1>4, <2>1
  <2> QED BY <1>1, <1>4, <2>2, Grown
<1>7. ids \in Seq(DOMAIN items')
  <2>1. DOMAIN l.sigs = 1..Len(l.sigs) /\ Len(l.sigs) \in Nat /\ Len(items) \in Nat
    BY <1>1 DEF DataRequest
  <2>2. \A k \in DOMAIN l.sigs : Len(items) + k \in DOMAIN items'
    BY <1>2, <1>4, <2>1
  <2>3. ids \in [1..Len(l.sigs) -> DOMAIN items']
    BY <2>1, <2>2
  <2> HIDE DEF ids
  <2> QED BY <2>1, <2>3, FunctionIsList
<1> HIDE DEF ids
<1>8. plotted' \in Seq(DOMAIN items')
  <2>1. l.before \in Seq(DOMAIN items')
    BY <1>1, <1>6 DEF DataRequest
  <2> QED BY <1>3, <1>7, <2>1, ConcatProperties
<1>9. palette' \in Seq(PlotColour) /\ symbolsLeft' \in Nat
  <2>1. l.colours \in Seq(PlotColour) /\ l.symbols \in Nat /\ Len(l.sigs) \in Nat
        /\ Len(l.colours) \in Nat
    BY <1>1 DEF DataRequest
  <2>2. \A m \in Nat : Left(m, l) \in 0..m
    BY ONLY <2>1 DEF Left
  <2>4. n \in 0..Len(l.colours) /\ Left(l.symbols, l) \in Nat
    <3>1. n \in 0..Len(l.colours) /\ Left(l.symbols, l) \in 0..l.symbols
      BY <2>1, <2>2, Zenon
    <3> QED BY <3>1, <2>1
  <2>5. n \in Int /\ n <= Len(l.colours) /\ 1 \in Nat \ {0}
    BY <2>1, <2>4
  <2> HIDE DEF n
  <2>3. SubSeq(l.colours, 1, n) \in Seq(PlotColour)
    BY ONLY <2>1, <2>5, PartOfList
  <2> QED BY <1>3, <2>4, <2>3
<1>10. LookTyped'
  <2>1. graphUrl' = graphUrl \/ ChangeParams
    BY DEF AlertsAnswered
  <2> QED BY <1>4, <1>8, <2>1, UrlTyped DEF AlertsAnswered, GraphTyped, LookTyped
<1>11. LoadsTyped' /\ ChooserTyped' /\ CreatedTyped'
  BY <1>6 DEF AlertsAnswered, GraphTyped, LoadsTyped, ChooserTyped, CreatedTyped, testModalVars,
              alertDataVars
<1> QED BY <1>4, <1>5, <1>8, <1>9, <1>10, <1>11 DEF GraphTyped, PlotTyped

\* Nothing but the answers add objects, so the other actions leave what refers
\* to them as it is typed.
LEMMA RefsStand ==
    ASSUME GraphTyped, UNCHANGED items
    PROVE  /\ graphLoads' \subseteq graphLoads /\ UNCHANGED nGraphLoads => LoadsTyped'
           /\ newAlerts' \subseteq newAlerts => CreatedTyped'
BY DEF GraphTyped, LoadsTyped, CreatedTyped

\* The answer in its first step.
LEMMA SeriesAnsweredTyped ==
    ASSUME GraphTyped, NEW l \in graphLoads, SeriesAnswered(l)
    PROVE  GraphTyped'
<1> DEFINE sigs == Keep(l.sigs, Series \ NoData)
           m == [l EXCEPT !.answered = TRUE, !.colours = palette, !.symbols = symbolsLeft,
                          !.sigs = sigs]
<1>1. l \in DataRequest(items) /\ l.sigs \in Seq(Series)
  BY DEF GraphTyped, LoadsTyped, DataRequest
<1>2. sigs \in Seq(Series)
  BY <1>1, KeepMembers
<1>3. m \in DataRequest(items)
  <2> HIDE DEF sigs
  <2> QED BY <1>1, <1>2 DEF DataRequest, GraphTyped, PlotTyped
<1>4. graphLoads' = (graphLoads \ {l}) \cup {m}
  BY DEF SeriesAnswered
<1> HIDE DEF m
<1>5. UNCHANGED <<nGraphLoads, plotVars, lookVars, testModalVars, alertDataVars>>
  BY DEF SeriesAnswered
<1>6. LoadsTyped'
  BY <1>3, <1>4, <1>5 DEF GraphTyped, LoadsTyped, plotVars
<1> QED
  BY <1>5, <1>6, PlotStands
  DEF GraphTyped, LookTyped, ChooserTyped, CreatedTyped, plotVars, lookVars, testModalVars, alertDataVars

\* A tick in the legend.
LEMMA SelectedTestTyped ==
    ASSUME GraphTyped, NEW s \in Series, UpdateSelectedTest(s)
    PROVE  GraphTyped'
<1> DEFINE base == [items |-> items, colours |-> palette, symbols |-> symbolsLeft, refused |-> FALSE]
           st == FoldLeft(LAMBDA acc, i : ToggleSeries(s, acc, i), base, plotted)
<1>1. items \in Seq(PlotItem) /\ plotted \in Seq(DOMAIN items)
  BY DEF GraphTyped, PlotTyped
<1>2. base \in SeriesState(items)
  BY DEF SeriesState, GraphTyped, PlotTyped, HiddenHasNoColour
<1>3. st \in SeriesState(items)
  <2> HIDE DEF base
  <2> QED BY <1>1, <1>2, AllToggled
<1>4. /\ items' = st.items /\ plotted' = plotted
      /\ palette' \in {palette, st.colours} /\ symbolsLeft' \in {symbolsLeft, st.symbols}
      /\ UNCHANGED <<graphLoads, nGraphLoads, point, range, testModalVars, alertDataVars>>
      /\ ChangeParams
  BY DEF UpdateSelectedTest
<1> HIDE DEF st
<1>5. /\ items' \in Seq(PlotItem) /\ Len(items') = Len(items) /\ DOMAIN items' = DOMAIN items
      /\ \A i \in DOMAIN items : items'[i].sig = items[i].sig
      /\ HiddenHasNoColour'
      /\ palette' \in Seq(PlotColour) /\ symbolsLeft' \in Nat
  <2>1. /\ st.items \in Seq(PlotItem) /\ st.colours \in Seq(PlotColour) /\ st.symbols \in Nat
        /\ Len(st.items) = Len(items)
        /\ \A i \in DOMAIN items : st.items[i].sig = items[i].sig
        /\ \A i \in DOMAIN items : ~st.items[i].shown => st.items[i].colour = NoColour
    BY <1>3 DEF SeriesState
  <2>2. DOMAIN st.items = DOMAIN items
    BY <1>1, <2>1, LenProperties
  <2>3. HiddenHasNoColour'
    BY <1>4, <2>1, <2>2 DEF HiddenHasNoColour
  <2>4. palette' \in Seq(PlotColour) /\ symbolsLeft' \in Nat
    BY <1>4, <2>1 DEF GraphTyped, PlotTyped
  <2> QED BY <1>4, <2>1, <2>2, <2>3, <2>4
<1>6. /\ Seq(DOMAIN items) \subseteq Seq(DOMAIN items')
      /\ DataRequest(items) \subseteq DataRequest(items') /\ AlertRequest(items) \subseteq AlertRequest(items')
  <2>1. Len(items) <= Len(items')
    BY <1>1, <1>5, LenProperties
  <2> QED BY <1>1, <1>5, <2>1, Grown
<1>7. graphUrl' \subseteq Series
  BY <1>1, <1>4, <1>5, UrlTyped
<1> QED
  BY <1>1, <1>4, <1>5, <1>6, <1>7
  DEF GraphTyped, PlotTyped, LoadsTyped, LookTyped, ChooserTyped, CreatedTyped, testModalVars,
      alertDataVars

\* A series that is taken away gives its colour back.
LEMMA RemovedTyped ==
    ASSUME GraphTyped, NEW k \in DOMAIN plotted, RemoveTest(k)
    PROVE  GraphTyped'
<1> DEFINE gone == plotted[k]
           rest == RemoveAt(plotted, k)
           next == rest[NumColours]
           it == [items[next] EXCEPT !.colour = items[gone].colour, !.shown = TRUE]
<1>1. items \in Seq(PlotItem) /\ plotted \in Seq(DOMAIN items) /\ DOMAIN items = 1..Len(items)
  BY DEF GraphTyped, PlotTyped
<1>2. rest \in Seq(DOMAIN items) /\ gone \in DOMAIN items /\ items[gone] \in PlotItem
  <2>1. gone \in DOMAIN items
    BY <1>1, LenProperties, ElementOfSeq
  <2>2. items[gone] \in PlotItem
    BY <1>1, <2>1, ElementOfSeq
  <2> QED BY <1>1, <2>1, <2>2, RemoveAtMembers
<1> HIDE DEF rest, gone
<1>3. plotted' = rest
  BY DEF RemoveTest, rest
<1>4. \/ /\ Len(rest) >= NumColours
         /\ items' = [items EXCEPT ![next].colour = items[gone].colour, ![next].shown = TRUE]
         /\ UNCHANGED palette
      \/ /\ palette' \in {palette, Append(palette, items[gone].colour)}
         /\ UNCHANGED items
  BY DEF RemoveTest, rest, gone
<1>5. /\ items' \in Seq(PlotItem) /\ Len(items') = Len(items) /\ DOMAIN items' = DOMAIN items
      /\ \A i \in DOMAIN items : items'[i].sig = items[i].sig
      /\ HiddenHasNoColour' /\ palette' \in Seq(PlotColour)
  <2>1. CASE UNCHANGED items
    <3>1. Append(palette, items[gone].colour) \in Seq(PlotColour)
      BY <1>2 DEF GraphTyped, PlotTyped, PlotItem
    <3>2. palette' \in Seq(PlotColour)
      BY <1>4, <3>1 DEF GraphTyped, PlotTyped
    <3> QED BY <1>1, <2>1, <3>2 DEF GraphTyped, PlotTyped, HiddenHasNoColour
  <2>2. CASE /\ Len(rest) >= NumColours
             /\ items' = [items EXCEPT ![next].colour = items[gone].colour, ![next].shown = TRUE]
             /\ UNCHANGED palette
    <3>1. NumColours \in 1..Len(rest)
      BY <1>2, <2>2, GraphBounds, LenProperties
    <3>2. next \in DOMAIN items
      BY <1>2, <3>1, ElementOfSeq
    <3>8. items[next] \in PlotItem
      BY <1>1, <3>2, ElementOfSeq
    <3>3. it \in PlotItem /\ it.shown /\ it.sig = items[next].sig
      BY <1>2, <3>8 DEF PlotItem
    <3>4. items' = [items EXCEPT ![next] = it]
      BY <2>2
    <3> HIDE DEF it, next
    <3>5. /\ items' \in Seq(PlotItem) /\ Len(items') = Len(items)
          /\ \A i \in DOMAIN items : items'[i] = IF i = next THEN it ELSE items[i]
      BY <1>1, <3>2, <3>3, <3>4, ExceptSeq
    <3>6. DOMAIN items' = DOMAIN items
      BY <3>4
    <3>7. \A i \in DOMAIN items' : ~items'[i].shown => items'[i].colour = NoColour
      BY <3>3, <3>5, <3>6 DEF GraphTyped, PlotTyped, HiddenHasNoColour
    <3> QED
      BY <2>2, <3>3, <3>5, <3>6, <3>7 DEF GraphTyped, PlotTyped, HiddenHasNoColour
  <2> QED BY <1>4, <2>1, <2>2
<1>6. /\ Seq(DOMAIN items) \subseteq Seq(DOMAIN items')
      /\ DataRequest(items) \subseteq DataRequest(items') /\ AlertRequest(items) \subseteq AlertRequest(items')
  <2>1. Len(items) <= Len(items')
    BY <1>1, <1>5, LenProperties
  <2> QED BY <1>1, <1>5, <2>1, Grown
<1>7. graphUrl' \subseteq Series
  <2>1. plotted' \in Seq(DOMAIN items')
    BY <1>2, <1>3, <1>5
  <2> QED BY <1>5, <2>1, UrlTyped DEF RemoveTest
<1>8. UNCHANGED <<symbolsLeft, graphLoads, nGraphLoads, range, testModalVars, alertDataVars>>
      /\ point' \in {NoPoint, point}
  BY DEF RemoveTest, loadVars
<1> QED
  BY <1>1, <1>2, <1>3, <1>5, <1>6, <1>7, <1>8
  DEF GraphTyped, PlotTyped, LoadsTyped, LookTyped, ChooserTyped, CreatedTyped, testModalVars,
      alertDataVars

\* A point, a tooltip or a part of the graph.
LEMMA TooltipTyped ==
    ASSUME GraphTyped,
           Highlight \/ (\E s \in Series : SetTooltip(s)) \/ CloseTooltip \/ UpdateZoom
    PROVE  GraphTyped'
<1>1. UNCHANGED <<plotVars, loadVars, testModalVars, alertDataVars>> /\ ChangeParams
      /\ point' \in Series \cup {NoPoint} /\ UNCHANGED range
  BY DEF Highlight, SetTooltip, CloseTooltip, UpdateZoom, GraphTyped, LookTyped
<1>2. PlotTyped'
  BY <1>1, PlotStands
<1>3. graphUrl' \subseteq Series
  BY <1>1, <1>2, UrlTyped DEF PlotTyped
<1> QED
  BY <1>1, <1>2, <1>3
  DEF GraphTyped, LoadsTyped, LookTyped, ChooserTyped, CreatedTyped, plotVars, loadVars,
      testModalVars, alertDataVars

\* Another range of time asks for the data of all that is plotted.
LEMMA NewRangeTyped ==
    ASSUME GraphTyped, NEW r \in {1, 2}, NEW added \in Seq(Series), NewRange(r, added)
    PROVE  PlotTyped' /\ LoadsTyped' /\ LookTyped'
<1>1. /\ palette' = GraphColours /\ symbolsLeft' = NumColours /\ UNCHANGED <<items, plotted>>
      /\ point' = NoPoint /\ range' = r /\ (graphUrl' = graphUrl \/ ChangeParams) /\ GetTestData(added, FALSE)
  BY DEF NewRange
<1>2. GraphColours \in Seq(PlotColour) /\ NumColours \in Nat
  <2>1. GraphColours \in [1..NumColours -> PlotColour] /\ NumColours \in Nat
    BY GraphBounds DEF GraphColours, PlotColour
  <2> HIDE DEF GraphColours
  <2> QED BY <2>1, FunctionIsList
<1>3. PlotTyped'
  BY <1>1, <1>2 DEF GraphTyped, PlotTyped, HiddenHasNoColour
<1>4. LoadsTyped'
  BY <1>1, LoadTyped
<1>5. LookTyped'
  <2>1. ChangeParams => graphUrl' \subseteq Series
    BY <1>3, UrlTyped DEF PlotTyped
  <2> QED BY <1>1, <2>1 DEF GraphTyped, LookTyped
<1> QED BY <1>3, <1>4, <1>5

\* The range from the menu of the graph.
LEMMA TimeRangeTyped ==
    ASSUME GraphTyped, NEW r \in {1, 2}, UpdateTimeRange(r)
    PROVE  GraphTyped'
<1>1. <<>> \in Seq(Series) /\ NewRange(r, <<>>)
  BY DEF UpdateTimeRange
<1>2. PlotTyped' /\ LoadsTyped' /\ LookTyped' /\ UNCHANGED items
  BY <1>1, NewRangeTyped DEF NewRange
<1>3. ChooserTyped' /\ CreatedTyped'
  BY <1>2 DEF UpdateTimeRange, GraphTyped, ChooserTyped, CreatedTyped, alertDataVars
<1> QED BY <1>2, <1>3 DEF GraphTyped

\* The series that the dialog adds.
LEMMA SubmittedTyped ==
    ASSUME GraphTyped, SubmitTests
    PROVE  GraphTyped'
<1> DEFINE sigs == [k \in DOMAIN chooser.picked |-> chooser.picked[k][1]]
<1>1. sigs \in Seq(Series)
  <2>1. /\ chooser.picked \in Seq(PickedSeries) /\ Len(chooser.picked) \in Nat
        /\ DOMAIN chooser.picked = 1..Len(chooser.picked)
    BY LenProperties DEF GraphTyped, ChooserTyped
  <2>2. ASSUME NEW k \in 1..Len(chooser.picked) PROVE chooser.picked[k][1] \in Series
    BY <2>1, ElementOfSeq DEF PickedSeries
  <2>3. sigs \in [1..Len(chooser.picked) -> Series]
    BY <2>1, <2>2
  <2> HIDE DEF sigs
  <2> QED BY <2>1, <2>3, FunctionIsList
<1>2. /\ chooser' = [chooser EXCEPT !.open = FALSE, !.picked = <<>>]
      /\ UNCHANGED <<testLists, nLists, alertDataVars>>
      /\ \/ NewRange(chooser.inner, sigs)
         \/ GetTestData(sigs, FALSE) /\ UNCHANGED <<plotVars, lookVars>>
  BY DEF SubmitTests
<1> HIDE DEF sigs
<1>3. chooser.inner \in {1, 2}
  BY DEF GraphTyped, ChooserTyped
<1>4. PlotTyped' /\ LoadsTyped' /\ LookTyped' /\ UNCHANGED items
  <2>1. CASE NewRange(chooser.inner, sigs)
    BY <1>1, <1>3, <2>1, NewRangeTyped DEF NewRange
  <2>2. CASE GetTestData(sigs, FALSE) /\ UNCHANGED <<plotVars, lookVars>>
    BY <1>1, <2>2, LoadTyped, PlotStands DEF GraphTyped, LookTyped, plotVars, lookVars
  <2> QED BY <1>2, <2>1, <2>2
<1>5. [chooser EXCEPT !.open = FALSE, !.picked = <<>>]
        \in [open : BOOLEAN, offered : SUBSET PickedSeries, picked : Seq(PickedSeries), inner : {1, 2}]
  <2>1. <<>> \in Seq(PickedSeries)
    OBVIOUS
  <2> QED BY <2>1 DEF GraphTyped, ChooserTyped
<1>6. ChooserTyped' /\ CreatedTyped'
  BY <1>2, <1>4, <1>5 DEF GraphTyped, ChooserTyped, CreatedTyped, alertDataVars
<1> QED BY <1>4, <1>6 DEF GraphTyped

\* The tests that the dialog offers and those that are picked.
LEMMA DialogTyped ==
    ASSUME GraphTyped,
           \/ \E related \in BOOLEAN : OpenChooser(related)
           \/ \E r \in {1, 2} : ChangeOptions(r)
           \/ \E q \in testLists : TestsListed(q)
           \/ \E test \in chooser.offered \cup ToSet(chooser.picked) : UpdateSelectedTests(test)
           \/ CloseChooser
    PROVE  GraphTyped'
<1> DEFINE Dialog == [open : BOOLEAN, offered : SUBSET PickedSeries, picked : Seq(PickedSeries), inner : {1, 2}]
           Lists == [id : Nat, known : SUBSET Series]
<1>1. UNCHANGED <<plotVars, loadVars, alertDataVars, lookVars>>
  BY DEF OpenChooser, ChangeOptions, TestsListed, UpdateSelectedTests, CloseChooser
<1>2. chooser \in Dialog /\ testLists \subseteq Lists /\ nLists \in Nat /\ range \in {1, 2}
  BY DEF GraphTyped, ChooserTyped, LookTyped
<1>3. ASSUME NEW related, ProcessOptions(related)
      PROVE  testLists' \subseteq Lists /\ nLists' \in Nat
  <2>1. SigsOf(items, plotted) \subseteq Series
    BY SigsInSeries DEF GraphTyped, PlotTyped
  <2>2. (IF related THEN {} ELSE SigsOf(items, plotted)) \in SUBSET Series
    BY <2>1
  <2> QED BY <1>2, <1>3, <2>2 DEF ProcessOptions
<1>4. ASSUME NEW related \in BOOLEAN, OpenChooser(related)
      PROVE  ChooserTyped'
  BY <1>2, <1>3, <1>4 DEF OpenChooser, ChooserTyped
<1>5. ASSUME NEW r \in {1, 2}, ChangeOptions(r)
      PROVE  ChooserTyped'
  BY <1>2, <1>3, <1>5 DEF ChangeOptions, ChooserTyped
<1>6. ASSUME NEW q \in testLists, TestsListed(q)
      PROVE  ChooserTyped'
  <2>1. q.id \in Nat
    BY <1>2
  <2>2. {<<s, q.id>> : s \in Series \ q.known} \in SUBSET PickedSeries
    BY <2>1 DEF PickedSeries
  <2>3. [chooser EXCEPT !.offered = {<<s, q.id>> : s \in Series \ q.known}] \in Dialog
    BY <1>2, <2>2
  <2> QED BY <1>2, <1>6, <2>3 DEF TestsListed, ChooserTyped
<1>7. ASSUME NEW test \in chooser.offered \cup ToSet(chooser.picked), UpdateSelectedTests(test)
      PROVE  ChooserTyped'
  <2> DEFINE kept == Keep(chooser.picked, ToSet(chooser.picked) \ {test})
             more == Append(chooser.picked, test)
  <2>1. test \in PickedSeries
    BY <1>2 DEF ToSet
  <2>2. kept \in Seq(PickedSeries) /\ more \in Seq(PickedSeries)
    BY <1>2, <2>1, KeepMembers
  <2>3. chooser' \in {[chooser EXCEPT !.picked = kept], [chooser EXCEPT !.picked = more]}
        /\ UNCHANGED <<testLists, nLists>>
    BY <1>2, <1>7 DEF UpdateSelectedTests
  <2> HIDE DEF kept, more
  <2> QED BY <1>2, <2>2, <2>3 DEF ChooserTyped
<1>8. ASSUME CloseChooser PROVE ChooserTyped'
  <2>1. [chooser EXCEPT !.open = FALSE, !.inner = range] \in Dialog
    BY <1>2
  <2> QED BY <1>2, <1>8, <2>1 DEF CloseChooser, ChooserTyped
<1>9. ChooserTyped'
  <2>1. CASE \E related \in BOOLEAN : OpenChooser(related)
    BY <1>4, <2>1
  <2>2. CASE \E r \in {1, 2} : ChangeOptions(r)
    BY <1>5, <2>2
  <2>3. CASE \E q \in testLists : TestsListed(q)
    BY <1>6, <2>3
  <2>4. CASE \E test \in chooser.offered \cup ToSet(chooser.picked) : UpdateSelectedTests(test)
    BY <1>7, <2>4
  <2> QED BY <1>8, <2>1, <2>2, <2>3, <2>4
<1> QED
  BY <1>1, <1>9, PlotStands
  DEF GraphTyped, LoadsTyped, LookTyped, CreatedTyped, plotVars, loadVars, alertDataVars, lookVars

\* An alert puts the test it is of before the others.
LEMMA CreatedAlertTyped ==
    ASSUME GraphTyped, NEW u \in newAlerts, AlertCreated(u)
    PROVE  GraphTyped'
<1> DEFINE index == CHOOSE k \in DOMAIN u.before : items[u.before[k]].sig = u.sig
           others == Keep(u.before, {i \in DOMAIN items : items[i].sig # u.sig})
<1>1. u.before \in Seq(DOMAIN items) /\ u.sig \in SigsOf(items, u.before)
  BY DEF GraphTyped, CreatedTyped, AlertRequest
<1>2. index \in DOMAIN u.before
  BY <1>1 DEF SigsOf
<1>3. u.before[index] \in DOMAIN items
  <2> HIDE DEF index
  <2> QED BY <1>1, <1>2, LenProperties, ElementOfSeq
<1>4. others \in Seq(DOMAIN items)
  BY <1>1, KeepMembers
<1>5. /\ plotted' = <<u.before[index]>> \o others /\ newAlerts' = newAlerts \ {u}
      /\ UNCHANGED <<items, palette, symbolsLeft, loadVars, range, point, testModalVars>>
      /\ (graphUrl' = graphUrl \/ ChangeParams)
  BY DEF AlertCreated
<1> HIDE DEF index, others
<1>6. plotted' \in Seq(DOMAIN items)
  <2>1. <<u.before[index]>> \in Seq(DOMAIN items)
    BY <1>3
  <2> QED BY <1>4, <1>5, <2>1, Concatenated
<1>7. PlotTyped'
  BY <1>5, <1>6 DEF GraphTyped, PlotTyped, HiddenHasNoColour
<1>8. ChangeParams => graphUrl' \subseteq Series
  BY <1>7, UrlTyped DEF PlotTyped
<1> QED
  BY <1>5, <1>7, <1>8
  DEF GraphTyped, LoadsTyped, LookTyped, ChooserTyped, CreatedTyped, loadVars, testModalVars

\* An alert that is created remembers what is plotted.
LEMMA NewAlertTyped ==
    ASSUME GraphTyped, NEW s \in Series, CreateAlert(s)
    PROVE  GraphTyped'
<1> DEFINE u == [sig |-> s, before |-> plotted]
<1>1. u \in AlertRequest(items)
  BY DEF CreateAlert, AlertRequest, GraphTyped, PlotTyped
<1>2. newAlerts' = newAlerts \cup {u} /\ UNCHANGED <<plotVars, loadVars, lookVars, testModalVars>>
  BY DEF CreateAlert
<1> HIDE DEF u
<1> QED
  BY <1>1, <1>2, PlotStands
  DEF GraphTyped, LoadsTyped, LookTyped, ChooserTyped, CreatedTyped, plotVars, loadVars, lookVars,
      testModalVars

\* Whatever is fetched, hidden, shown, removed, reordered or added, the objects
\* and what refers to them are typed, and what is hidden has no colour.
LEMMA GraphsTyped == GraphSpec => []GraphTyped
<1>1. GraphInit => GraphTyped
  <2> SUFFICES ASSUME GraphInit PROVE GraphTyped
    OBVIOUS
  <2>1. GraphColours \in Seq(PlotColour) /\ NumColours \in Nat
    <3>1. GraphColours \in [1..NumColours -> PlotColour] /\ NumColours \in Nat
      BY GraphBounds DEF GraphColours, PlotColour
    <3> HIDE DEF GraphColours
    <3> QED BY <3>1, FunctionIsList
  <2>2. PlotTyped
    BY <2>1 DEF GraphInit, PlotTyped, HiddenHasNoColour
  <2>3. graphUrl \subseteq Series /\ SetToSeq(graphUrl) \in Seq(Series)
    <3>1. graphUrl \subseteq Series
      BY DEF GraphInit
    <3>2. IsFiniteSet(graphUrl)
      BY <3>1, GraphBounds, FS_Subset
    <3> QED BY <3>1, <3>2, SetAsList
  <2>4. graphLoads \subseteq DataRequest(items)
    <3> DEFINE l == [id |-> 0, before |-> <<>>, added |-> TRUE, init |-> TRUE, answered |-> FALSE,
                     sigs |-> SetToSeq(graphUrl), colours |-> <<>>, symbols |-> 0]
    <3>1. <<>> \in Seq(DOMAIN items) /\ <<>> \in Seq(PlotColour)
      OBVIOUS
    <3>2. l \in DataRequest(items)
      BY <2>3, <3>1 DEF DataRequest
    <3>3. graphLoads = {l : s \in graphUrl}
      BY DEF GraphInit
    <3> HIDE DEF l
    <3> QED BY <3>2, <3>3
  <2> QED
    BY <2>2, <2>3, <2>4 DEF GraphInit, GraphTyped, LoadsTyped, LookTyped, ChooserTyped, CreatedTyped
<1>2. ASSUME GraphTyped, [GraphNext]_graphVars
      PROVE  GraphTyped'
  <2>1. CASE UNCHANGED graphVars
    BY <1>2, <2>1, PlotStands
    DEF graphVars, GraphTyped, LoadsTyped, LookTyped, ChooserTyped, CreatedTyped, plotVars,
        loadVars, lookVars, testModalVars, alertDataVars
  <2>2. ASSUME NEW l \in graphLoads, SeriesRefused(l)
        PROVE  GraphTyped'
    BY <1>2, <2>2, PlotStands
    DEF SeriesRefused, GraphTyped, LoadsTyped, LookTyped, ChooserTyped, CreatedTyped, plotVars,
        lookVars, testModalVars, alertDataVars
  <2>4. ASSUME NEW l \in graphLoads, SeriesThrows(l)
        PROVE  GraphTyped'
    BY <1>2, <2>4, PlotStands
    DEF SeriesThrows, GraphTyped, LoadsTyped, LookTyped, ChooserTyped, CreatedTyped, plotVars,
        lookVars, testModalVars, alertDataVars
  <2>3. ASSUME NEW u \in newAlerts, AlertRefused(u)
        PROVE  GraphTyped'
    <3>1. UNCHANGED <<plotVars, loadVars, range, point, testModalVars>> /\ ChangeParams
          /\ newAlerts' \subseteq newAlerts
      BY <2>3 DEF AlertRefused
    <3>2. PlotTyped'
      BY <1>2, <3>1, PlotStands
    <3>3. graphUrl' \subseteq Series
      BY <3>1, <3>2, UrlTyped DEF PlotTyped
    <3> QED
      BY <1>2, <3>1, <3>2, <3>3
      DEF GraphTyped, LoadsTyped, LookTyped, ChooserTyped, CreatedTyped, plotVars, loadVars,
          testModalVars
  <2> QED
    BY <1>2, <2>1, <2>2, <2>3, <2>4, SeriesAnsweredTyped, AnswersTyped, SelectedTestTyped, RemovedTyped,
       TooltipTyped, TimeRangeTyped, SubmittedTyped, DialogTyped, CreatedAlertTyped, NewAlertTyped
    DEF GraphNext
<1> QED BY <1>1, <1>2, PTL DEF GraphSpec

\* The types of the graphs.
LEMMA GraphTypes == GraphTyped => GraphTypeOK
<1> SUFFICES ASSUME GraphTyped PROVE GraphTypeOK
  OBVIOUS
<1>1. ASSUME NEW i \in DOMAIN items
      PROVE  items[i] \in [sig : Series, colour : 0 .. NumColours, shown : BOOLEAN]
  BY ElementOfSeq, LenProperties DEF GraphTyped, PlotTyped, PlotItem, PlotColour
<1>2. ToSet(plotted) \subseteq DOMAIN items /\ ToSet(palette) \subseteq 0 .. NumColours
  BY MembersTyped DEF GraphTyped, PlotTyped, PlotColour
<1> QED BY <1>1, <1>2 DEF GraphTyped, PlotTyped, LookTyped, GraphTypeOK

-----------------------------------------------------------------------------
(* The comparison.                                                         *)

\* The rows of a comparison.
CmpTables == CmpTests \cup {NoiseMetric}
CmpNames == CmpTests \cup ToSet(CmpPlatforms)
CompareRow == [test : CmpTables, name : CmpNames, sides : SUBSET CmpSides, noise : BOOLEAN,
         comparable : BOOLEAN, meaningful : BOOLEAN]
ListsAll(list, rows) == list \in Seq(rows) /\ ToSet(list) = rows

\* What the tables show is what passes the filters, of rows that can be sorted.
TablesAgree ==
    /\ compareResults \subseteq CompareRow /\ IsFiniteSet(compareResults)
    /\ results = {r \in compareResults : Passes(r, metrics, cmpText)}
    /\ DOMAIN tables = {r.test : r \in results}
    /\ \A t \in DOMAIN tables : /\ ListsAll(tables[t].data, RowsOf(results, t))
                                /\ tables[t].sort \in [Columns -> {"default", "ascending", "descending"}]

\* Rows have a place in the order.
LEMMA RankTyped == ASSUME NEW r \in CompareRow PROVE Rank(r) \in Nat
<1>1. CASE r.name \in CmpTests
  BY <1>1 DEF Rank
<1>2. CASE r.name \notin CmpTests
  <2>1. r.name \in ToSet(CmpPlatforms) /\ DOMAIN CmpPlatforms \subseteq Nat
    <3>1. DOMAIN CmpPlatforms = 1..Len(CmpPlatforms) /\ Len(CmpPlatforms) \in Nat
      BY CompareParameters, LenProperties
    <3> QED BY <1>2, <3>1 DEF CompareRow, CmpNames
  <2>2. \E k \in DOMAIN CmpPlatforms : CmpPlatforms[k] = r.name
    BY <2>1 DEF ToSet
  <2> QED BY <1>2, <2>1, <2>2 DEF Rank
<1> QED BY <1>1, <1>2

\* The order of the table loses no row and adds none.
LEMMA InOrderLists ==
    ASSUME NEW rows, rows \subseteq CompareRow, IsFiniteSet(rows)
    PROVE  ListsAll(InOrder(rows), rows)
<1> DEFINE rank == [r \in rows |-> Rank(r)]
<1>1. rank \in [rows -> Nat]
  BY RankTyped
<1>2. PICK list \in SetToSeqs(rows) : \A i, j \in DOMAIN list : rank[list[i]] < rank[list[j]] => i < j
  BY <1>1, SortedListing DEF SortedBy
<1>3. list \in Seq(rows)
  BY ListingMembers
<1>4. \A i \in DOMAIN list : list[i] \in rows
  BY <1>3, LenProperties, ElementOfSeq
<1>5. \A i, j \in DOMAIN list : Rank(list[i]) < Rank(list[j]) => i < j
  BY <1>2, <1>4
<1>6. InOrder(rows) \in SetToSeqs(rows)
  BY <1>5 DEF InOrder
<1> QED BY <1>6, ListingMembers DEF ListsAll

\* Nor does sorting by a column.
LEMMA SortedLists ==
    ASSUME NEW rows, NEW list, ListsAll(list, rows), NEW c, NEW order
    PROVE  ListsAll(Sorted(list, c, order), rows)
<1> DEFINE hasValue == {r \in ToSet(list) : c = "name" \/ r.comparable}
           valid == Keep(list, hasValue)
           null == Keep(list, ToSet(list) \ hasValue)
<1>1. list \in Seq(rows) /\ ToSet(list) = rows
  BY DEF ListsAll
<1>2. valid \in Seq(rows) /\ ToSet(valid) = hasValue
  BY <1>1, KeepMembers
<1>3. null \in Seq(rows) /\ ToSet(null) = ToSet(list) \ hasValue
  BY <1>1, KeepMembers
<1>4. Sorted(list, c, order) = CASE order = "ascending" -> valid \o null
                                 [] order = "descending" -> Reverse(valid) \o null
                                 [] OTHER -> list
  BY DEF Sorted
<1>5. hasValue \cup (ToSet(list) \ hasValue) = rows
  BY <1>1
<1> HIDE DEF hasValue, valid, null
<1>6. ListsAll(valid \o null, rows)
  <2>1. valid \o null \in Seq(rows) /\ ToSet(valid \o null) = ToSet(valid) \cup ToSet(null)
    BY <1>2, <1>3, Concatenated
  <2> QED BY <1>2, <1>3, <1>5, <2>1 DEF ListsAll
<1>7. ListsAll(Reverse(valid) \o null, rows)
  <2>1. Reverse(valid) \in Seq(rows) /\ ToSet(Reverse(valid)) = hasValue
    BY <1>2, Reversed
  <2> DEFINE reversed == Reverse(valid)
  <2> HIDE DEF reversed
  <2>2. reversed \o null \in Seq(rows) /\ ToSet(reversed \o null) = ToSet(reversed) \cup ToSet(null)
    BY <1>3, <2>1, Concatenated DEF reversed
  <2> QED BY <1>3, <1>5, <2>1, <2>2 DEF ListsAll, reversed
<1> QED BY <1>4, <1>6, <1>7

\* The rows of one table.
LEMMA RowsFinite ==
    ASSUME NEW rows, IsFiniteSet(rows), rows \subseteq CompareRow, NEW t
    PROVE  RowsOf(rows, t) \subseteq CompareRow /\ IsFiniteSet(RowsOf(rows, t))
<1>1. RowsOf(rows, t) \in SUBSET rows
  BY DEF RowsOf
<1> QED BY <1>1, FS_Subset

\* What a table is filled with again.
LEMMA FilteredAgree ==
    ASSUME compareResults' \subseteq CompareRow, IsFiniteSet(compareResults'), UpdateFilteredResults
    PROVE  TablesAgree'
<1>1. results' = {r \in compareResults' : Passes(r, metrics', cmpText')}
  BY DEF UpdateFilteredResults, FilteredTests
<1>2. results' \in SUBSET compareResults'
  BY <1>1
<1>3. IsFiniteSet(results') /\ results' \subseteq CompareRow
  BY <1>2, FS_Subset
<1>4. \A t : ListsAll(InOrder(RowsOf(results', t)), RowsOf(results', t))
  BY <1>3, RowsFinite, InOrderLists
<1>5. tables' = [t \in {r.test : r \in results'} |-> NewTable(RowsOf(results', t))]
  BY DEF UpdateFilteredResults, RefilledTables
<1>6. /\ DOMAIN tables' = {r.test : r \in results'}
      /\ \A t \in DOMAIN tables' : tables'[t].data = InOrder(RowsOf(results', t))
                                   /\ tables'[t].sort = UnsortedTable
  BY <1>5 DEF NewTable
<1>7. UnsortedTable \in [Columns -> {"default", "ascending", "descending"}]
  BY DEF UnsortedTable
<1>8. \A t \in DOMAIN tables' : ListsAll(tables'[t].data, RowsOf(results', t))
  BY <1>4, <1>6
<1>9. \A t \in DOMAIN tables' : tables'[t].sort \in [Columns -> {"default", "ascending", "descending"}]
  BY <1>6, <1>7
<1>10. \A t : ListsAll(tables[t].data, RowsOf(results, t))' <=> ListsAll(tables'[t].data, RowsOf(results', t))
  BY DEF ListsAll, RowsOf
<1> QED BY <1>1, <1>6, <1>8, <1>9, <1>10 DEF TablesAgree

\* The rows of an answer.
LEMMA DisplayTyped ==
    ASSUME NEW l, l.framework \in CmpFrameworks, l.range \in CmpRanges
    PROVE  DisplayResults(l) \subseteq CompareRow /\ IsFiniteSet(DisplayResults(l))
<1> DEFINE sides == SidesOf[<<l.framework, l.range>>]
           some == {row \in CmpRows : sides[row] # {}}
           f == [row \in some |-> CounterMap(row, sides[row])]
           rows == {CounterMap(row, sides[row]) : row \in some}
           noise == NoiseRows(rows)
<1>1. /\ DisplayResults(l) = rows \cup noise
  BY DEF DisplayResults
<1>2. IsFiniteSet(CmpRows)
  <2>1. IsFiniteSet(ToSet(CmpPlatforms))
    <3>1. /\ Len(CmpPlatforms) \in Nat /\ DOMAIN CmpPlatforms = 1..Len(CmpPlatforms)
      BY CompareParameters, LenProperties
    <3>2. IsFiniteSet(DOMAIN CmpPlatforms)
      BY <3>1, FS_Interval
    <3>3. IsFiniteSet({CmpPlatforms[i] : i \in DOMAIN CmpPlatforms})
      BY <3>2, ImageFinite
    <3> QED BY <3>3 DEF ToSet
  <2> QED BY <2>1, CompareParameters, FS_Product DEF CmpRows
<1>3. IsFiniteSet(some)
  <2>1. some \in SUBSET CmpRows
    OBVIOUS
  <2> QED BY <1>2, <2>1, FS_Subset
<1>4. IsFiniteSet(rows)
  <2>1. IsFiniteSet({f[row] : row \in some})
    BY <1>3, ImageFinite
  <2>2. {f[row] : row \in some} = rows
    OBVIOUS
  <2> QED BY <2>1, <2>2
<1>5. rows \subseteq CompareRow /\ \A r \in rows : r.test \in CmpTests
  <2> SUFFICES ASSUME NEW row \in some
               PROVE  CounterMap(row, sides[row]) \in CompareRow /\ CounterMap(row, sides[row]).test \in CmpTests
    OBVIOUS
  <2>1. row \in CmpTests \X ToSet(CmpPlatforms) /\ sides[row] \in SUBSET CmpSides
    BY CompareParameters DEF CmpRows
  <2> QED BY <2>1 DEF CounterMap, CompareRow, CmpTables, CmpNames
<1> HIDE DEF rows
<1>6. IsFiniteSet(noise)
  <2>1. IsFiniteSet(Quiet(rows))
    <3>1. Quiet(rows) \in SUBSET rows
      BY DEF Quiet
    <3> QED BY <1>4, <3>1, FS_Subset
  <2> DEFINE g == [r \in Quiet(rows) |-> NoiseOf(NoiseMetric, r.test)]
             h == [r \in Quiet(rows) |-> NoiseOf(NoiseMetric, r.name)]
  <2>2. IsFiniteSet({g[r] : r \in Quiet(rows)})
    BY <2>1, ImageFinite
  <2>3. IsFiniteSet({h[r] : r \in Quiet(rows)})
    BY <2>1, ImageFinite
  <2>4. noise = {g[r] : r \in Quiet(rows)} \/ noise = {h[r] : r \in Quiet(rows)}
    BY DEF NoiseRows
  <2> QED BY <2>2, <2>3, <2>4
<1>7. noise \subseteq CompareRow
  <2>1. \A r \in Quiet(rows) : r.test \in CmpTables /\ r.name \in CmpNames
    BY <1>5 DEF Quiet, CompareRow
  <2>2. \A r \in Quiet(rows) : r.test \in CmpNames
    BY <1>5 DEF Quiet, CmpNames
  <2>3. \A r \in Quiet(rows) : \A n \in CmpNames, t \in CmpTables : NoiseOf(t, n) \in CompareRow
    BY DEF NoiseOf, CompareRow
  <2>4. \A r \in Quiet(rows) : NoiseOf(NoiseMetric, r.test) \in CompareRow /\ NoiseOf(NoiseMetric, r.name) \in CompareRow
    BY <2>1, <2>2, <2>3 DEF CmpTables
  <2> QED BY <2>4 DEF NoiseRows
<1> QED BY <1>1, <1>4, <1>5, <1>6, <1>7, FS_Union

\* What the URL of a comparison can say.
CmpPage == CmpFrameworks \X CmpRanges

CompareTyped ==
    /\ checked \in {"checking", "shown", "errors"}
    /\ compareUrl \in [framework : CmpFrameworks, range : CmpRanges, complete : BOOLEAN, back : Seq(CmpPage)]
    /\ cmpFramework \in CmpFrameworks /\ cmpRange \in CmpRanges
    /\ \A l \in cmpLoads : l.framework \in CmpFrameworks /\ l.range \in CmpRanges
    /\ metrics \subseteq Metrics /\ cmpText \in CmpTests \cup {""} /\ cmpInput \in CmpTests \cup {""}

\* Tables that nothing touches.
LEMMA RowsKept ==
    ASSUME TablesAgree, UNCHANGED <<shownRowVars, metrics, cmpText>>
    PROVE  TablesAgree'
BY DEF TablesAgree, shownRowVars, RowsOf, ListsAll

\* A request is for a framework and a range there are.
LEMMA DataAsked ==
    ASSUME CompareTyped, GetPerformanceData, cmpFramework' \in CmpFrameworks, cmpRange' \in CmpRanges
    PROVE  \A l \in cmpLoads' : l.framework \in CmpFrameworks /\ l.range \in CmpRanges
<1> DEFINE new == [id |-> nCmpLoads', framework |-> cmpFramework', range |-> cmpRange']
<1>1. new.framework \in CmpFrameworks /\ new.range \in CmpRanges
  OBVIOUS
<1>2. cmpLoads' \subseteq cmpLoads \cup {new}
  BY DEF GetPerformanceData
<1> HIDE DEF new
<1> QED BY <1>1, <1>2 DEF CompareTyped

\* So is what the URL says, and what it said before.
LEMMA UrlPushed ==
    ASSUME CompareTyped, PushUrl, cmpFramework' \in CmpFrameworks, cmpRange' \in CmpRanges
    PROVE  compareUrl' \in [framework : CmpFrameworks, range : CmpRanges, complete : BOOLEAN, back : Seq(CmpPage)]
<1>1. <<cmpFramework, cmpRange>> \in CmpPage
  BY DEF CompareTyped, CmpPage
<1>2. Append(compareUrl.back, <<cmpFramework, cmpRange>>) \in Seq(CmpPage)
  BY <1>1, AppendProperties DEF CompareTyped
<1> QED BY <1>2 DEF CompareTyped, PushUrl

\* However the answers, the filters, the texts and the orders follow each other.
LEMMA CompareStep ==
    ASSUME CompareTyped, TablesAgree, [CompareNext]_compareVars
    PROVE  CompareTyped' /\ TablesAgree'
<1> DEFINE Goal == CompareTyped' /\ TablesAgree'
<1>1. CASE UNCHANGED compareVars
  <2>1. UNCHANGED <<shownRowVars, metrics, cmpText>>
    BY <1>1 DEF compareVars, rowVars, cmpFilterVars
  <2>2. CompareTyped'
    BY <1>1 DEF CompareTyped, compareVars, rowVars, cmpFilterVars, cmpUrlVars, cmpDataVars
  <2> QED BY <2>1, <2>2, RowsKept
<1>2. ASSUME NEW found \in BOOLEAN, Validated(found)
      PROVE  Goal
  <2>1. UNCHANGED rowVars /\ UNCHANGED compareUrl
    BY <1>2 DEF Validated, ValidateParams
  <2>2. cmpFramework' \in CmpFrameworks /\ cmpRange' \in CmpRanges /\ checked' \in {"checking", "shown", "errors"}
    BY <1>2 DEF Validated, ValidateParams, CompareTyped
  <2>3. \A l \in cmpLoads' : l.framework \in CmpFrameworks /\ l.range \in CmpRanges
    <3>1. CASE GetPerformanceData
      BY <2>2, <3>1, DataAsked
    <3>2. CASE UNCHANGED cmpLoads
      BY <3>2 DEF CompareTyped
    <3> QED BY <1>2, <3>1, <3>2 DEF Validated
  <2>4. CompareTyped'
    BY <2>1, <2>2, <2>3 DEF CompareTyped, rowVars, cmpFilterVars
  <2> QED BY <2>1, <2>4, RowsKept DEF rowVars, cmpFilterVars
<1>3. ASSUME \/ \E f \in CmpFrameworks : UpdateFramework(f)
             \/ \E t \in CmpRanges : UpdateCmpRange(t)
      PROVE  Goal
  <2>1. UNCHANGED rowVars /\ UNCHANGED checked /\ PushUrl /\ GetPerformanceData
        /\ cmpFramework' \in CmpFrameworks /\ cmpRange' \in CmpRanges
    BY <1>3 DEF UpdateFramework, UpdateCmpRange, CompareTyped
  <2>2. CompareTyped'
    <3>1. \A l \in cmpLoads' : l.framework \in CmpFrameworks /\ l.range \in CmpRanges
      BY <2>1, DataAsked
    <3>2. compareUrl' \in [framework : CmpFrameworks, range : CmpRanges, complete : BOOLEAN, back : Seq(CmpPage)]
      BY <2>1, UrlPushed
    <3> QED BY <2>1, <3>1, <3>2 DEF CompareTyped, rowVars, cmpFilterVars
  <2> QED BY <2>1, <2>2, RowsKept DEF rowVars, cmpFilterVars
<1>4. CASE BackButton
  <2>1. UNCHANGED rowVars /\ UNCHANGED <<checked, cmpFramework, cmpRange, cmpLoads>>
    BY <1>4 DEF BackButton, cmpDataVars
  <2> DEFINE back == compareUrl.back
             page == Last(back)
  <2>2. back \in Seq(CmpPage) /\ back # <<>>
    BY <1>4 DEF BackButton, CompareTyped
  <2>3. Len(back) \in Nat \ {0} /\ DOMAIN back = 1..Len(back)
    BY <2>2, LenProperties, EmptySeq
  <2>4. page \in CmpPage
    BY <2>2, <2>3, ElementOfSeq DEF Last
  <2>5. Front(back) \in Seq(CmpPage)
    BY <2>2, <2>3, PartOfList DEF Front
  <2>6. compareUrl' = [compareUrl EXCEPT !.framework = page[1], !.range = page[2], !.back = Front(back)]
    BY <1>4 DEF BackButton
  <2>7. page[1] \in CmpFrameworks /\ page[2] \in CmpRanges
    BY <2>4 DEF CmpPage
  <2> HIDE DEF back, page
  <2>8. compareUrl' \in [framework : CmpFrameworks, range : CmpRanges, complete : BOOLEAN, back : Seq(CmpPage)]
    BY <2>5, <2>6, <2>7 DEF CompareTyped
  <2>9. CompareTyped'
    BY <2>1, <2>8 DEF CompareTyped, rowVars, cmpFilterVars
  <2> QED BY <2>1, <2>9, RowsKept DEF rowVars, cmpFilterVars
<1>5. ASSUME NEW l \in cmpLoads, DataAnswered(l) \/ DataRefused(l)
      PROVE  Goal
  <2>1. /\ cmpLoads' = cmpLoads \ {l} /\ UNCHANGED cmpFilterVars
        /\ UNCHANGED <<cmpFramework, cmpRange, cmpUrlVars>>
    BY <1>5 DEF DataAnswered, DataRefused, rowVars
  <2>2. CompareTyped'
    BY <2>1 DEF CompareTyped, cmpFilterVars, cmpUrlVars
  <2>3. \/ UNCHANGED shownRowVars
        \/ compareResults' = DisplayResults(l) /\ UpdateFilteredResults
    BY <1>5 DEF DataAnswered, DataRefused, rowVars
  <2>4. TablesAgree'
    <3>1. CASE UNCHANGED shownRowVars
      BY <2>1, <3>1, RowsKept DEF cmpFilterVars
    <3>2. CASE compareResults' = DisplayResults(l) /\ UpdateFilteredResults
      BY <3>2, DisplayTyped, FilteredAgree DEF CompareTyped
    <3> QED BY <2>3, <3>1, <3>2
  <2> QED BY <2>2, <2>4
<1>6. ASSUME NEW m \in Metrics, UpdateCmpFilter(m)
      PROVE  Goal
  <2>1. /\ metrics' \subseteq Metrics /\ UNCHANGED <<compareResults, cmpText, cmpInput, cmpUrlVars, cmpDataVars>>
        /\ UpdateFilteredResults
    BY <1>6 DEF UpdateCmpFilter, CompareTyped
  <2>2. TablesAgree'
    BY <2>1, FilteredAgree DEF TablesAgree
  <2>3. CompareTyped'
    BY <2>1 DEF CompareTyped, cmpUrlVars, cmpDataVars
  <2> QED BY <2>2, <2>3
<1>7. ASSUME NEW text \in CmpTests \cup {""}, UpdateInput(text)
      PROVE  Goal
  <2>1. /\ cmpInput' = text /\ UNCHANGED <<compareResults, metrics, cmpUrlVars, cmpDataVars>>
        /\ cmpText' = IF text = "" THEN text ELSE cmpText
        /\ IF text = "" /\ (cmpText # "" \/ metrics # {}) THEN UpdateFilteredResults
           ELSE UNCHANGED <<results, tables>>
    BY <1>7 DEF UpdateInput
  <2>2. CompareTyped'
    BY <2>1 DEF CompareTyped, cmpUrlVars, cmpDataVars
  <2>3. TablesAgree'
    <3>1. CASE UpdateFilteredResults
      BY <2>1, <3>1, FilteredAgree DEF TablesAgree
    <3>2. CASE UNCHANGED <<results, tables, cmpText>>
      BY <2>1, <3>2, RowsKept DEF shownRowVars
    <3> QED BY <2>1, <3>1, <3>2
  <2> QED BY <2>2, <2>3
<1>8. CASE TypingStopped
  <2>1. /\ cmpText' = cmpInput /\ UNCHANGED <<compareResults, metrics, cmpInput, cmpUrlVars, cmpDataVars>>
        /\ UpdateFilteredResults
    BY <1>8 DEF TypingStopped
  <2>2. CompareTyped'
    BY <2>1 DEF CompareTyped, cmpUrlVars, cmpDataVars
  <2> QED BY <2>1, <2>2, FilteredAgree DEF TablesAgree
<1>9. ASSUME NEW t \in DOMAIN tables, NEW c \in Columns, OnChangeSort(t, c)
      PROVE  Goal
  <2> DEFINE next == NextSort[tables[t].sort[c]]
             list == Sorted(InOrder(RowsOf(results, t)), c, next)
  <2>1. /\ tables' = [tables EXCEPT ![t] = [data |-> list, sort |-> [UnsortedTable EXCEPT ![c] = next]]]
        /\ UNCHANGED <<compareResults, results, cmpFilterVars, cmpUrlVars, cmpDataVars>>
    BY <1>9 DEF OnChangeSort
  <2>2. ListsAll(list, RowsOf(results, t))
    <3>1. results \in SUBSET compareResults
      BY DEF TablesAgree
    <3>2. IsFiniteSet(results) /\ results \subseteq CompareRow
      BY <3>1, FS_Subset DEF TablesAgree
    <3>3. RowsOf(results, t) \subseteq CompareRow /\ IsFiniteSet(RowsOf(results, t))
      BY <3>2, RowsFinite
    <3> QED BY <3>3, InOrderLists, SortedLists
  <2>3. next \in {"default", "ascending", "descending"}
    <3>1. tables[t].sort[c] \in {"default", "ascending", "descending"}
      BY DEF TablesAgree
    <3>2. /\ NextSort["default"] = "ascending" /\ NextSort["ascending"] = "descending"
          /\ NextSort["descending"] = "default"
      BY DEF NextSort
    <3> QED BY <3>1, <3>2
  <2>4. [UnsortedTable EXCEPT ![c] = next] \in [Columns -> {"default", "ascending", "descending"}]
    BY <2>3 DEF UnsortedTable
  <2> HIDE DEF list, next
  <2>5. /\ DOMAIN tables' = DOMAIN tables
        /\ \A u \in DOMAIN tables' :
             /\ ListsAll(tables'[u].data, RowsOf(results, u))
             /\ tables'[u].sort \in [Columns -> {"default", "ascending", "descending"}]
    BY <2>1, <2>2, <2>4 DEF TablesAgree
  <2>6. \A u : ListsAll(tables[u].data, RowsOf(results, u))' <=> ListsAll(tables'[u].data, RowsOf(results, u))
    BY <2>1 DEF ListsAll, RowsOf
  <2>7. TablesAgree'
    BY <2>1, <2>5, <2>6 DEF TablesAgree, cmpFilterVars
  <2>8. CompareTyped'
    BY <2>1 DEF CompareTyped, cmpFilterVars, cmpUrlVars, cmpDataVars
  <2> QED BY <2>7, <2>8
<1>10. ASSUME \/ OnOpened \/ ToggleRetriggerModal \/ UpdateAndClose
              \/ \E r \in results : OnModalOpen(r)
              \/ \E s \in CmpSides, n \in {0, 2}, valid \in BOOLEAN : HandleChange(s, n, valid)
       PROVE  Goal
  <2>1. UNCHANGED <<cmpUrlVars, cmpDataVars, rowVars>>
    BY <1>10 DEF OnOpened, ToggleRetriggerModal, UpdateAndClose, OnModalOpen, HandleChange
  <2>2. CompareTyped'
    BY <2>1 DEF CompareTyped, cmpUrlVars, cmpDataVars, rowVars, cmpFilterVars
  <2> QED BY <2>1, <2>2, RowsKept DEF rowVars, cmpFilterVars
<1> QED BY <1>1, <1>2, <1>3, <1>4, <1>5, <1>6, <1>7, <1>8, <1>9, <1>10 DEF CompareNext

\* The comparison starts without rows.
LEMMA CompareStart == CompareInit => CompareTyped /\ TablesAgree
<1> SUFFICES ASSUME CompareInit PROVE CompareTyped /\ TablesAgree
  OBVIOUS
<1>1. CompareTyped
  <2>1. <<>> \in Seq(CmpPage)
    OBVIOUS
  <2> QED BY <2>1 DEF CompareInit, CompareTyped, Metrics
<1>2. TablesAgree
  <2>1. compareResults = {} /\ results = {} /\ tables = <<>>
    BY Zenon DEF CompareInit
  <2>2. DOMAIN tables = {}
    BY <2>1
  <2> QED BY <2>1, <2>2, FS_EmptySet DEF TablesAgree
<1> QED BY <1>1, <1>2

\* The tables of a comparison agree with its filters throughout.
THEOREM CompareAgrees == CompareSpec => [](CompareTyped /\ TablesAgree)
BY CompareStart, CompareStep, PTL DEF CompareSpec

\* Then they show each row that passes the filters, and no other.
LEMMA TablesShow == TablesAgree => TablesShowFiltered
<1> SUFFICES ASSUME TablesAgree, NEW t \in CmpTests \cup {NoiseMetric}
             PROVE  (IF t \in DOMAIN tables THEN ToSet(tables[t].data) ELSE {})
                      = {r \in compareResults : r.test = t /\ Passes(r, metrics, cmpText)}
  BY DEF TablesShowFiltered
<1>1. RowsOf(results, t) = {r \in compareResults : r.test = t /\ Passes(r, metrics, cmpText)}
  BY DEF RowsOf, TablesAgree
<1>2. t \in DOMAIN tables => ToSet(tables[t].data) = RowsOf(results, t)
  BY DEF TablesAgree, ListsAll
<1>3. t \notin DOMAIN tables => RowsOf(results, t) = {}
  BY DEF TablesAgree, RowsOf
<1> QED BY <1>1, <1>2, <1>3

\* The types of the comparison.
LEMMA CompareTypes == CompareTyped /\ TablesAgree => CompareTypeOK
BY DEF CompareTyped, TablesAgree, CompareTypeOK

-----------------------------------------------------------------------------
(* The form that starts one.                                               *)

\* What can be typed into the input of a revision.
Typable == ChooserRevisions \cup {"", ShortRevision}
RevisionsTyped == ChooserTypeOK /\ \A q \in recentLoads : q.card \in Cards /\ q.revision \in Typable

\* An input, whether or not it is a revision.
LEMMA InputTyped ==
    ASSUME RevisionsTyped, NEW c \in Cards, NEW value \in Typable, NEW cs, ValidateInput(c, value, cs)
    PROVE  /\ revision' \in [Cards -> Typable]
           /\ disableButton' \in BOOLEAN /\ missingRevision' \in BOOLEAN
<1>1. /\ revision \in [Cards -> Typable] /\ disableButton \in BOOLEAN /\ missingRevision \in BOOLEAN
  BY Zenon DEF RevisionsTyped, ChooserTypeOK, Typable
<1>2. revision' = [revision EXCEPT ![c] = value]
  BY Zenon DEF ValidateInput
<1>3. disableButton' = TRUE \/ disableButton' = FALSE
  BY Zenon DEF ValidateInput
<1>4. missingRevision' = FALSE \/ missingRevision' = missingRevision
  BY Zenon DEF ValidateInput
<1> QED BY <1>1, <1>2, <1>3, <1>4

\* Projects are chosen and revisions chosen or typed, and answers may be late.
LEMMA ChooserStep ==
    ASSUME RevisionsTyped, [ChooserNext]_chooserVars
    PROVE  RevisionsTyped'
<1> DEFINE Loads == \A q \in recentLoads' : q.card \in Cards /\ q.revision \in Typable
           Types == /\ project' \in [Cards -> ChooserProjects] /\ revision' \in [Cards -> Typable]
                    /\ disableButton' \in BOOLEAN /\ missingRevision' \in BOOLEAN /\ chooserError' \in BOOLEAN
<1>1. /\ project \in [Cards -> ChooserProjects] /\ revision \in [Cards -> Typable]
      /\ disableButton \in BOOLEAN /\ missingRevision \in BOOLEAN /\ chooserError \in BOOLEAN
      /\ \A q \in recentLoads : q.card \in Cards /\ q.revision \in Typable
  BY Zenon DEF RevisionsTyped, ChooserTypeOK, Typable
<1>2. Loads /\ Types => RevisionsTyped'
  BY Zenon DEF RevisionsTyped, ChooserTypeOK, Typable
<1> HIDE DEF Loads, Types
<1> SUFFICES Loads /\ Types
  BY <1>2
<1> USE DEF Loads, Types
<1>3. CASE UNCHANGED chooserVars
  BY <1>1, <1>3 DEF chooserVars, pageVars, chooserReqVars
<1>4. ASSUME NEW c \in Cards, NEW p \in ChooserProjects, UpdateRevisions(c, p)
      PROVE  Loads /\ Types
  <2> DEFINE new == [id |-> nRecentLoads', card |-> c, project |-> p, revision |-> revision[c]]
  <2>1. /\ recentLoads' = recentLoads \cup {new} /\ project' = [project EXCEPT ![c] = p]
        /\ UNCHANGED <<revision, disableButton, missingRevision, chooserError>>
    BY <1>4 DEF UpdateRevisions, FetchRevisions
  <2>2. new.card \in Cards /\ new.revision \in Typable
    BY <1>1
  <2> HIDE DEF new
  <2>3. Loads
    BY <1>1, <2>1, <2>2
  <2>4. Types
    BY <1>1, <2>1
  <2> QED BY <2>3, <2>4
<1>5. ASSUME NEW c \in Cards, NEW r \in ChooserRevisions, SelectRevision(c, r)
      PROVE  Loads /\ Types
  <2>1. r \in Typable
    BY Zenon DEF Typable
  <2>2. /\ revision' = [revision EXCEPT ![c] = r] /\ disableButton' = FALSE /\ missingRevision' = FALSE
        /\ UNCHANGED <<recentLoads, project, chooserError>>
    BY <1>5 DEF SelectRevision, chooserReqVars
  <2> QED BY <1>1, <2>1, <2>2
<1>6. ASSUME NEW c \in Cards, NEW r \in Typable, TypeRevision(c, r)
      PROVE  Loads /\ Types
  <2>1. ValidateInput(c, r, cards) /\ UNCHANGED <<recentLoads, project, chooserError>>
    BY <1>6 DEF TypeRevision
  <2>2. revision' \in [Cards -> Typable] /\ disableButton' \in BOOLEAN /\ missingRevision' \in BOOLEAN
    BY <2>1, InputTyped
  <2> QED BY <1>1, <2>1, <2>2
<1>7. ASSUME NEW c \in Cards, FocusRevision(c)
      PROVE  Loads /\ Types
  BY <1>1, <1>7 DEF FocusRevision, pageVars, chooserReqVars
<1>8. ASSUME NEW q \in recentLoads, RecentAnswered(q)
      PROVE  Loads /\ Types
  <2> DEFINE cs == [cards EXCEPT ![q.card].recent = q.project, ![q.card].disabled = FALSE]
  <2>1. /\ recentLoads' = recentLoads \ {q} /\ UNCHANGED <<project, chooserError>>
        /\ \/ ValidateInput(q.card, q.revision, cs)
           \/ UNCHANGED <<revision, disableButton, missingRevision>>
    BY <1>8, Zenon DEF RecentAnswered
  <2>2. q.card \in Cards /\ q.revision \in Typable
    BY <1>1
  <2> HIDE DEF cs
  <2>3. revision' \in [Cards -> Typable] /\ disableButton' \in BOOLEAN /\ missingRevision' \in BOOLEAN
    BY <1>1, <2>1, <2>2, InputTyped
  <2> QED BY <1>1, <2>1, <2>3
<1>9. ASSUME NEW q \in recentLoads, RecentRefused(q)
      PROVE  Loads /\ Types
  BY <1>1, <1>9 DEF RecentRefused
<1>13. ASSUME NEW q \in recentLoads, RecentThrows(q)
       PROVE  Loads /\ Types
  BY <1>1, <1>13 DEF RecentThrows, pageVars
<1>10. ASSUME NEW q \in lookups, LookupAnswered(q) \/ LookupRefused(q) \/ LookupThrows(q)
       PROVE  Loads /\ Types
  <2>1. /\ UNCHANGED <<recentLoads, project, revision, chooserError>>
        /\ disableButton' = FALSE \/ disableButton' = disableButton
        /\ missingRevision' = FALSE \/ missingRevision' = missingRevision
    BY <1>10 DEF LookupAnswered, LookupRefused, LookupThrows, pageVars
  <2> QED BY <1>1, <2>1
<1>11. ASSUME (\E f \in {0, 1} : ChooseFramework(f)) \/ SubmitData
       PROVE  Loads /\ Types
  <2>1. /\ UNCHANGED <<recentLoads, project, revision, disableButton, chooserError>>
        /\ missingRevision' = TRUE \/ missingRevision' = missingRevision
    BY <1>11, Zenon DEF ChooseFramework, SubmitData, chooserReqVars
  <2> QED BY <1>1, <2>1
<1>12. ChooserNext => \/ \E c \in Cards, r \in Typable : TypeRevision(c, r)
                      \/ \E c \in Cards : \/ \E p \in ChooserProjects : UpdateRevisions(c, p)
                                          \/ \E r \in ChooserRevisions : SelectRevision(c, r)
                                          \/ FocusRevision(c)
                      \/ \E q \in recentLoads : RecentAnswered(q) \/ RecentRefused(q) \/ RecentThrows(q)
                      \/ \E q \in lookups : LookupAnswered(q) \/ LookupRefused(q) \/ LookupThrows(q)
                      \/ (\E f \in {0, 1} : ChooseFramework(f)) \/ SubmitData
  BY Zenon DEF ChooserNext, Typable
<1> QED BY <1>3, <1>4, <1>5, <1>6, <1>7, <1>8, <1>9, <1>10, <1>11, <1>12, <1>13

\* The form starts with what the URL gives it.
LEMMA ChooserStart == ChooserInit => RevisionsTyped
<1> SUFFICES ASSUME ChooserInit PROVE RevisionsTyped
  OBVIOUS
<1>1. project \in [Cards -> ChooserProjects]
  BY Zenon DEF ChooserInit
<1>2. revision \in [Cards -> Typable]
  <2>1. [c \in Cards |-> ""] \in [Cards -> Typable] /\ [Cards -> ChooserRevisions] \subseteq [Cards -> Typable]
    BY Zenon DEF Typable
  <2> QED BY <2>1, Zenon DEF ChooserInit
<1>3. disableButton = TRUE /\ missingRevision = FALSE /\ chooserError = FALSE
  BY Zenon DEF ChooserInit
<1>4. recentLoads = {[id |-> 0, card |-> c, project |-> project[c], revision |-> revision[c]] : c \in Cards}
  BY Zenon DEF ChooserInit
<1>5. \A q \in recentLoads : q.card \in Cards /\ q.revision \in Typable
  BY <1>2, <1>4
<1>6. {disableButton, missingRevision, chooserError} \subseteq BOOLEAN
  BY <1>3
<1> QED BY <1>1, <1>2, <1>5, <1>6, Zenon DEF RevisionsTyped, ChooserTypeOK, Typable

\* The types of the form.
LEMMA ChooserTypes == ChooserSpec => []ChooserTypeOK
<1>1. RevisionsTyped => ChooserTypeOK
  BY DEF RevisionsTyped
<1> QED BY <1>1, ChooserStart, ChooserStep, PTL DEF ChooserSpec
=============================================================================
