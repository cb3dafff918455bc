----------------------------- MODULE JobFilters -----------------------------
(***************************************************************************)
(* The filters of the jobs view (models/filter.js): they are kept in the   *)
(* URL without those that are the default, and read back from it each time *)
(* it changes.  With them, the two counts of unclassified failures, which  *)
(* are counted again when the filters of the URL change                    *)
(* (SecondaryNavBar.jsx) and when jobs do, and the keys that go from one   *)
(* shown job to the next (changeJob).                                      *)
(***************************************************************************)
EXTENDS Integers, FiniteSets, Lists

CONSTANTS
    ListedJobs,     \* the jobs in the order of the push list
    StatusOf,       \* resultStatus of each job
    WordsOf,        \* the words that match each job
    Words,          \* words to search for
    MaxFilterMoves  \* what the user does

Statuses == {"testfailed", "retry", "success", "running", "runnable", "superseded"}
ASSUME FilterParameters ==
    /\ ListedJobs \in Seq(ToSet(ListedJobs))
    /\ StatusOf \in [ToSet(ListedJobs) -> Statuses]
    /\ WordsOf \in [ToSet(ListedJobs) -> SUBSET Words]
    /\ MaxFilterMoves \in Nat

VARIABLES
    filters,     \* filterModel.urlParams
    statusText,  \* is its resultStatus a string, not an array?
    filterUrl,   \* those of the URL; empty for a filter it does not name
    classified,  \* the classified jobs
    counts,      \* allUnclassifiedFailureCount, filteredUnclassifiedFailureCount
    storeJob,    \* the selected job of the store
    boldJob,     \* the job that is shown as selected
    hasPinned,   \* whether jobs are pinned
    filterMoves

filterVars == <<filters, statusText, filterUrl, classified, counts, storeJob, boldJob, hasPinned, filterMoves>>
jobVars == <<classified, storeJob, boldJob, hasPinned>>

NoneSelected == "none"
Letters == "s,u,p,e,r,d"                \* what that string is spread to
Failures == {"testfailed"}              \* thFailureResults
ClassifiedResults == {"testfailed", "retry"}
Groups == {Failures, {"success"}, {"retry"}, {"superseded"}, {"running"}}
Both == {"classified", "unclassified"}
Params == {"status", "state", "search", "field"}
Defaults == [status |-> Statuses \ {"superseded"}, state |-> Both, search |-> {}, field |-> {}]
NoParams == [p \in Params |-> {}]
FilterMove == filterMoves < MaxFilterMoves /\ filterMoves' = filterMoves + 1

-----------------------------------------------------------------------------
\* matchesDefaults, getUrlParamsWithoutDefaults.
MatchesDefaults(p, v) == v = Defaults[p]
\* Mutation: the classified states are left out of the URL.
FormatStatusOnly(f) == [p \in Params |-> IF p = "state" \/ MatchesDefaults(p, f[p]) THEN {} ELSE f[p]]
Format(f) == [p \in Params |-> IF MatchesDefaults(p, f[p]) THEN {} ELSE f[p]]
\* getFilterUrlParamsWithDefaults
Parse(url) == [p \in Params |-> IF url[p] = {} THEN Defaults[p] ELSE url[p]]

\* showJob: runnable jobs are shown whatever the checkboxes say; one word of a
\* field has to match, and all words of the search.
Unclassified(j, C) == j \notin C
ShowJob(f, C, j) ==
    /\ StatusOf[j] # "runnable" =>
           /\ StatusOf[j] \in f.status
           /\ (IF Unclassified(j, C) THEN "unclassified" ELSE "classified") \in f.state
    /\ f.search \subseteq WordsOf[j]
    /\ f.field # {} => f.field \cap WordsOf[j] # {}

\* doRecalculateUnclassifiedCounts
UnclassifiedFailures(C) == {j \in ToSet(ListedJobs) : StatusOf[j] \in Failures /\ Unclassified(j, C)}
Recalculate(f, C) ==
    [all |-> Cardinality(UnclassifiedFailures(C)),
     filtered |-> Cardinality({j \in UnclassifiedFailures(C) : ShowJob(f, C, j)})]

\* Mutation: only a change of the statuses is noticed.
OnlyStatusChanges(old, new) == old.status # new.status
\* The URL is pushed; when it changed, a new filter model is read from it and
\* the counts are made again.
HasUrlFilterChanges(old, new) == old # new
PushFilters(f) ==
    /\ FilterMove
    /\ filterUrl' = Format(f)
    /\ filters' = IF filterUrl' # filterUrl THEN Parse(filterUrl') ELSE f
    /\ counts' = IF HasUrlFilterChanges(filterUrl, filterUrl') THEN Recalculate(filters', classified)
                 ELSE counts
    /\ UNCHANGED jobVars

-----------------------------------------------------------------------------
\* A new model has arrays; the one that stays has what was set.
SetStatusText(text) == statusText' = (text /\ filterUrl' = filterUrl)

\* toggleResultStatuses, of a menu item, a chicklet, or both states in progress.
\* The statuses of a string are its letters; taking one away from it throws.
ToggleResultStatuses(S) ==
    LET shown == IF statusText THEN {Letters} ELSE filters.status IN
    /\ ~(statusText /\ S \subseteq filters.status)
    /\ PushFilters([filters EXCEPT !.status = IF S \subseteq shown THEN shown \ S ELSE shown \cup S])
    /\ SetStatusText(FALSE)

SetNonField(status, state) == PushFilters([filters EXCEPT !.status = status, !.state = state])
SetLists(status, state) == SetNonField(status, state) /\ SetStatusText(FALSE)
ResetNonFieldFilters == SetLists(Defaults.status, Defaults.state)
IsUnclassifiedFailures == filters.status = Failures /\ filters.state = {"unclassified"}
ToggleUnclassifiedFailures ==
    IF IsUnclassifiedFailures THEN ResetNonFieldFilters ELSE SetLists(Failures, {"unclassified"})
IsClassifiedFailures(showUnclassified) ==
    /\ filters.status = ClassifiedResults
    /\ filters.state = IF showUnclassified THEN Both ELSE {"classified"}
ToggleClassifiedFailures(showUnclassified) ==
    IF ~IsClassifiedFailures(showUnclassified)
    THEN SetLists(ClassifiedResults, IF showUnclassified THEN Both ELSE {"classified"})
    ELSE IF showUnclassified THEN ToggleUnclassifiedFailures ELSE ResetNonFieldFilters
\* A string for the statuses, which the model keeps if the URL named it before.
SetOnlySuperseded == SetNonField({"superseded"}, Defaults.state) /\ SetStatusText(TRUE)
\* `All jobs` of the menu.
AllJobs ==
    IF filters.status = Defaults.status /\ filters.state = Both
    THEN ToggleClassifiedFailures(TRUE) ELSE ResetNonFieldFilters

\* A field filter; what is typed is split into words when it is read back.
SetWords(f) == PushFilters(f) /\ SetStatusText(statusText)
AddFilter(words) == SetWords([filters EXCEPT !.field = @ \cup words])
RemoveFilter(word) == word \in filters.field /\ SetWords([filters EXCEPT !.field = @ \ {word}])
\* The search box, by Enter; clearing it.
Search(words) == SetWords([filters EXCEPT !.search = words])
\* clearNonStatusFilters
ClearNonStatusFilters == SetWords([filters EXCEPT !.search = {}, !.field = {}])

\* Back, a link, or a URL typed in.
Visit(url) ==
    /\ FilterMove
    /\ filterUrl' = url
    /\ filters' = IF url # filterUrl THEN Parse(url) ELSE filters
    /\ counts' = IF HasUrlFilterChanges(filterUrl, url) THEN Recalculate(filters', classified)
                 ELSE counts
    /\ SetStatusText(statusText)
    /\ UNCHANGED jobVars

\* A job is classified: updateJobMap and recalculateUnclassifiedCounts.
Reclassify(j) ==
    /\ FilterMove
    /\ classified' = IF j \in classified THEN classified \ {j} ELSE classified \cup {j}
    /\ counts' = Recalculate(filters, classified')
    /\ UNCHANGED <<filters, statusText, filterUrl, storeJob, boldJob, hasPinned>>

-----------------------------------------------------------------------------
(* Going from job to job.                                                  *)

\* The jobs to choose from: those shown, and the one shown as selected even if
\* it is not any more.
JobChoices(only) ==
    Keep(ListedJobs, {j \in ToSet(ListedJobs) :
        \/ j = boldJob
        \/ ShowJob(filters, classified, j) /\ (only => j \in UnclassifiedFailures(classified))})
Position(seq, j) == IF j \in ToSet(seq) THEN CHOOSE i \in 1 .. Len(seq) : seq[i] = j ELSE 0
\* getIndex wraps end to end; no selection comes before the first and, going
\* back, before the last.
NextIndex(i, n) == IF i + 1 > n THEN 1 ELSE i + 1
PreviousIndex(i, n) == IF i - 1 < 1 THEN n ELSE i - 1

\* changeSelectedJob: the next job is selected; without one, the mark of the
\* selected job goes, unless jobs are pinned, and the store is left alone.
ChangeJob(direction, only) ==
    LET jobs == JobChoices(only)
        at == Position(jobs, boldJob)
        to == IF direction = "next" THEN NextIndex(at, Len(jobs)) ELSE PreviousIndex(at, Len(jobs))
    IN  /\ FilterMove
        /\ IF jobs # <<>> /\ to # at
           THEN boldJob' = jobs[to] /\ storeJob' = jobs[to]
           ELSE /\ boldJob' = IF hasPinned THEN boldJob ELSE NoneSelected
                /\ UNCHANGED storeJob
        /\ UNCHANGED <<filters, statusText, filterUrl, classified, counts, hasPinned>>

SelectShown(j) ==
    /\ FilterMove
    /\ ShowJob(filters, classified, j)
    /\ boldJob' = j /\ storeJob' = j
    /\ UNCHANGED <<filters, statusText, filterUrl, classified, counts, hasPinned>>
\* Escape, and the cross of the panel.
ClearScreen ==
    /\ FilterMove /\ ~hasPinned
    /\ boldJob' = NoneSelected /\ storeJob' = NoneSelected
    /\ UNCHANGED <<filters, statusText, filterUrl, classified, counts, hasPinned>>
TogglePinned ==
    /\ FilterMove
    /\ hasPinned' = ~hasPinned
    /\ UNCHANGED <<filters, statusText, filterUrl, classified, counts, storeJob, boldJob>>

-----------------------------------------------------------------------------
FilterInit ==
    /\ filters = Defaults /\ statusText = FALSE /\ filterUrl = NoParams
    /\ classified = {} /\ counts = Recalculate(Defaults, {})
    /\ storeJob = NoneSelected /\ boldJob = NoneSelected /\ hasPinned = FALSE
    /\ filterMoves = 0

FilterNext ==
    \/ \E S \in Groups : ToggleResultStatuses(S)
    \/ ToggleUnclassifiedFailures \/ \E b \in BOOLEAN : ToggleClassifiedFailures(b)
    \/ SetOnlySuperseded \/ AllJobs \/ ResetNonFieldFilters
    \/ \E V \in SUBSET Words \ {{}} : AddFilter(V)
    \/ \E w \in Words : RemoveFilter(w)
    \/ \E V \in SUBSET Words : Search(V)
    \/ ClearNonStatusFilters
    \/ Visit([NoParams EXCEPT !.state = {"unclassified"}]) \/ Visit([NoParams EXCEPT !.field = Words])
    \/ \E j \in ToSet(ListedJobs) : Reclassify(j) \/ SelectShown(j)
    \/ \E d \in {"next", "previous"}, b \in BOOLEAN : ChangeJob(d, b)
    \/ ClearScreen \/ TogglePinned

FilterSpec == FilterInit /\ [][FilterNext]_filterVars

-----------------------------------------------------------------------------
FilterTypeOK ==
    /\ DOMAIN filters = Params /\ DOMAIN filterUrl = Params
    /\ filters.status \subseteq Statuses \cup {Letters} /\ statusText \in BOOLEAN
    /\ classified \subseteq ToSet(ListedJobs)
    /\ counts \in [all : 0 .. Len(ListedJobs), filtered : 0 .. Len(ListedJobs)]
    /\ {storeJob, boldJob} \subseteq ToSet(ListedJobs) \cup {NoneSelected} /\ hasPinned \in BOOLEAN

\* The URL says what is filtered: whoever opens it sees the same jobs, whichever
\* menu, chicklet, key, box or link the filters were set with.
UrlSaysAll == filters = Parse(filterUrl)

\* The counts in the bar are those of the filters and classifications of now.
CountsCurrent == counts = Recalculate(filters, classified)
=============================================================================
