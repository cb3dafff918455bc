----------------------------- MODULE BugFiling -----------------------------
(***************************************************************************)
(* The failure summary of the selected job and the dialog that files a bug *)
(* for one of its failures (FailureSummaryTab.jsx, SuggestionsListItem.jsx,*)
(* BugFiler.jsx).  The dialog is made anew each time it opens; what it     *)
(* asked for goes on when it is closed, and answers turn the flag that     *)
(* shows it over.                                                          *)
(***************************************************************************)
EXTENDS Integers, FiniteSets

CONSTANTS
    FilerJobs,       \* jobs that failed
    Products,        \* product and component pairs
    BugLimit,        \* thBugSuggestionLimit
    MaxFilerMoves,   \* what the user does
    MaxSuggestLoads, MaxSearches, MaxOpens, MaxFilings

ASSUME FilerBounds ==
    /\ BugLimit \in Nat
    /\ {MaxFilerMoves, MaxSuggestLoads, MaxSearches, MaxOpens, MaxFilings} \subseteq Nat

VARIABLES
    failedJob,      \* the selected job
    suggestLoads,   \* loadBugSuggestions under way: id, job, step
    suggestions,    \* what is shown: of which job, and how many bugs each list has
    errorsOf,       \* the job whose raw errors are shown, or none
    showMore,       \* suggestionShowMore
    filer,          \* the dialog: 0, or the number of the one that is open
    filerFor,       \* the job whose suggestion it was opened for
    form,           \* state of the dialog
    keywords,       \* keywords of each dialog: an array of its state, pushed to
    searches,       \* product searches of the open dialog, under way
    background,     \* the requests for metadata that findProduct leaves behind
    filings,        \* submitFiler under way: dialog, product, step
    filed,          \* the bugs filed
    board,          \* the pinboard: jobs, bugs
    filerMoves, nLoads, nSearches, nOpens, nFilings

summaryVars == <<failedJob, suggestLoads, suggestions, errorsOf, showMore, nLoads>>
searchVars == <<searches, background, nSearches>>
filingVars == <<filings, filed, nFilings>>
filerVars == <<summaryVars, filer, filerFor, form, keywords, searchVars, filingVars, board,
               filerMoves, nOpens>>

NoFiledJob == "none"
NoProduct == "none"
Sizes == 0 .. BugLimit + 1
FilerMove == filerMoves < MaxFilerMoves /\ filerMoves' = filerMoves + 1
NewForm == [product |-> NoProduct, offered |-> {}, term |-> FALSE, searching |-> FALSE,
            tooLong |-> FALSE, intermittent |-> TRUE, regressed |-> FALSE]

-----------------------------------------------------------------------------
(* Suggestions.                                                            *)

TooMany(n) == n > BugLimit
ValidOpenRecent(s) == s.open > 0 /\ ~TooMany(s.open)
ValidAllOthers(s) == s.others > 0 /\ ~TooMany(s.others) /\ ~TooMany(s.open)

\* What SuggestionsListItem shows of a suggestion.
Listed(s, more) ==
    (IF ValidOpenRecent(s) THEN {"open"} ELSE {}) \cup
    (IF ValidOpenRecent(s) /\ ValidAllOthers(s) THEN {"more"} ELSE {}) \cup
    (IF ValidAllOthers(s) /\ (more \/ ~ValidOpenRecent(s)) THEN {"others"} ELSE {})
TooManyShown(s) == TooMany(s.open) \/ (TooMany(s.others) /\ ~ValidOpenRecent(s))

LoadSuggestions(j) ==
    /\ nLoads < MaxSuggestLoads /\ nLoads' = nLoads + 1
    /\ suggestLoads' = suggestLoads \cup {[id |-> nLoads', job |-> j, step |-> "suggestions"]}

\* Another job is selected; no modal dialog is open then.  What was shown of
\* the job before stays until the answer, and nothing cancels a request.
SelectFailed(j) ==
    /\ FilerMove /\ filer = 0 /\ j # failedJob
    /\ failedJob' = j
    /\ LoadSuggestions(j)
    /\ UNCHANGED <<suggestions, errorsOf, showMore, filer, filerFor, form, keywords, searchVars,
                   filingVars, board, nOpens>>

\* With no suggestions, the raw errors of the log are asked for.
SuggestionsAnswered(l, open, others) ==
    /\ l.step = "suggestions"
    /\ IF open + others = 0
       THEN \/ /\ suggestLoads' = (suggestLoads \ {l}) \cup {[l EXCEPT !.step = "errors"]}
               /\ UNCHANGED suggestions
            \/ /\ suggestLoads' = suggestLoads \ {l}        \* a failure without bugs
               /\ suggestions' = [job |-> l.job, open |-> 0, others |-> 0]
       ELSE /\ suggestLoads' = suggestLoads \ {l}
            /\ suggestions' = [job |-> l.job, open |-> open, others |-> others]
    /\ UNCHANGED <<failedJob, errorsOf, showMore, nLoads, filer, filerFor, form, keywords,
                   searchVars, filingVars, board, filerMoves, nOpens>>
ErrorsAnswered(l, some) ==
    /\ l.step = "errors"
    /\ suggestLoads' = suggestLoads \ {l}
    /\ suggestions' = [job |-> NoFiledJob, open |-> 0, others |-> 0]
    /\ errorsOf' = IF some THEN l.job ELSE errorsOf
    /\ UNCHANGED <<failedJob, showMore, nLoads, filer, filerFor, form, keywords, searchVars,
                   filingVars, board, filerMoves, nOpens>>
ClickShowMore ==
    /\ FilerMove /\ filer = 0 /\ "more" \in Listed(suggestions, showMore)
    /\ showMore' = ~showMore
    /\ UNCHANGED <<failedJob, suggestLoads, suggestions, errorsOf, nLoads, filer, filerFor, form,
                   keywords, searchVars, filingVars, board, nOpens>>

-----------------------------------------------------------------------------
(* The dialog.                                                             *)

\* What it is when it opens; an assertion in the summary is a keyword.
OpenFiler(assertion) ==
    /\ nOpens < MaxOpens /\ nOpens' = nOpens + 1
    /\ filer' = nOpens'
    /\ form' = NewForm
    /\ keywords' = [keywords EXCEPT ![nOpens'] = IF assertion THEN {"assertion"} ELSE {}]
    /\ searches' = {}
    /\ UNCHANGED <<background, nSearches>>
CloseFiler ==
    /\ filer' = 0 /\ form' = NewForm /\ searches' = {}
    /\ UNCHANGED <<keywords, background, nSearches, nOpens>>
ToggleBugFiler == IF filer = 0 THEN \E b \in BOOLEAN : OpenFiler(b) ELSE CloseFiler

\* fileBug: pins the selected job, whichever job the suggestion is of.
FileBug ==
    /\ FilerMove /\ filer = 0 /\ suggestions.job # NoFiledJob
    /\ board' = [board EXCEPT !.jobs = @ \cup {failedJob}]
    /\ filerFor' = suggestions.job
    /\ \E b \in BOOLEAN : OpenFiler(b)
    /\ UNCHANGED <<summaryVars, filingVars>>
CancelFiler ==
    /\ FilerMove /\ filer # 0
    /\ CloseFiler
    /\ UNCHANGED <<summaryVars, filerFor, filingVars, board>>

EditForm(f) ==
    /\ FilerMove /\ filer # 0
    /\ form' = f
    /\ UNCHANGED <<summaryVars, filer, filerFor, keywords, searchVars, filingVars, board, nOpens>>
PickProduct(p) == p \in form.offered /\ EditForm([form EXCEPT !.product = p])
EditSummary == EditForm([form EXCEPT !.tooLong = ~@])
TickIntermittent == EditForm([form EXCEPT !.intermittent = ~@])
EditRegressedBy == EditForm([form EXCEPT !.regressed = ~@])
EditSearch == EditForm([form EXCEPT !.term = ~@])

\* findProduct with a term waits for the answer.  Without one, it starts the
\* search by metadata, whose answers nothing uses, and finds nothing.
Found(P, first) == [form EXCEPT !.offered = P, !.product = first, !.searching = FALSE]
FindProduct ==
    /\ filer # 0 /\ nSearches < MaxSearches /\ nSearches' = nSearches + 1
    /\ IF form.term
       THEN /\ searches' = searches \cup {nSearches'}
            /\ form' = [form EXCEPT !.searching = TRUE]
            /\ UNCHANGED background
       ELSE /\ background' = background + 1
            /\ form' = Found({}, NoProduct)
            /\ UNCHANGED searches
    /\ UNCHANGED <<summaryVars, filer, filerFor, keywords, filingVars, board, filerMoves, nOpens>>
ProductsFound(s, P) ==
    /\ searches' = searches \ {s}
    /\ \E first \in IF P = {} THEN {NoProduct} ELSE P : form' = Found(P, first)
    /\ UNCHANGED <<background, nSearches, summaryVars, filer, filerFor, keywords, filingVars, board,
                   filerMoves, nOpens>>
\* The rejection is not caught: the dialog goes on searching.
SearchFails(s) ==
    /\ searches' = searches \ {s}
    /\ UNCHANGED <<background, nSearches, summaryVars, filer, filerFor, form, keywords, filingVars,
                   board, filerMoves, nOpens>>
\* Metadata: a component, or a search of the code, which ends in an error.
MetadataAnswered ==
    /\ background > 0 /\ background' = background - 1
    /\ UNCHANGED <<searches, nSearches, summaryVars, filer, filerFor, form, keywords, filingVars,
                   board, filerMoves, nOpens>>

-----------------------------------------------------------------------------
(* Filing.                                                                 *)

MaySubmit == filer # 0 /\ form.product # NoProduct /\ ~form.tooLong
\* submitFiler: the keywords are pushed to those the dialog keeps.
SubmitFiler ==
    /\ MaySubmit /\ nFilings < MaxFilings /\ nFilings' = nFilings + 1
    /\ keywords' = [keywords EXCEPT ![filer] =
           @ \cup (IF form.intermittent THEN {"intermittent-failure"} ELSE {})
             \cup (IF form.regressed THEN {"regression"} ELSE {})]
    /\ filings' = filings \cup {[id |-> nFilings', dialog |-> filer, product |-> form.product,
                                 step |-> "product"]}
    /\ UNCHANGED <<filed, summaryVars, filer, filerFor, form, searchVars, board, filerMoves, nOpens>>

\* The version of the product is there: the bug is sent with the keywords that
\* the dialog has by then.
VersionAnswered(g) ==
    /\ g.step = "product"
    /\ filings' = (filings \ {g}) \cup {[g EXCEPT !.step = "create"]}
    /\ filed' = filed \cup {[id |-> g.id, product |-> g.product,
                             keywords |-> keywords[g.dialog], state |-> "sent"]}
    /\ UNCHANGED <<nFilings, summaryVars, filer, filerFor, form, keywords, searchVars, board,
                   filerMoves, nOpens>>
\* Either request refused, or lost: the dialog stays as it is.
FilingFails(g) ==
    /\ filings' = filings \ {g}
    /\ filed' = {b \in filed : b.id # g.id}
    /\ UNCHANGED <<nFilings, summaryVars, filer, filerFor, form, keywords, searchVars, board,
                   filerMoves, nOpens>>
\* Filed: the flag is turned over, the bug is pinned and a save is asked for.
BugFiled(g) ==
    /\ g.step = "create"
    /\ filings' = filings \ {g}
    /\ filed' = {IF b.id = g.id THEN [b EXCEPT !.state = "filed"] ELSE b : b \in filed}
    /\ board' = [jobs |-> board.jobs, bugs |-> board.bugs \cup {g.id}]
    /\ ToggleBugFiler
    /\ UNCHANGED <<nFilings, summaryVars, filerFor, filerMoves>>

-----------------------------------------------------------------------------
FilerInit ==
    /\ failedJob = NoFiledJob /\ suggestLoads = {} /\ errorsOf = NoFiledJob /\ showMore = FALSE
    /\ suggestions = [job |-> NoFiledJob, open |-> 0, others |-> 0]
    /\ filer = 0 /\ filerFor = NoFiledJob /\ form = NewForm /\ keywords = [i \in 1 .. MaxOpens |-> {}]
    /\ searches = {} /\ background = 0 /\ filings = {} /\ filed = {}
    /\ board = [jobs |-> {}, bugs |-> {}]
    /\ filerMoves = 0 /\ nLoads = 0 /\ nSearches = 0 /\ nOpens = 0 /\ nFilings = 0

FilerNext ==
    \/ \E j \in FilerJobs : SelectFailed(j)
    \/ \E l \in suggestLoads :
           \/ \E open, others \in Sizes : SuggestionsAnswered(l, open, others)
           \/ \E b \in BOOLEAN : ErrorsAnswered(l, b)
    \/ ClickShowMore \/ FileBug \/ CancelFiler
    \/ \E p \in Products : PickProduct(p)
    \/ EditSummary \/ TickIntermittent \/ EditRegressedBy \/ EditSearch
    \/ FindProduct \/ MetadataAnswered
    \/ \E s \in searches : SearchFails(s) \/ \E P \in SUBSET Products : ProductsFound(s, P)
    \/ SubmitFiler
    \/ \E g \in filings : VersionAnswered(g) \/ FilingFails(g) \/ BugFiled(g)

FilerSpec == FilerInit /\ [][FilerNext]_filerVars

-----------------------------------------------------------------------------
FilerTypeOK ==
    /\ {failedJob, errorsOf, filerFor, suggestions.job} \subseteq FilerJobs \cup {NoFiledJob}
    /\ {suggestions.open, suggestions.others} \subseteq Sizes
    /\ filer \in 0 .. nOpens /\ nOpens <= MaxOpens
    /\ form.offered \subseteq Products /\ form.product \in Products \cup {NoProduct}
    /\ searches \subseteq 1 .. nSearches /\ background \in 0 .. MaxSearches
    /\ {g.id : g \in filings} \cup {b.id : b \in filed} \subseteq 1 .. nFilings

\* The product that will be filed under is one of those listed, with several
\* searches answered in any order while the user picks.
PickedIsOffered == form.product \in form.offered \cup {NoProduct}
=============================================================================
