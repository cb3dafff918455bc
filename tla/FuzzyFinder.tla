---------------------------- MODULE FuzzyFinder ----------------------------
(***************************************************************************)
(* The dialog that searches the runnable jobs of a push and triggers those *)
(* selected (FuzzyJobFinder.jsx, opened by showFuzzyJobs of Push.jsx).     *)
(* Everyone who opens or closes it turns one flag over: each answer to     *)
(* showFuzzyJobs, its buttons, and each successful trigger.                *)
(***************************************************************************)
EXTENDS Integers, FiniteSets

CONSTANTS
    FuzzyJobs,     \* runnable jobs
    CommonJobs,    \* those that are not excluded from the short list
    MaxFuzzyMoves, \* what the user does
    MaxFinds,      \* requests for the list of jobs
    MaxSubmits     \* triggers

ASSUME FuzzyBounds == /\ CommonJobs \subseteq FuzzyJobs
                      /\ {MaxFuzzyMoves, MaxFinds, MaxSubmits} \subseteq Nat

VARIABLES
    fuzzyModal,      \* the flag
    modalShown,      \* the dialog, which follows it: open, closed
    finds,           \* requests for the jobs under way
    jobsFound,       \* whether fuzzyJobList is there
    useFullList, fuzzyList, selectedList,
    addPicked, addDisabled,
    removePicked, removeDisabled,
    submitDisabled,
    submits,         \* triggers under way, and how many there were
    fuzzySent,       \* what was submitted
    fuzzyMoves, nFinds, nSubmits

listVars == <<useFullList, fuzzyList, addPicked, addDisabled>>
selectedVars == <<selectedList, removePicked, removeDisabled>>
modalVars == <<fuzzyModal, modalShown, finds, jobsFound, nFinds>>
submitVars == <<submitDisabled, submits, fuzzySent, nSubmits>>
fuzzyVars == <<listVars, selectedVars, modalVars, submitVars, fuzzyMoves>>

FuzzyMove == fuzzyModal /\ modalShown /\ fuzzyMoves < MaxFuzzyMoves /\ fuzzyMoves' = fuzzyMoves + 1

-----------------------------------------------------------------------------
\* showFuzzyJobs: nothing keeps the user from asking again while it fetches.
ShowFuzzyJobs ==
    /\ ~fuzzyModal /\ nFinds < MaxFinds
    /\ nFinds' = nFinds + 1 /\ finds' = finds + 1
    /\ UNCHANGED <<fuzzyModal, modalShown, jobsFound, listVars, selectedVars, submitVars, fuzzyMoves>>
JobsFound ==
    /\ finds > 0
    /\ finds' = finds - 1 /\ jobsFound' = TRUE
    /\ fuzzyModal' = ~fuzzyModal
    /\ UNCHANGED <<modalShown, nFinds, listVars, selectedVars, submitVars, fuzzyMoves>>
FindFails ==
    /\ finds > 0
    /\ finds' = finds - 1
    /\ UNCHANGED <<fuzzyModal, modalShown, jobsFound, nFinds, listVars, selectedVars, submitVars,
                   fuzzyMoves>>

\* onOpened: the list of the jobs, all or the common ones.
CurrentList(full) == IF full THEN FuzzyJobs ELSE CommonJobs
Opened ==
    /\ fuzzyModal /\ ~modalShown
    /\ modalShown' = TRUE
    /\ fuzzyList' = CurrentList(useFullList)
    /\ UNCHANGED <<fuzzyModal, finds, jobsFound, nFinds, useFullList, addPicked, addDisabled,
                   selectedVars, submitVars, fuzzyMoves>>
\* onClosed: resetForm leaves what is picked to be added.
ResetForm == selectedList' = {} /\ removeDisabled' = TRUE /\ submitDisabled' = FALSE
Closed ==
    /\ ~fuzzyModal /\ modalShown
    /\ modalShown' = FALSE
    /\ ResetForm
    /\ UNCHANGED <<fuzzyModal, finds, jobsFound, nFinds, listVars, removePicked, submits, fuzzySent,
                   nSubmits, fuzzyMoves>>

Cancel ==
    /\ FuzzyMove
    /\ fuzzyModal' = FALSE
    /\ UNCHANGED <<modalShown, finds, jobsFound, nFinds, listVars, selectedVars, submitVars>>

-----------------------------------------------------------------------------
\* filterJobs, by Enter: the matches of a search, or the whole list.
FilterJobs(matches) ==
    /\ FuzzyMove
    /\ fuzzyList' = matches \cap CurrentList(useFullList)
    /\ UNCHANGED <<useFullList, addPicked, addDisabled, selectedVars, modalVars, submitVars>>
ToggleFullList ==
    /\ FuzzyMove
    /\ useFullList' = ~useFullList
    /\ fuzzyList' = CurrentList(useFullList')
    /\ UNCHANGED <<addPicked, addDisabled, selectedVars, modalVars, submitVars>>

UpdateAddButton(S) ==
    /\ FuzzyMove
    /\ addPicked' = S /\ addDisabled' = (S = {})
    /\ UNCHANGED <<useFullList, fuzzyList, selectedVars, modalVars, submitVars>>
UpdateRemoveButton(S) ==
    /\ FuzzyMove
    /\ removePicked' = S /\ removeDisabled' = (S = {})
    /\ UNCHANGED <<selectedList, listVars, modalVars, submitVars>>

\* Adding keeps what is picked, also when the list has changed since.
AddJobs ==
    /\ FuzzyMove /\ ~addDisabled
    /\ selectedList' = selectedList \cup addPicked
    /\ UNCHANGED <<removePicked, removeDisabled, listVars, modalVars, submitVars>>
AddAllJobs ==
    /\ FuzzyMove
    /\ selectedList' = selectedList \cup fuzzyList
    /\ UNCHANGED <<removePicked, removeDisabled, listVars, modalVars, submitVars>>
RemoveJobs ==
    /\ FuzzyMove /\ ~removeDisabled
    /\ selectedList' = selectedList \ removePicked
    /\ removeDisabled' = TRUE
    /\ UNCHANGED <<removePicked, listVars, modalVars, submitVars>>
RemoveAllJobs ==
    /\ FuzzyMove /\ selectedList # {}
    /\ selectedList' = {} /\ removeDisabled' = TRUE
    /\ UNCHANGED <<removePicked, listVars, modalVars, submitVars>>

-----------------------------------------------------------------------------
SubmitJobs ==
    /\ fuzzyModal /\ modalShown /\ selectedList # {} /\ ~submitDisabled /\ nSubmits < MaxSubmits
    /\ submitDisabled' = TRUE
    /\ nSubmits' = nSubmits + 1
    /\ submits' = submits \cup {[id |-> nSubmits', jobs |-> selectedList]}
    /\ UNCHANGED <<fuzzySent, listVars, selectedVars, modalVars, fuzzyMoves>>
\* toggle: closes the dialog, or opens it when the user has closed it meanwhile.
JobsSubmitted(s) ==
    /\ submits' = submits \ {s}
    /\ fuzzySent' = fuzzySent \cup {s.jobs}
    /\ fuzzyModal' = ~fuzzyModal
    /\ UNCHANGED <<submitDisabled, nSubmits, modalShown, finds, jobsFound, nFinds, listVars,
                   selectedVars, fuzzyMoves>>
SubmitRefused(s) ==
    /\ submits' = submits \ {s}
    /\ submitDisabled' = FALSE
    /\ UNCHANGED <<fuzzySent, nSubmits, listVars, selectedVars, modalVars, fuzzyMoves>>

-----------------------------------------------------------------------------
FuzzyInit ==
    /\ fuzzyModal = FALSE /\ modalShown = FALSE /\ finds = 0 /\ jobsFound = FALSE
    /\ useFullList = FALSE /\ fuzzyList = {} /\ selectedList = {}
    /\ addPicked = {} /\ addDisabled = TRUE /\ removePicked = {} /\ removeDisabled = TRUE
    /\ submitDisabled = FALSE /\ submits = {} /\ fuzzySent = {}
    /\ fuzzyMoves = 0 /\ nFinds = 0 /\ nSubmits = 0

FuzzyNext ==
    \/ ShowFuzzyJobs \/ FindFails \/ Cancel
    \/ JobsFound \/ Opened \/ Closed
    \/ \E s \in submits : JobsSubmitted(s) \/ SubmitRefused(s)
    \/ \E S \in SUBSET FuzzyJobs : FilterJobs(S)
    \/ \E S \in SUBSET fuzzyList : UpdateAddButton(S)
    \/ \E S \in SUBSET selectedList : UpdateRemoveButton(S)
    \/ ToggleFullList
    \/ AddJobs \/ AddAllJobs \/ RemoveJobs \/ RemoveAllJobs
    \/ SubmitJobs

FuzzySpec == FuzzyInit /\ [][FuzzyNext]_fuzzyVars

-----------------------------------------------------------------------------
FuzzyTypeOK ==
    /\ {fuzzyModal, modalShown, jobsFound, useFullList, addDisabled, removeDisabled,
        submitDisabled} \subseteq BOOLEAN
    /\ UNION {fuzzyList, selectedList, addPicked, removePicked} \subseteq FuzzyJobs
    /\ finds \in 0 .. MaxFinds
    /\ submits \subseteq [id : 1 .. MaxSubmits, jobs : SUBSET FuzzyJobs]
    /\ fuzzySent \subseteq SUBSET FuzzyJobs

\* What `Remove selected` would remove is in the list: whichever way jobs left
\* it since they were picked.
RemovesWhatIsListed == ~removeDisabled => removePicked \subseteq selectedList
=============================================================================
