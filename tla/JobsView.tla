------------------------------ MODULE JobsView ------------------------------
(***************************************************************************)
(* The job view (ui/job-view): the stores and the panels of its page, the  *)
(* requests for classifications that it sends, and the parsers whose       *)
(* errors it shows.  The parts share no variable: what one takes from      *)
(* another (the job that is selected, a suggestion, a pinned job) is       *)
(* chosen freely where it enters.  Each property speaks of one part, so a  *)
(* behaviour of the view is seen through the steps of the part that it is  *)
(* about, while the other parts stand still.                               *)
(***************************************************************************)
EXTENDS PushStore, JobDetails, PinBoard, PushPanel, FuzzyFinder, JobActions, JobFilters,
        BugFiling, SimilarJobs, AppShell, JobNotes, LogParsing

VARIABLE part   \* the part of the view whose steps are followed

viewVars == <<part, pushesVars, detVars, pinVars, pushPanelVars, fuzzyVars, actVars,
              filterVars, filerVars, similarVars, shellVars, notesVars, vars>>

ViewParts == {"pushes", "details", "pinboard", "push", "fuzzy", "actions", "filters", "filer",
              "similar", "app", "notes", "parsers"}

\* The other parts stand still.
Only(p) ==
    /\ part = p /\ UNCHANGED part
    /\ IF p = "pushes" THEN TRUE ELSE UNCHANGED pushesVars
    /\ IF p = "details" THEN TRUE ELSE UNCHANGED detVars
    /\ IF p = "pinboard" THEN TRUE ELSE UNCHANGED pinVars
    /\ IF p = "push" THEN TRUE ELSE UNCHANGED pushPanelVars
    /\ IF p = "fuzzy" THEN TRUE ELSE UNCHANGED fuzzyVars
    /\ IF p = "actions" THEN TRUE ELSE UNCHANGED actVars
    /\ IF p = "filters" THEN TRUE ELSE UNCHANGED filterVars
    /\ IF p = "filer" THEN TRUE ELSE UNCHANGED filerVars
    /\ IF p = "similar" THEN TRUE ELSE UNCHANGED similarVars
    /\ IF p = "app" THEN TRUE ELSE UNCHANGED shellVars
    /\ IF p = "notes" THEN TRUE ELSE UNCHANGED notesVars
    /\ IF p = "parsers" THEN TRUE ELSE UNCHANGED vars

-----------------------------------------------------------------------------
\* The part that is followed starts in any of its initial states.
ViewInit ==
    /\ part \in ViewParts
    /\ PushesInit
    /\ part = "pushes" \/ (win = PlainUrl /\ budget = CHOOSE b \in Budgets : TRUE)
    /\ DetInit /\ PinInit /\ (part = "pinboard" \/ ~atTry) /\ PushPanelInit /\ FuzzyInit /\ ActInit /\ FilterInit
    /\ FilerInit /\ SimilarInit
    /\ ShellInit /\ (part = "app" \/ urlRepo = DefaultRepo)
    /\ NotesInit
    /\ Init /\ (part = "parsers" \/ \A l \in Log : content[l] = "good")

ViewNext ==
    \/ part = "pushes"   /\ PushesNext    /\ Only("pushes")
    \/ part = "details"  /\ DetNext       /\ Only("details")
    \/ part = "pinboard" /\ PinNext       /\ Only("pinboard")
    \/ part = "push"     /\ PushPanelNext /\ Only("push")
    \/ part = "fuzzy"    /\ FuzzyNext     /\ Only("fuzzy")
    \/ part = "actions"  /\ ActNext       /\ Only("actions")
    \/ part = "filters"  /\ FilterNext    /\ Only("filters")
    \/ part = "filer"    /\ FilerNext     /\ Only("filer")
    \/ part = "similar"  /\ SimilarNext   /\ Only("similar")
    \/ part = "app"      /\ ShellNext     /\ Only("app")
    \/ part = "notes"    /\ NotesNext     /\ Only("notes")
    \/ part = "parsers"   /\ Next          /\ Only("parsers")

\* The interval timer goes on for ever and what it asks for is answered; so is
\* what is asked of Taskcluster.
ViewFairness ==
    /\ WF_pushesVars(part = "pushes" /\ PollPushes)
    /\ WF_pushesVars(part = "pushes" /\ Receive("pollPushes"))
    /\ WF_pushesVars(part = "pushes" /\ Receive("fetchNewJobs"))
    /\ WF_actVars(part = "actions" /\ ActAnswer)

ViewSpec == ViewInit /\ [][ViewNext]_viewVars /\ ViewFairness

-----------------------------------------------------------------------------
\* The types of the parts of the page.
ViewTypeOK ==
    /\ part \in ViewParts
    /\ PushesTypeOK /\ DetTypeOK /\ PinTypeOK /\ PushPanelTypeOK /\ FuzzyTypeOK /\ ActTypeOK
    /\ FilterTypeOK /\ FilerTypeOK /\ SimilarTypeOK /\ ShellTypeOK /\ NotesTypeOK /\ TypeOK

\* The details panel and the similar jobs say that they are loading only while
\* an answer is awaited that ends it, however selections, pages and polls
\* overlap and whatever is refused.
PanelsAwaitAnswers == SpinnerIsAwaited /\ OverlayIsAwaited

\* What the user picked out of a list (runnable jobs to trigger, jobs to remove
\* from those to be triggered, the product of a bug) outlives no change of that
\* list, so that nothing is acted on that the user does not see.
SelectionsAreListed == PickedIsVisible /\ RemovesWhatIsListed /\ PickedIsOffered

\* NewestShown of PushStore, where its timer runs: polling alone lists the
\* newest push again and again, however answers overwrote each other or failed.
PollingShowsNewest == part = "pushes" => NewestShown
=============================================================================
