--------------------------- MODULE JobsViewProofs ---------------------------
(***************************************************************************)
(* Theorems about the job view, for any number of jobs, bugs, moves and    *)
(* answers.  A behaviour of the view is, for each of its parts, a          *)
(* behaviour of that part: the view implements the specifications it is    *)
(* composed of, and what is proved of a part holds of the view.            *)
(***************************************************************************)
EXTENDS JobsView, ClassificationProofs, LogParsingProofs

-----------------------------------------------------------------------------
(* The composition.                                                        *)

\* A step of the view is a step of the part that is followed, and lets every
\* other part stand still.
LEMMA ViewStep ==
    ASSUME [ViewNext]_viewVars
    PROVE  /\ [DetNext]_detVars /\ [PinNext]_pinVars /\ [PushPanelNext]_pushPanelVars
           /\ [FuzzyNext]_fuzzyVars /\ [FilterNext]_filterVars /\ [FilerNext]_filerVars
           /\ [SimilarNext]_similarVars /\ [ShellNext]_shellVars /\ [ActNext]_actVars
           /\ [PushesNext]_pushesVars /\ [NotesNext]_notesVars /\ [Next]_vars
<1>1. CASE UNCHANGED viewVars
  BY <1>1 DEF viewVars
<1>2. ASSUME NEW p, Only(p)
      PROVE  /\ p # "details"  => UNCHANGED detVars
             /\ p # "pinboard" => UNCHANGED pinVars
             /\ p # "push"     => UNCHANGED pushPanelVars
             /\ p # "fuzzy"    => UNCHANGED fuzzyVars
             /\ p # "filters"  => UNCHANGED filterVars
             /\ p # "filer"    => UNCHANGED filerVars
             /\ p # "similar"  => UNCHANGED similarVars
             /\ p # "app"      => UNCHANGED shellVars
             /\ p # "actions"  => UNCHANGED actVars
             /\ p # "pushes"   => UNCHANGED pushesVars
             /\ p # "notes"    => UNCHANGED notesVars
             /\ p # "parsers"  => UNCHANGED vars
  BY <1>2 DEF Only
<1>3. CASE ViewNext
  <2>1. CASE DetNext /\ Only("details")
    BY <1>2, <2>1
  <2>2. CASE PinNext /\ Only("pinboard")
    BY <1>2, <2>2
  <2>3. CASE PushPanelNext /\ Only("push")
    BY <1>2, <2>3
  <2>4. CASE FuzzyNext /\ Only("fuzzy")
    BY <1>2, <2>4
  <2>5. CASE FilterNext /\ Only("filters")
    BY <1>2, <2>5
  <2>6. CASE FilerNext /\ Only("filer")
    BY <1>2, <2>6
  <2>7. CASE SimilarNext /\ Only("similar")
    BY <1>2, <2>7
  <2>8. CASE ShellNext /\ Only("app")
    BY <1>2, <2>8
  <2>9. CASE ActNext /\ Only("actions")
    BY <1>2, <2>9
  <2>10. CASE PushesNext /\ Only("pushes")
    BY <1>2, <2>10
  <2>11. CASE NotesNext /\ Only("notes")
    BY <1>2, <2>11
  <2>12. CASE Next /\ Only("parsers")
    BY <1>2, <2>12
  <2> QED BY <1>3, <2>1, <2>2, <2>3, <2>4, <2>5, <2>6, <2>7, <2>8, <2>9, <2>10, <2>11, <2>12 DEF ViewNext
<1> QED BY <1>1, <1>3

\* Every behaviour of the view is one of each of its parts: the composition
\* implements them all.
THEOREM ViewImplementsParts ==
    ViewSpec => /\ DetSpec /\ PinSpec /\ PushPanelSpec /\ FuzzySpec /\ FilterSpec /\ FilerSpec
                /\ SimilarSpec /\ ShellSpec /\ PushesSpec /\ NotesSpec /\ Spec
                /\ ActInit /\ [][ActNext]_actVars
<1>1. ViewInit =>
        /\ DetInit /\ PinInit /\ PushPanelInit /\ FuzzyInit /\ FilterInit /\ FilerInit
        /\ SimilarInit /\ ShellInit /\ PushesInit /\ NotesInit /\ Init /\ ActInit
  BY DEF ViewInit
<1> QED
  BY <1>1, ViewStep, PTL
  DEF ViewSpec, DetSpec, PinSpec, PushPanelSpec, FuzzySpec, FilterSpec, FilerSpec, SimilarSpec,
      ShellSpec, PushesSpec, NotesSpec, Spec

-----------------------------------------------------------------------------
(* The pinboard in the view.                                               *)

\* Whatever the other parts do, the pinboard of the view keeps to its size.
THEOREM ViewBoardBounded == ViewSpec => []BoardBounded
BY ViewImplementsParts, BoardBoundedCorrect, PTL

\* In the view, a job shown as classified has its classification stored, on the
\* way, or its refusal reported.
THEOREM ViewShownIsStored == ViewSpec => []ShownIsStored
BY ViewImplementsParts, ShownIsStoredCorrect, PTL

\* In the view, nothing is stored without the reason that it needs.
THEOREM ViewStoredWithReason == ViewSpec => []StoredWithReason
BY ViewImplementsParts, StoredWithReasonCorrect, PTL

-----------------------------------------------------------------------------
(* Selections: what is picked out of a list stays in it.                   *)

\* Runnable jobs: shown and hidden by the menu and by triggers that succeed late.
LEMMA PickedVisible == PushPanelSpec => []PickedIsVisible
<1>1. PushPanelInit => PickedIsVisible
  BY DEF PushPanelInit, PickedIsVisible
<1>2. ASSUME PickedIsVisible, [PushPanelNext]_pushPanelVars
      PROVE  PickedIsVisible'
  <2>1. CASE HideRunnableJobs \/ \E t \in triggers : NewJobsTriggered(t)
    BY <2>1 DEF HideRunnableJobs, NewJobsTriggered, Hide, PickedIsVisible
  <2>2. CASE RunnableJobsListed
    BY <2>2 DEF RunnableJobsListed, PickedIsVisible
  <2>3. ASSUME NEW r \in Runnable, ToggleSelectedRunnableJob(r)
        PROVE  PickedIsVisible'
    BY <2>3 DEF ToggleSelectedRunnableJob, PickedIsVisible
  <2>4. CASE UNCHANGED <<picked, runnableVisible, runnableListed>>
    BY <1>2, <2>4 DEF PickedIsVisible
  <2> QED
    BY <1>2, <2>1, <2>2, <2>3, <2>4
    DEF PushPanelNext, pushPanelVars, runnableVars, TogglePushCollapsed, ToggleOther,
        HandleUrlChanges, CycleWatchState, AnswerPrompt, JobCountsChange, ShowRunnableJobs,
        NoRunnableJobs, TriggerNewJobs, TriggerFails
<1> QED BY <1>1, <1>2, PTL DEF PushPanelSpec

\* Jobs to be removed from those that will be triggered.
LEMMA RemovesListed == FuzzySpec => []RemovesWhatIsListed
<1>1. FuzzyInit => RemovesWhatIsListed
  BY DEF FuzzyInit, RemovesWhatIsListed
<1>2. ASSUME RemovesWhatIsListed, [FuzzyNext]_fuzzyVars
      PROVE  RemovesWhatIsListed'
  <2>1. CASE Closed \/ RemoveJobs \/ RemoveAllJobs
    BY <2>1 DEF Closed, ResetForm, RemoveJobs, RemoveAllJobs, RemovesWhatIsListed
  <2>2. CASE AddJobs \/ AddAllJobs
    BY <1>2, <2>2 DEF AddJobs, AddAllJobs, RemovesWhatIsListed
  <2>3. ASSUME NEW S \in SUBSET selectedList, UpdateRemoveButton(S)
        PROVE  RemovesWhatIsListed'
    BY <2>3 DEF UpdateRemoveButton, RemovesWhatIsListed
  <2>4. CASE UNCHANGED selectedVars
    BY <1>2, <2>4 DEF selectedVars, RemovesWhatIsListed
  <2> QED
    BY <1>2, <2>1, <2>2, <2>3, <2>4
    DEF FuzzyNext, fuzzyVars, ShowFuzzyJobs, FindFails, Cancel, JobsFound, Opened,
        JobsSubmitted, SubmitRefused, FilterJobs, UpdateAddButton, ToggleFullList, SubmitJobs
<1> QED BY <1>1, <1>2, PTL DEF FuzzySpec

\* What the dialog that files a bug holds.
Forms == [product : Products \cup {NoProduct}, offered : SUBSET Products, term : BOOLEAN,
          searching : BOOLEAN, tooLong : BOOLEAN, intermittent : BOOLEAN, regressed : BOOLEAN]

\* The product of a bug, through searches answered in any order.
LEMMA FormAlways == FilerSpec => [](form \in Forms /\ PickedIsOffered)
<1> DEFINE Inv == form \in Forms /\ PickedIsOffered
<1>1. FilerInit => Inv
  BY DEF FilerInit, NewForm, Forms, NoProduct, PickedIsOffered
<1>2. ASSUME Inv, [FilerNext]_filerVars
      PROVE  Inv'
  <2> USE DEF Forms, PickedIsOffered
  <2>1. ASSUME NEW f, f \in Forms, f.product \in f.offered \cup {NoProduct}, form' = f
        PROVE  Inv'
    BY <2>1
  <2>2. ASSUME form' = NewForm
        PROVE  Inv'
    <3>1. NewForm \in Forms /\ NewForm.product = NoProduct
      BY DEF NewForm, NoProduct
    <3> QED BY <2>1, <2>2, <3>1
  <2>3. ASSUME NEW P \in SUBSET Products, NEW first \in P \cup {NoProduct},
               form' = Found(P, first)
        PROVE  Inv'
    BY <1>2, <2>3 DEF Found
  <2>4. ASSUME NEW p \in Products, PickProduct(p)
        PROVE  Inv'
    <3>1. form' = [form EXCEPT !.product = p] /\ p \in form.offered
      BY <2>4 DEF PickProduct, EditForm
    <3> QED BY <1>2, <3>1
  <2>5. CASE EditSummary \/ TickIntermittent \/ EditRegressedBy \/ EditSearch
    <3>1. \/ form' = [form EXCEPT !.tooLong = ~@]
          \/ form' = [form EXCEPT !.intermittent = ~@]
          \/ form' = [form EXCEPT !.regressed = ~@]
          \/ form' = [form EXCEPT !.term = ~@]
      BY <2>5 DEF EditSummary, TickIntermittent, EditRegressedBy, EditSearch, EditForm
    <3> QED BY <1>2, <3>1
  <2>6. CASE FindProduct
    <3>1. form' = [form EXCEPT !.searching = TRUE] \/ form' = Found({}, NoProduct)
      BY <2>6 DEF FindProduct
    <3> QED BY <1>2, <2>3, <3>1
  <2>7. ASSUME NEW s \in searches, NEW P \in SUBSET Products, ProductsFound(s, P)
        PROVE  Inv'
    <3>1. PICK first \in IF P = {} THEN {NoProduct} ELSE P : form' = Found(P, first)
      BY <2>7 DEF ProductsFound
    <3>2. first \in P \cup {NoProduct}
      BY <3>1
    <3> QED BY <2>3, <3>1, <3>2
  <2>8. CASE FileBug \/ CancelFiler
    BY <2>2, <2>8 DEF FileBug, CancelFiler, OpenFiler, CloseFiler
  <2>9. ASSUME NEW g \in filings, BugFiled(g)
        PROVE  Inv'
    BY <2>2, <2>9 DEF BugFiled, ToggleBugFiler, OpenFiler, CloseFiler
  <2>10. CASE UNCHANGED form
    BY <1>2, <2>10
  <2> QED
    BY <1>2, <2>4, <2>5, <2>6, <2>7, <2>8, <2>9, <2>10
    DEF FilerNext, filerVars, SelectFailed, SuggestionsAnswered, ErrorsAnswered, ClickShowMore,
        MetadataAnswered, SearchFails, SubmitFiler, VersionAnswered, FilingFails
<1> QED BY <1>1, <1>2, PTL DEF FilerSpec

LEMMA PickedOffered == FilerSpec => []PickedIsOffered
BY FormAlways, PTL

\* What the user picked out of a list of the view is in that list, for any
\* number of jobs, products, moves, triggers and searches.
THEOREM SelectionsAreListedCorrect == ViewSpec => []SelectionsAreListed
BY ViewImplementsParts, PickedVisible, RemovesListed, PickedOffered, PTL DEF SelectionsAreListed

-----------------------------------------------------------------------------
(* The panels wait for what ends their waiting.                            *)

\* The selections under way are numbered from one, which tells the requests for
\* classifications that a selection waits for from the others.
SelectsNumbered == nSelects \in Nat /\ detErrors \in Nat /\ \A s \in selects : s.id \in Nat \ {0}

\* The details panel.
LEMMA SpinnerAwaited == DetSpec => []SpinnerIsAwaited
<1> DEFINE Inv == SelectsNumbered /\ SpinnerIsAwaited
<1>1. DetInit => Inv
  BY DEF DetInit, SelectsNumbered, SpinnerIsAwaited
<1>2. ASSUME Inv, [DetNext]_detVars
      PROVE  Inv'
  <2> USE DEF SelectsNumbered, SpinnerIsAwaited
  <2>1. ASSUME NEW j \in DetJobs, SelectOne(j)
        PROVE  Inv'
    <3> DEFINE new == [id |-> nSelects + 1, job |-> j, stage |-> "abortable"]
    <3>1. selects' = (selects \ Abortable) \cup {new} /\ nSelects' = nSelects + 1
          /\ UNCHANGED detErrors
      BY <2>1 DEF SelectOne, StartSelect
    <3>2. new.id \in Nat \ {0}
      BY <1>2
    <3> HIDE DEF new
    <3> QED BY <1>2, <3>1, <3>2
  <2>2. CASE ClearSelected
    BY <1>2, <2>2 DEF ClearSelected
  <2>3. ASSUME NEW s \in selects, AbortableAnswered(s) \/ RestAnswered(s)
        PROVE  Inv'
    <3>1. PICK stage \in {"rest", "series"} : Advance(s, stage)
      BY <2>3 DEF AbortableAnswered, RestAnswered
    <3> DEFINE t == [s EXCEPT !.stage = stage]
    <3>2. t.id = s.id /\ selects' = (selects \ {s}) \cup {t}
      BY <3>1 DEF Advance
    <3>3. UNCHANGED <<detLoading, selectedJob, detErrors, nSelects>>
      BY <2>3 DEF AbortableAnswered, RestAnswered
    <3> HIDE DEF t
    <3> QED BY <1>2, <3>2, <3>3
  <2>4. ASSUME NEW s \in selects, ShowDetails(s)
        PROVE  Inv'
    <3>1. CASE selectedJob = NoJob
      BY <1>2, <2>4, <3>1 DEF ShowDetails
    <3>2. CASE selectedJob # NoJob
      <4>1. UpdateFor(selectedJob, s.id) \in updates' /\ selects' \subseteq selects
            /\ UNCHANGED <<detErrors, nSelects>>
        BY <2>4, <3>2 DEF ShowDetails
      <4>2. UpdateFor(selectedJob, s.id).select # 0
        BY <1>2 DEF UpdateFor
      <4> QED BY <1>2, <4>1, <4>2
    <3> QED BY <3>1, <3>2
  <2>5. ASSUME NEW s \in selects, SelectFails(s)
        PROVE  Inv'
    BY <1>2, <2>5 DEF SelectFails
  <2>6. ASSUME NEW u \in updates, ShowNotes(u)
        PROVE  Inv'
    BY <1>2, <2>6 DEF ShowNotes
  <2>7. CASE SaveNote \/ RemoveNote
    BY <1>2, <2>7 DEF SaveNote, RemoveNote, ChangeNotes
  <2>8. CASE SelectNextTab \/ \E i \in 0 .. 4 : ClickTab(i)
    BY <1>2, <2>8 DEF SelectNextTab, ClickTab
  <2>9. CASE UNCHANGED detVars
    BY <1>2, <2>9 DEF detVars
  <2> QED
    BY <1>2, <2>1, <2>2, <2>3, <2>4, <2>5, <2>6, <2>7, <2>8, <2>9 DEF DetNext, DetAnswer
<1> QED BY <1>1, <1>2, PTL DEF DetSpec

\* The tab of similar jobs.
LEMMA OverlayAwaited == SimilarSpec => []OverlayIsAwaited
<1>1. SimilarInit => OverlayIsAwaited
  BY DEF SimilarInit, OverlayIsAwaited
<1>2. ASSUME OverlayIsAwaited, [SimilarNext]_similarVars
      PROVE  OverlayIsAwaited'
  <2>1. ASSUME NEW l \in similarLoads,
               JobsAnswered(l) \/ PushesAnswered(l) \/ SimilarRefused(l) \/ SimilarThrows(l)
        PROVE  OverlayIsAwaited'
    BY <2>1
    DEF JobsAnswered, PushesAnswered, SimilarRefused, SimilarThrows, listOfSimilar,
        OverlayIsAwaited
  <2>2. CASE GetSimilarJobs
    BY <2>2 DEF GetSimilarJobs, OverlayIsAwaited
  <2>3. CASE UNCHANGED <<similarLoading, loadsOfSimilar>>
    BY <1>2, <2>3 DEF OverlayIsAwaited, loadsOfSimilar
  <2> QED
    BY <1>2, <2>1, <2>2, <2>3
    DEF SimilarNext, similarVars, listOfSimilar, ShowNext, ToggleFilter, ShowJobInfo,
        InfoAnswered
<1> QED BY <1>1, <1>2, PTL DEF SimilarSpec

\* The panels of the view load only while an answer is awaited that ends it, for
\* any number of selections, changes of classifications, pages and refusals.
THEOREM PanelsAwaitAnswersCorrect == ViewSpec => []PanelsAwaitAnswers
BY ViewImplementsParts, SpinnerAwaited, OverlayAwaited, PTL DEF PanelsAwaitAnswers

\* The tab was last chosen for the job and the performance data that are shown,
\* which is why a tab that goes with them is left.
TabIsOfJob == tabJob = full /\ tabPerf = perfDetail /\ perfDetail \in BOOLEAN /\ tab \in Nat

\* The open tab is one that the panel has, in whichever order performance data
\* come and go, jobs are selected and tabs are opened.
THEOREM TabExistsCorrect == ViewSpec => []TabExists
<1> DEFINE Inv == TabIsOfJob /\ TabExists
<1>1. DetInit => Inv
  <2> SUFFICES ASSUME DetInit PROVE Inv
    OBVIOUS
  <2>1. tabPerf = perfDetail /\ perfDetail \in BOOLEAN
    BY DEF DetInit
  <2>2. tabJob = full /\ full = NoJob /\ tab \in Nat
    BY DEF DetInit
  <2> QED BY <2>1, <2>2 DEF TabIsOfJob, TabExists
<1>2. ASSUME Inv, [DetNext]_detVars
      PROVE  Inv'
  <2> USE DEF TabIsOfJob, TabExists
  <2>1. ASSUME NEW s \in selects, ShowDetails(s)
        PROVE  Inv'
    <3>1. /\ full' = s.job /\ tabJob' = s.job /\ perfDetail' \in BOOLEAN
          /\ tabPerf' = perfDetail'
          /\ tab' = IF tabJob # s.job \/ tabPerf # perfDetail' THEN DefaultTab(s.job, perfDetail')
                    ELSE tab
      BY <2>1 DEF ShowDetails, TabFor
    <3>2. DefaultTab(s.job, perfDetail') \in {0, 1, 4}
      BY DEF DefaultTab, TabIndex
    <3>3. TabCount(perfDetail') \in {5, 6}
      BY DEF TabCount
    <3> QED BY <1>2, <3>1, <3>2, <3>3
  <2>2. CASE SelectNextTab \/ \E i \in 0 .. 4 : ClickTab(i)
    <3>1. /\ UNCHANGED <<full, perfDetail, tabJob, tabPerf>>
          /\ tab' \in Nat /\ tab' < TabCount(perfDetail)
      BY <1>2, <2>2 DEF SelectNextTab, ClickTab, TabCount
    <3> QED BY <1>2, <3>1 DEF TabCount
  <2>3. CASE UNCHANGED panelVars
    BY <1>2, <2>3 DEF panelVars
  <2> QED
    BY <1>2, <2>1, <2>2, <2>3
    DEF DetNext, DetAnswer, detVars, panelVars, SelectOne, ClearSelected, AbortableAnswered,
        RestAnswered, SelectFails, ShowNotes, SaveNote, RemoveNote, ChangeNotes
<1>3. DetSpec => []TabExists
  BY <1>1, <1>2, PTL DEF DetSpec
<1> QED BY <1>3, ViewImplementsParts, PTL

-----------------------------------------------------------------------------
(* Deployed versions.                                                      *)

\* A poll that is under way has not been given up, or the large banner is up.
PollIsWanted ==
    /\ {changedDelayed, revisionPolled} \subseteq BOOLEAN
    /\ "poll" \in revisionLoads => revisionPolled \/ changedDelayed

\* A tab goes on asking for a newer version until its large banner is up, for
\* any number of deployments and refused requests.
THEOREM PollsUntilDelayedCorrect == ViewSpec => []PollsUntilDelayed
<1> DEFINE Inv == PollIsWanted /\ PollsUntilDelayed
<1>1. ShellInit => Inv
  BY DEF ShellInit, PollIsWanted, PollsUntilDelayed
<1>2. ASSUME Inv, [ShellNext]_shellVars
      PROVE  Inv'
  <2> USE DEF PollIsWanted, PollsUntilDelayed
  <2>1. CASE FirstRevision
    BY <1>2, <2>1 DEF FirstRevision
  <2>2. CASE PollRevision
    BY <1>2, <2>2 DEF PollRevision
  <2>3. CASE RevisionPolled
    <3>1. /\ changedDelayed' = (changedDelayed \/ StopsPolling)
          /\ revisionPolled' = (revisionPolled /\ ~StopsPolling)
          /\ "poll" \in revisionLoads /\ "poll" \notin revisionLoads'
      BY <2>3 DEF RevisionPolled, StopsPolling
    <3>2. {changedDelayed', revisionPolled'} \subseteq BOOLEAN
      BY <3>1
    <3> QED BY <1>2, <3>1, <3>2
  <2>4. ASSUME NEW what \in revisionLoads, RevisionRefused(what)
        PROVE  Inv'
    BY <1>2, <2>4 DEF RevisionRefused
  <2>5. CASE UNCHANGED revisionState
    BY <1>2, <2>5 DEF revisionState
  <2> QED
    BY <1>2, <2>1, <2>2, <2>3, <2>4, <2>5
    DEF ShellNext, shellVars, UnwatchRepo, UpdateTreeStatus, PickRepo, ChangeFilters,
        ShellUrlChanges, ReposAnswered, OtherTabSaves, TreeAnswered, Deploy, TickHour
<1>3. ShellSpec => []PollsUntilDelayed
  BY <1>1, <1>2, PTL DEF ShellSpec
<1> QED BY <1>3, ViewImplementsParts, PTL

-----------------------------------------------------------------------------
(* Requests to Taskcluster.                                                *)

\* What the user is told was sent has been accepted, for any number of requests,
\* custom actions, dialogs, refusals and expired credentials.
THEOREM SentIsSubmittedCorrect == ViewSpec => []SentIsSubmitted
<1> DEFINE Inv == notices \in [Ids -> SUBSET {"sent", "failed", "cancelled"}] /\ SentIsSubmitted
           Customs == customSent \subseteq customTaken \cup customEmpty
<1>1. ActInit => Inv
  BY DEF ActInit, SentIsSubmitted
<1>2. ASSUME Inv, [ActNext]_actVars
      PROVE  Inv'
  <2>1. ASSUME NEW r, NEW what \in SUBSET {"failed", "cancelled"}, Notified(r, what),
               UNCHANGED <<submitted, customNotices>>
        PROVE  Inv'
    BY <1>2, <2>1 DEF Notified, SentIsSubmitted, customNotices
  <2>2. ASSUME NEW r, NEW notice \in SUBSET {"failed", "cancelled"}, NextJob(r, notice)
        PROVE  \E what \in SUBSET {"failed", "cancelled"} : Notified(r, what)
    BY <2>2 DEF NextJob
  <2>3. ASSUME NEW r \in actRequests, LoadFails(r) \/ Refused(r) \/ Aborted(r)
        PROVE  Inv'
    <3>1. UNCHANGED <<submitted, customNotices>>
      BY <2>3 DEF LoadFails, Refused, Aborted, customVars
    <3>2. \E what \in SUBSET {"failed", "cancelled"} : Notified(r, what)
      BY <2>2, <2>3 DEF LoadFails, LoadFailure, Refused, Refusal, Aborted
    <3> QED BY <2>1, <3>1, <3>2
  <2>4. ASSUME NEW r \in actRequests, Accepted(r)
        PROVE  Inv'
    <3>1. submitted' = submitted \cup {r.id} /\ UNCHANGED customNotices
      BY <2>4 DEF Accepted, customVars
    <3>2. \E what \in SUBSET {"sent", "failed", "cancelled"} : Notified(r, what)
      <4>1. CASE r.kind \in Cancels
        BY <2>2, <2>4, <4>1 DEF Accepted
      <4>2. CASE r.kind \notin Cancels
        BY <2>4, <4>2 DEF Accepted
      <4> QED BY <4>1, <4>2
    <3>3. PICK what \in SUBSET {"sent", "failed", "cancelled"} : Notified(r, what)
      BY <3>2
    <3> QED BY <1>2, <3>1, <3>3 DEF Notified, SentIsSubmitted, customNotices
  <2>5. CASE UNCHANGED <<notices, submitted, customNotices>>
    BY <1>2, <2>5 DEF SentIsSubmitted, customNotices
  <2>6. CASE UNCHANGED <<notices, submitted>> /\ Customs'
    BY <1>2, <2>6 DEF SentIsSubmitted
  <2>7. CASE TriggerAction
    BY <1>2, <2>6, <2>7 DEF TriggerAction, SentIsSubmitted
  <2>8. ASSUME NEW c \in customs, CustomSent(c)
        PROVE  Inv'
    BY <1>2, <2>6, <2>8 DEF CustomSent, SentIsSubmitted
  <2>9. ASSUME NEW c \in customs, CustomRefused(c)
        PROVE  Inv'
    BY <2>5, <2>9 DEF CustomRefused
  <2>10. CASE Renew \/ Expire \/ (\E kind \in ActKinds, jobs \in 1 .. MaxCancelled : Request(kind, jobs))
    BY <2>5, <2>10 DEF Renew, Expire, Request, customVars
  <2>11. ASSUME NEW r \in actRequests, ActionsLoaded(r)
         PROVE  Inv'
    BY <2>5, <2>11 DEF ActionsLoaded, customVars
  <2>12. CASE OpenDialog \/ DialogLoaded \/ TriggerInvalid \/ CloseDialog \/ CancelDialog
    BY <2>5, <2>12 DEF OpenDialog, DialogLoaded, TriggerInvalid, CloseDialog, CancelDialog
  <2>13. CASE UNCHANGED actVars
    BY <2>5, <2>13 DEF actVars, customVars
  <2> QED
    BY <1>2, <2>3, <2>4, <2>7, <2>8, <2>9, <2>10, <2>11, <2>12, <2>13 DEF ActNext, ActAnswer
<1> QED BY <1>1, <1>2, ViewImplementsParts, PTL

-----------------------------------------------------------------------------
(* Filters.                                                                *)

\* What is listed as a status, and the filters, also those that a URL names.
StatusTexts == Statuses \cup {Letters}
Filterings == [Params -> SUBSET (StatusTexts \cup Both \cup Words)]

\* The default filters are filters.
LEMMA DefaultsType == Defaults \in Filterings /\ NoParams \in Filterings
<1>1. NoParams \in Filterings
  BY DEF NoParams, Filterings
<1>2. /\ \A p \in Params : Defaults[p] \in SUBSET (StatusTexts \cup Both \cup Words)
      /\ Defaults = [p \in Params |-> Defaults[p]]
  BY DEF Defaults, Params, StatusTexts
<1> HIDE DEF Defaults
<1>3. Defaults \in Filterings
  BY <1>2 DEF Filterings
<1> QED BY <1>1, <1>3

\* What is read back from a URL are filters.
LEMMA ParseType == ASSUME NEW url \in Filterings PROVE Parse(url) \in Filterings
BY DefaultsType DEF Parse, Filterings

\* What is written to a URL and read back is what it was, where nothing is
\* empty that is not so by default.
LEMMA RoundTrip ==
    ASSUME NEW f \in Filterings, \A p \in Params : f[p] = {} => Defaults[p] = {}
    PROVE  Format(f) \in Filterings /\ Parse(Format(f)) = f
<1>1. Format(f) \in Filterings
  BY DEF Format, MatchesDefaults, Filterings
<1>2. Parse(Format(f)) \in Filterings
  BY <1>1, ParseType
<1>3. \A p \in Params : Parse(Format(f))[p] = f[p]
  BY DEF Parse, Format, MatchesDefaults, Filterings
<1> QED BY <1>1, <1>2, <1>3 DEF Filterings

\* The URL, the filters and the counts agree.
FiltersAgree == filters \in Filterings /\ filterUrl \in Filterings /\ UrlSaysAll /\ CountsCurrent

\* New filters are pushed to the URL, where they do not empty a filter that the
\* URL leaves out.
LEMMA PushFiltersAgrees ==
    ASSUME FiltersAgree, NEW f \in Filterings, PushFilters(f),
           \A p \in Params : f[p] = {} => Defaults[p] = {} \/ filterUrl[p] # {}
    PROVE  FiltersAgree'
<1>1. /\ filterUrl' = Format(f) /\ UNCHANGED classified
      /\ filters' = IF filterUrl' # filterUrl THEN Parse(filterUrl') ELSE f
      /\ counts' = IF filterUrl # filterUrl' THEN Recalculate(filters', classified) ELSE counts
  BY DEF PushFilters, HasUrlFilterChanges, jobVars
<1>2. filterUrl' \in Filterings
  BY <1>1 DEF Format, MatchesDefaults, Filterings
<1>3. filters' = Parse(filterUrl')
  <2>1. CASE filterUrl' = filterUrl
    <3>1. \A p \in Params : f[p] = {} => Defaults[p] = {}
      BY <1>1, <2>1 DEF Format, MatchesDefaults
    <3> QED BY <1>1, <2>1, <3>1, RoundTrip
  <2> QED BY <1>1, <2>1
<1>4. filters' \in Filterings
  BY <1>2, <1>3, ParseType
<1>5. filterUrl' = filterUrl => filters' = filters /\ counts' = counts
  BY <1>1, <1>3 DEF FiltersAgree, UrlSaysAll
<1>6. counts' = Recalculate(filters', classified')
  BY <1>1, <1>5 DEF FiltersAgree, CountsCurrent
<1> QED BY <1>2, <1>3, <1>4, <1>6 DEF FiltersAgree, UrlSaysAll, CountsCurrent

\* A change of the status and the state, which leaves neither empty.
LEMMA SetNonFieldAgrees ==
    ASSUME FiltersAgree, NEW chosen \in SUBSET Statuses, NEW state \in SUBSET Both,
           chosen # {}, state # {}, SetNonField(chosen, state)
    PROVE  FiltersAgree'
<1> DEFINE f == [filters EXCEPT !.status = chosen, !.state = state]
<1>1. f \in Filterings
  BY DEF FiltersAgree, Filterings, Params, StatusTexts
<1>2. PushFilters(f)
  BY DEF SetNonField
<1>3. \A p \in Params : f[p] = {} => Defaults[p] = {}
  <2>1. f["status"] # {} /\ f["state"] # {}
    BY DEF FiltersAgree, Filterings, Params
  <2>2. Defaults["search"] = {} /\ Defaults["field"] = {}
    BY DEF Defaults
  <2> QED BY <2>1, <2>2 DEF Params
<1> HIDE DEF f
<1> QED BY <1>1, <1>2, <1>3, PushFiltersAgrees

\* A group of statuses is taken out of those that are shown, or put in; the last
\* of them leaves the default ones, since the URL then named it.
LEMMA ToggleAgrees ==
    ASSUME FiltersAgree, NEW S \in Groups, ToggleResultStatuses(S)
    PROVE  FiltersAgree'
<1> DEFINE listed == IF statusText THEN {Letters} ELSE filters.status
           chosen == IF S \subseteq listed THEN listed \ S ELSE listed \cup S
           f == [filters EXCEPT !.status = chosen]
<1>1. PushFilters(f)
  BY DEF ToggleResultStatuses
<1>2. S \subseteq Statuses
  BY DEF Groups, Failures, Statuses
<1>3. f \in Filterings
  <2>1. filters.status \subseteq StatusTexts \cup Both \cup Words
    BY DEF FiltersAgree, Filterings, Params
  <2>2. chosen \subseteq StatusTexts \cup Both \cup Words
    BY <1>2, <2>1 DEF StatusTexts
  <2> HIDE DEF chosen
  <2> QED BY <2>2 DEF FiltersAgree, Filterings, Params
<1>4. f.status = chosen /\ \A p \in Params : p # "status" => f[p] = filters[p]
  BY DEF FiltersAgree, Filterings, Params
<1>5. chosen = {} => filterUrl["status"] # {}
  <2> SUFFICES ASSUME chosen = {}, filterUrl["status"] = {} PROVE FALSE
    OBVIOUS
  <2>1. filters.status = Defaults["status"]
    BY DEF FiltersAgree, UrlSaysAll, Parse, Params
  <2>2. "testfailed" \in filters.status /\ "success" \in filters.status
    BY <2>1 DEF Defaults, Statuses
  <2>3. ~({"testfailed", "success"} \subseteq S) /\ Letters \notin S
    BY DEF Groups, Failures, Letters
  <2> QED BY <2>2, <2>3
<1>6. \A p \in Params : p # "status" /\ filters[p] = {} => Defaults[p] = {} \/ filterUrl[p] # {}
  BY DEF FiltersAgree, UrlSaysAll, Parse
<1>7. \A p \in Params : f[p] = {} => Defaults[p] = {} \/ filterUrl[p] # {}
  BY <1>4, <1>5, <1>6
<1> HIDE DEF f
<1> QED BY <1>1, <1>3, <1>7, PushFiltersAgrees

\* Searches and field filters are empty by default.
LEMMA WordsAgree ==
    ASSUME FiltersAgree, NEW V \in SUBSET (StatusTexts \cup Both \cup Words),
           NEW U \in SUBSET (StatusTexts \cup Both \cup Words),
           PushFilters([filters EXCEPT !.search = V, !.field = U])
    PROVE  FiltersAgree'
<1> DEFINE f == [filters EXCEPT !.search = V, !.field = U]
<1>1. f \in Filterings
  BY DEF FiltersAgree, Filterings, Params
<1>2. f["status"] = filters["status"] /\ f["state"] = filters["state"]
  BY DEF FiltersAgree, Filterings, Params
<1>3. \A p \in Params : f[p] = {} => Defaults[p] = {} \/ filterUrl[p] # {}
  <2>1. \A p \in Params : filters[p] = {} => Defaults[p] = {} \/ filterUrl[p] # {}
    BY DEF FiltersAgree, UrlSaysAll, Parse
  <2>2. Defaults["search"] = {} /\ Defaults["field"] = {}
    BY DEF Defaults
  <2> QED BY <1>2, <2>1, <2>2 DEF Params
<1> HIDE DEF f
<1> QED BY <1>1, <1>3, PushFiltersAgrees DEF f

\* A link or a URL that is typed in.
LEMMA VisitAgrees ==
    ASSUME FiltersAgree, NEW url \in Filterings, Visit(url)
    PROVE  FiltersAgree'
<1>1. /\ filterUrl' = url /\ UNCHANGED classified
      /\ filters' = IF url # filterUrl THEN Parse(url) ELSE filters
      /\ counts' = IF filterUrl # url THEN Recalculate(filters', classified) ELSE counts
  BY DEF Visit, HasUrlFilterChanges, jobVars
<1>2. filters' = Parse(url)
  BY <1>1 DEF FiltersAgree, UrlSaysAll
<1>3. counts' = Recalculate(filters', classified')
  BY <1>1 DEF FiltersAgree, CountsCurrent
<1> QED BY <1>1, <1>2, <1>3, ParseType DEF FiltersAgree, UrlSaysAll, CountsCurrent

\* Every step keeps the URL, the filters and the counts in agreement.
LEMMA FiltersStep ==
    ASSUME FiltersAgree, [FilterNext]_filterVars
    PROVE  FiltersAgree'
<1>1. ASSUME NEW S \in Groups, ToggleResultStatuses(S)
      PROVE  FiltersAgree'
  BY <1>1, ToggleAgrees
<1>2. \A chosen \in SUBSET Statuses, state \in SUBSET Both :
          chosen # {} /\ state # {} /\ SetNonField(chosen, state) => FiltersAgree'
  BY SetNonFieldAgrees
<1>3. CASE ResetNonFieldFilters \/ SetOnlySuperseded
  <2>1. /\ Defaults.status \in SUBSET Statuses /\ Defaults.status # {}
        /\ Defaults.state \in SUBSET Both /\ Defaults.state # {}
        /\ {"superseded"} \in SUBSET Statuses
    BY DEF Defaults, Statuses, Both
  <2> QED BY <1>2, <1>3, <2>1 DEF ResetNonFieldFilters, SetLists, SetOnlySuperseded
<1>4. CASE ToggleUnclassifiedFailures
  <2>1. /\ Failures \in SUBSET Statuses /\ Failures # {}
        /\ {"unclassified"} \in SUBSET Both
    BY DEF Failures, Statuses, Both
  <2> QED BY <1>2, <1>3, <1>4, <2>1 DEF ToggleUnclassifiedFailures, SetLists
<1>5. ASSUME NEW b \in BOOLEAN, ToggleClassifiedFailures(b)
      PROVE  FiltersAgree'
  <2>1. /\ ClassifiedResults \in SUBSET Statuses /\ ClassifiedResults # {}
        /\ {"classified"} \in SUBSET Both /\ Both \in SUBSET Both /\ Both # {}
    BY DEF ClassifiedResults, Statuses, Both
  <2> QED BY <1>2, <1>3, <1>4, <1>5, <2>1 DEF ToggleClassifiedFailures, SetLists
<1>6. CASE AllJobs
  BY <1>3, <1>5, <1>6 DEF AllJobs
<1>7. ASSUME NEW V \in SUBSET Words,
             \/ AddFilter(V) \/ Search(V) \/ ClearNonStatusFilters
             \/ \E w \in Words : RemoveFilter(w)
      PROVE  FiltersAgree'
  <2> DEFINE All == StatusTexts \cup Both \cup Words
  <2>1. /\ filters.search \in SUBSET All /\ filters.field \in SUBSET All
        /\ filters \in Filterings
    BY DEF FiltersAgree, Filterings, Params
  <2>2. \A X, Y \in SUBSET All :
            PushFilters([filters EXCEPT !.search = X, !.field = Y]) => FiltersAgree'
    BY WordsAgree
  <2>3. ASSUME NEW Y
        PROVE  /\ [filters EXCEPT !.field = Y] =
                      [filters EXCEPT !.search = filters.search, !.field = Y]
               /\ [filters EXCEPT !.search = Y] =
                      [filters EXCEPT !.search = Y, !.field = filters.field]
    BY <2>1 DEF Filterings, Params
  <2> HIDE DEF All
  <2>4. \A Y \in SUBSET All : PushFilters([filters EXCEPT !.field = Y]) => FiltersAgree'
    BY <2>1, <2>2, <2>3
  <2>5. CASE AddFilter(V)
    <3>1. filters.field \cup V \in SUBSET All
      BY <2>1 DEF All
    <3> QED BY <2>5, <2>4, <3>1 DEF AddFilter, SetWords
  <2>6. CASE Search(V)
    BY <2>1, <2>2, <2>3, <2>6 DEF Search, SetWords, All
  <2>7. CASE ClearNonStatusFilters
    BY <2>2, <2>7 DEF ClearNonStatusFilters, SetWords, All
  <2>8. ASSUME NEW w \in Words, RemoveFilter(w)
        PROVE  FiltersAgree'
    <3>1. filters.field \ {w} \in SUBSET All
      BY <2>1
    <3> QED BY <2>8, <2>4, <3>1 DEF RemoveFilter, SetWords
  <2> QED BY <1>7, <2>5, <2>6, <2>7, <2>8
<1>8. CASE \/ Visit([NoParams EXCEPT !.state = {"unclassified"}])
           \/ Visit([NoParams EXCEPT !.field = Words])
  <2>1. /\ [NoParams EXCEPT !.state = {"unclassified"}] \in Filterings
        /\ [NoParams EXCEPT !.field = Words] \in Filterings
    BY DEF NoParams, Filterings, Params, Both
  <2> QED BY <1>8, <2>1, VisitAgrees
<1>9. ASSUME NEW j \in ToSet(ListedJobs), Reclassify(j)
      PROVE  FiltersAgree'
  BY <1>9 DEF Reclassify, FiltersAgree, UrlSaysAll, CountsCurrent
<1>10. CASE UNCHANGED <<filters, filterUrl, classified, counts>>
  BY <1>10 DEF FiltersAgree, UrlSaysAll, CountsCurrent
<1> QED
  BY <1>1, <1>3, <1>4, <1>5, <1>6, <1>7, <1>8, <1>9, <1>10
  DEF FilterNext, filterVars, ChangeJob, SelectShown, ClearScreen, TogglePinned

\* They agree from the start.
LEMMA FiltersInit == FilterInit => FiltersAgree
<1> SUFFICES ASSUME FilterInit PROVE FiltersAgree
  OBVIOUS
<1>1. Parse(NoParams) = Defaults
  <2>1. \A p \in Params : Parse(NoParams)[p] = Defaults[p]
    BY DEF Parse, NoParams
  <2> QED BY <2>1, DefaultsType, ParseType DEF Filterings
<1> QED BY <1>1, DefaultsType DEF FilterInit, FiltersAgree, UrlSaysAll, CountsCurrent

\* They agree always.
LEMMA FiltersAlwaysAgree == FilterSpec => []FiltersAgree
BY FiltersInit, FiltersStep, PTL DEF FilterSpec

\* The URL says what is filtered, for any number of words and in any order of
\* toggles, searches, links and resets.
THEOREM UrlSaysAllCorrect == ViewSpec => []UrlSaysAll
<1>1. FiltersAgree => UrlSaysAll
  BY DEF FiltersAgree
<1> QED BY <1>1, FiltersAlwaysAgree, ViewImplementsParts, PTL

\* The counts in the bar are those of the filters and classifications of now.
THEOREM CountsCurrentCorrect == ViewSpec => []CountsCurrent
<1>1. FiltersAgree => CountsCurrent
  BY DEF FiltersAgree
<1> QED BY <1>1, FiltersAlwaysAgree, ViewImplementsParts, PTL

-----------------------------------------------------------------------------
(* The list of pushes.                                                     *)

\* What is listed, and what a list and an answer make together, where C are the
\* last pushes of the pages that were cut.
Whole(L, n, C) ==
    /\ L \subseteq 1 .. n
    /\ \A r \in L : (\A q \in L : r <= q) \/ r - 1 \in L \/ r \in Linked \cup C
AnswersWhole(R, n, C) == \A r \in R :
    /\ "op" \in DOMAIN r
    /\ r.op \in {"fetchPushes", "pollPushes"} => Whole(r.list \cup r.data, n, C)
LinkedUrl == [revision : Linked \cup {None}, fromchange : Push \cup {None},
              tochange : Push \cup {None}, selected : Push \cup {None}]
ListAgrees ==
    /\ tip \in Push /\ win \in LinkedUrl /\ rtr \in LinkedUrl
    /\ Whole(pushList, tip, cutAbove) /\ oldest = LastPush(pushList)
    /\ AnswersWhole(requests, tip, cutAbove)

LEMMA WholePushes ==
    ASSUME tip \in Push, NEW L, NEW C, Whole(L, tip, C)
    PROVE  L \in SUBSET Push
BY StoreBounds DEF Whole, Push

\* It stays whole when pushes arrive and pages are cut.
LEMMA WholeStays ==
    ASSUME NEW L, NEW n, NEW m, NEW C, NEW D, Whole(L, n, C), 1 .. n \subseteq 1 .. m, C \subseteq D
    PROVE  Whole(L, m, D)
BY DEF Whole

LEMMA AnswersStay ==
    ASSUME NEW R, NEW n, NEW m, NEW C, NEW D, AnswersWhole(R, n, C), 1 .. n \subseteq 1 .. m,
           C \subseteq D
    PROVE  AnswersWhole(R, m, D)
BY WholeStays DEF AnswersWhole

\* The first and the last of some pushes.
LEMMA MinOfPushes ==
    ASSUME NEW S \in SUBSET Push, S # {}
    PROVE  Min(S) \in S /\ \A q \in S : Min(S) <= q
<1>1. S \in SUBSET Nat
  BY StoreBounds DEF Push
<1>2. PICK n \in S : \A q \in S : n <= q
  BY <1>1, LeastNumber
<1> QED BY <1>2 DEF Min

LEMMA MaxOfPushes ==
    ASSUME NEW S \in SUBSET Push, S # {}
    PROVE  Max(S) \in S /\ \A q \in S : q <= Max(S)
<1>1. MaxPush \in Nat /\ S \in SUBSET (0 .. MaxPush)
  BY StoreBounds DEF Push
<1> QED BY <1>1, LargestNumber

\* A page of an unbroken range is unbroken, and starts with its newest push.
Unbroken(S) == S \subseteq Push /\ \A p, q \in S : \A x \in Push : p <= x /\ x <= q => x \in S
LEMMA PageUnbroken ==
    ASSUME NEW S, Unbroken(S), NEW n \in Nat \ {0}
    PROVE  /\ Unbroken(Newest(S, n))
           /\ Newest(S, n) \subseteq S
           /\ \A p \in S : (\A q \in S : q <= p) => p \in Newest(S, n)
<1>1. IsFiniteSet(S) /\ \A q \in S : q \in Int
  <2>1. IsFiniteSet(Push) /\ \A q \in Push : q \in Int
    BY StoreBounds, FS_Interval DEF Push
  <2> QED BY <2>1, FS_Subset DEF Unbroken
<1>2. ASSUME NEW p \in S, NEW x \in S, p <= x, p \in Newest(S, n)
      PROVE  x \in Newest(S, n)
  <2> DEFINE P == {q \in S : q > p}
             X == {q \in S : q > x}
  <2>1. X \subseteq P
    BY <1>1, <1>2
  <2>2. IsFiniteSet(P) /\ IsFiniteSet(X) /\ Cardinality(X) <= Cardinality(P)
    <3>1. IsFiniteSet(P)
      BY <1>1, FS_Subset
    <3> HIDE DEF P, X
    <3> QED BY <2>1, <3>1, FS_Subset
  <2>3. Cardinality(P) \in Nat /\ Cardinality(X) \in Nat
    BY <2>2, FS_CardinalityType
  <2>4. Cardinality(P) < n
    BY <1>2 DEF Newest
  <2>5. Cardinality(X) < n
    <3> HIDE DEF P, X
    <3> QED BY <2>2, <2>3, <2>4
  <2> QED BY <2>5 DEF Newest
<1>3. ASSUME NEW p \in S, \A q \in S : q <= p
      PROVE  p \in Newest(S, n)
  <2>1. {q \in S : q > p} = {}
    BY <1>1, <1>3
  <2>2. Cardinality({q \in S : q > p}) = 0
    BY <2>1, FS_EmptySet
  <2> QED BY <2>2 DEF Newest
<1>4. Newest(S, n) \subseteq S
  BY DEF Newest
<1> QED BY <1>2, <1>3, <1>4 DEF Unbroken

\* What is asked of the server, and the range of it that there is.
LEMMA RangeUnbroken ==
    ASSUME tip \in Push, NEW f \in Push \cup {None}, NEW t \in Push \cup {None},
           NEW l \in Push \cup {None}
    PROVE  Unbroken(InRange(None, f, t, l))
BY StoreBounds DEF Unbroken, InRange, Push, None

LEMMA PageOfRevision ==
    ASSUME tip \in Push, NEW v \in Linked, NEW f, NEW t, NEW l
    PROVE  PushesFor(v, f, t, l) \subseteq {v} \cap (1 .. tip)
BY StoreBounds DEF PushesFor, Newest, InRange, None, Push

LEMMA UnbrokenWhole ==
    ASSUME NEW S, Unbroken(S), S \subseteq 1 .. tip, NEW C
    PROVE  Whole(S, tip, C)
<1>1. ASSUME NEW r \in S, NEW q \in S, q < r
      PROVE  r - 1 \in S
  <2>1. r - 1 \in Push /\ q <= r - 1 /\ r - 1 <= r
    BY <1>1, StoreBounds DEF Unbroken, Push
  <2> QED BY <2>1 DEF Unbroken
<1>2. S \subseteq Int
  BY StoreBounds DEF Unbroken, Push
<1> QED BY <1>1, <1>2 DEF Whole

\* A first fetch.
LEMMA FirstPage ==
    ASSUME tip \in Push, NEW v \in Linked \cup {None}, NEW f \in Push \cup {None},
           NEW t \in Push \cup {None}, NEW C
    PROVE  Whole(PushesFor(v, f, t, None), tip, C)
<1>1. CASE v = None
  <2>1. None \in Push \cup {None}
    OBVIOUS
  <2>2. Unbroken(InRange(v, f, t, None))
    BY <1>1, <2>1, RangeUnbroken
  <2>3. PICK n \in Nat \ {0} : PushesFor(v, f, t, None) = Newest(InRange(v, f, t, None), n)
    BY StoreBounds DEF PushesFor
  <2>4. InRange(v, f, t, None) \subseteq 1 .. tip
    BY DEF InRange
  <2> HIDE DEF None
  <2> QED BY <2>2, <2>3, <2>4, PageUnbroken, UnbrokenWhole
<1>2. CASE v \in Linked
  BY <1>2, PageOfRevision, StoreBounds DEF Whole, Push
<1> QED BY <1>1, <1>2

\* A page that ends with the last push of the list and one before it.
LEMMA NextPage ==
    ASSUME tip \in Push, NEW L, L # {}, NEW C, Whole(L, tip, C)
    PROVE  Whole(L \cup PushesFor(None, None, None, Min(L)), tip, C)
<1> DEFINE S == InRange(None, None, None, Min(L))
           D == PushesFor(None, None, None, Min(L))
<1>1. /\ Min(L) \in L /\ \A q \in L : Min(L) <= q
      /\ Min(L) \in Push /\ \A q \in L : q \in Int
  <2>1. L \in SUBSET Push
    BY WholePushes
  <2>2. \A q \in Push : q \in Int
    BY StoreBounds DEF Push
  <2> QED BY <2>1, <2>2, MinOfPushes
<1>2. D = Newest(S, Count + 1)
  BY <1>1, StoreBounds DEF PushesFor, None, Push
<1>3. Unbroken(S)
  BY <1>1, RangeUnbroken
<1>4. Min(L) \in S /\ \A q \in S : q <= Min(L)
  BY <1>1, StoreBounds DEF InRange, None, Push, Whole
<1>5. Unbroken(D) /\ D \subseteq S /\ Min(L) \in D
  <2>1. Count + 1 \in Nat \ {0}
    BY StoreBounds
  <2> HIDE DEF S, D
  <2> QED BY <1>2, <1>3, <1>4, <2>1, PageUnbroken
<1> HIDE DEF S, D
<1>6. Whole(D, tip, C) /\ \A q \in D : q \in Int
  <2>1. \A q \in Push : q \in Int
    BY StoreBounds DEF Push
  <2>2. D \subseteq 1 .. tip
    BY <1>2 DEF S, D, Newest, InRange
  <2> QED BY <1>5, <2>1, <2>2, UnbrokenWhole DEF Unbroken
<1>7. \A q \in D : q <= Min(L)
  BY <1>4, <1>5
<1>8. L \cup D \subseteq 1 .. tip
  BY <1>6 DEF Whole
<1>9. ASSUME NEW r \in L \cup D
      PROVE  (\A q \in L \cup D : r <= q) \/ r - 1 \in L \cup D \/ r \in Linked \cup C
  <2>1. CASE r \in D
    <3>1. CASE \A q \in D : r <= q
      <4>1. \A q \in L : r <= q
        BY <1>1, <1>5, <1>6, <3>1
      <4> QED BY <3>1, <4>1
    <3>2. CASE r - 1 \in D \/ r \in Linked \cup C
      BY <3>2
    <3> QED BY <1>6, <2>1, <3>1, <3>2 DEF Whole
  <2>2. CASE r \in L /\ r # Min(L)
    <3>1. Min(L) \in L /\ Min(L) <= r /\ Min(L) \in Int /\ r \in Int
      BY <1>1, <2>2
    <3>2. ~(r <= Min(L))
      BY <2>2, <3>1
    <3>3. r - 1 \in L \/ r \in Linked \cup C
      BY <2>2, <3>1, <3>2 DEF Whole
    <3> QED BY <3>3
  <2> QED BY <1>5, <1>9, <2>1, <2>2
<1> QED BY <1>8, <1>9 DEF Whole, D

\* A page from the newest push of the list on.
LEMMA PolledPage ==
    ASSUME tip \in Push, NEW L, L # {}, NEW C, Whole(L, tip, C),
           NEW v \in Linked \cup {None}, NEW t \in Push \cup {None}
    PROVE  LET D == PushesFor(v, Max(L), t, None)
           IN  Whole(L \cup D, tip, C \cup CutFrom(L, D))
<1> DEFINE S == InRange(v, Max(L), t, None)
           D == PushesFor(v, Max(L), t, None)
           E == C \cup CutFrom(L, D)
<1>1. /\ Max(L) \in L /\ \A q \in L : q <= Max(L)
      /\ Max(L) \in Push /\ \A q \in L : q \in Int
  <2>1. \A q \in Push : q \in Int
    BY StoreBounds DEF Push
  <2>2. L \in SUBSET Push
    BY WholePushes
  <2> QED BY <2>1, <2>2, MaxOfPushes
<1>2. D = Newest(S, MaxFetch) /\ MaxFetch \in Nat \ {0}
  BY <1>1, StoreBounds DEF PushesFor, None, Push
<1>3. S \subseteq Push /\ \A p \in S : Max(L) <= p
  BY <1>1, StoreBounds DEF InRange, None, Push
<1>4. D \subseteq S /\ D \in SUBSET Push /\ \A q \in D : q \in Int
  BY <1>2, <1>3, StoreBounds DEF Newest, Push
<1>5. v = None => Unbroken(D)
  <2> SUFFICES ASSUME v = None PROVE Unbroken(D)
    OBVIOUS
  <2>1. Unbroken(S)
    BY <1>1, RangeUnbroken
  <2> HIDE DEF S, D
  <2> QED BY <1>2, <2>1, PageUnbroken
<1>6. v # None => D \subseteq {v}
  BY PageOfRevision
<1>7. L \cup D \subseteq 1 .. tip
  BY <1>4 DEF InRange, Whole
<1> HIDE DEF S, D
<1>8. ASSUME NEW r \in L \cup D
      PROVE  (\A q \in L \cup D : r <= q) \/ r - 1 \in L \cup D \/ r \in Linked \cup E
  <2>1. CASE r \in L
    <3>1. CASE \A q \in L : r <= q
      BY <1>1, <1>3, <1>4, <2>1, <3>1
    <3> QED BY <2>1, <3>1 DEF Whole
  <2>2. CASE r \in D /\ r \notin L
    <3>1. r > Max(L) /\ r \in Push /\ r \in Int /\ Max(L) \in Int
      BY <1>1, <1>3, <1>4, <2>2
    <3>2. CASE v = None /\ \E q \in D : q < r
      <4>1. PICK q \in D : q < r
        BY <3>2
      <4>2. r - 1 \in Push /\ q <= r - 1 /\ r - 1 <= r
        BY <1>4, <3>1, <4>1, StoreBounds DEF Push
      <4> QED BY <1>5, <2>2, <3>2, <4>1, <4>2 DEF Unbroken
    <3>3. CASE \A q \in D : ~(q < r)
      <4>1. Min(D) \in D /\ Min(D) <= r
        BY <1>4, <2>2, MinOfPushes
      <4>2. Min(D) = r
        <5>1. Min(D) \in Int /\ r \in Int /\ ~(Min(D) < r)
          BY <1>4, <3>1, <3>3, <4>1
        <5> QED BY <4>1, <5>1
      <4>3. r \in CutFrom(L, D)
        BY <2>2, <3>1, <4>2 DEF CutFrom
      <4> QED BY <4>3
    <3> QED BY <1>6, <2>2, <3>2, <3>3
  <2> QED BY <1>8, <2>1, <2>2
<1> QED BY <1>7, <1>8 DEF Whole, D

\* Requests that stay under way when the list changes.
LEMMA ChildrenAnswers ==
    ASSUME NEW list, NEW open, NEW C, Children(list, open), AnswersWhole(open, tip, C)
    PROVE  AnswersWhole(requests', tip, C)
<1>1. ASSUME NEW p PROVE "op" \in DOMAIN FetchJobs(p) /\ FetchJobs(p).op = "fetchJobs"
  BY DEF FetchJobs
<1>2. ASSUME NEW r \in open, r.op = "fetchJobs"
      PROVE  "op" \in DOMAIN Disowned(r) /\ Disowned(r).op = "fetchJobs"
  <2>1. "op" \in DOMAIN r
    BY DEF AnswersWhole
  <2>2. Disowned(r) = [r EXCEPT !.live = FALSE]
    BY <1>2 DEF Disowned
  <2> QED BY <1>2, <2>1, <2>2
<1>3. ASSUME NEW q \in requests'
      PROVE  \/ \E p : q = FetchJobs(p)
             \/ \E r \in open : q = r \/ (r.op = "fetchJobs" /\ q = Disowned(r))
  BY <1>3 DEF Children
<1> QED BY <1>1, <1>2, <1>3 DEF AnswersWhole

\* A change of the range.
LEMMA RangeUpdated ==
    ASSUME ListAgrees, NEW url \in LinkedUrl, NEW sel, UpdateRange(url, sel),
           UNCHANGED <<tip, cutAbove>>
    PROVE  ListAgrees'
<1>1. CASE url.revision # None /\ url.revision \in pushList
  <2>1. /\ pushList' = {url.revision} /\ oldest' = url.revision
        /\ win' = [url EXCEPT !.selected = None] /\ rtr' = win'
        /\ Children({url.revision}, requests)
    BY <1>1 DEF UpdateRange
  <2>2. Whole(pushList', tip, cutAbove) /\ pushList' # {} /\ pushList' \in SUBSET Push
    BY <1>1, <2>1, StoreBounds DEF ListAgrees, Whole, Push
  <2>3. oldest' = LastPush(pushList')
    BY <2>1, <2>2, MinOfPushes DEF LastPush
  <2>4. win' \in LinkedUrl
    BY <2>1 DEF LinkedUrl
  <2>5. AnswersWhole(requests', tip, cutAbove)
    BY <2>1, ChildrenAnswers DEF ListAgrees
  <2> QED BY <2>1, <2>2, <2>3, <2>4, <2>5 DEF ListAgrees, LastPush
<1>2. CASE ~(url.revision # None /\ url.revision \in pushList)
  <2> DEFINE q == PushRequest(url, {}, None, FALSE)
  <2>1. /\ pushList' = {} /\ oldest' = None /\ win' = url /\ rtr' = url
        /\ Children({}, requests \cup {q})
    BY <1>2 DEF UpdateRange
  <2>2. /\ "op" \in DOMAIN q
        /\ q.list \cup q.data = PushesFor(url.revision, url.fromchange, url.tochange, None)
    BY DEF PushRequest
  <2>3. Whole(PushesFor(url.revision, url.fromchange, url.tochange, None), tip, cutAbove)
    BY FirstPage DEF ListAgrees, LinkedUrl
  <2> HIDE DEF q
  <2>4. AnswersWhole(requests \cup {q}, tip, cutAbove)
    BY <2>2, <2>3 DEF ListAgrees, AnswersWhole
  <2>5. AnswersWhole(requests', tip, cutAbove)
    BY <2>1, <2>4, ChildrenAnswers
  <2> QED BY <2>1, <2>5 DEF ListAgrees, LastPush, Whole
<1> QED BY <1>1, <1>2

LEMMA RoutePushed ==
    ASSUME ListAgrees, NEW url \in LinkedUrl, NEW sel, PushRoute(url, sel),
           UNCHANGED <<tip, cutAbove>>
    PROVE  ListAgrees'
<1>1. CASE UpdateRange(url, sel)
  BY <1>1, RangeUpdated
<1>2. CASE win' = url /\ rtr' = url /\ UNCHANGED <<storeVars, compVars, requests>>
  BY <1>2 DEF ListAgrees, storeVars
<1> QED BY <1>1, <1>2 DEF PushRoute

\* A request that is added to those under way.
LEMMA AnotherAnswer ==
    ASSUME ListAgrees, NEW q, "op" \in DOMAIN q,
           q.op \in {"fetchPushes", "pollPushes"} => Whole(q.list \cup q.data, tip, cutAbove'),
           requests' = requests \cup {q}, UNCHANGED <<tip, rtr, pushList, oldest>>,
           cutAbove \subseteq cutAbove', win' \in LinkedUrl
    PROVE  ListAgrees'
<1>1. AnswersWhole(requests, tip, cutAbove') /\ Whole(pushList, tip, cutAbove')
  BY AnswersStay, WholeStays DEF ListAgrees
<1>2. AnswersWhole(requests', tip, cutAbove')
  BY <1>1 DEF AnswersWhole
<1> QED BY <1>1, <1>2 DEF ListAgrees, LastPush

LEMMA ListInit == PushesInit => ListAgrees
<1> SUFFICES ASSUME PushesInit PROVE ListAgrees
  OBVIOUS
<1> DEFINE q == PushRequest(win, {}, None, FALSE)
<1>1. rtr = win /\ pushList = {} /\ oldest = None /\ requests = {q}
  BY DEF PushesInit
<1>2. win \in LinkedUrl
  BY StoreBounds DEF PushesInit, PlainUrl, LinkedUrl, Push
<1>3. tip \in Push
  BY StoreBounds DEF PushesInit, Push
<1>4. "op" \in DOMAIN q /\ q.list \cup q.data = PushesFor(win.revision, win.fromchange, win.tochange, None)
  BY DEF PushRequest
<1>5. Whole(PushesFor(win.revision, win.fromchange, win.tochange, None), tip, cutAbove)
  BY <1>2, <1>3, FirstPage DEF LinkedUrl
<1> HIDE DEF q
<1>6. AnswersWhole(requests, tip, cutAbove)
  BY <1>1, <1>4, <1>5 DEF AnswersWhole
<1> QED BY <1>1, <1>2, <1>3, <1>6 DEF ListAgrees, Whole, LastPush

\* The answer to a fetch or to a poll.
LEMMA ListMerged ==
    ASSUME ListAgrees, NEW r \in requests, ReceivePushes(r)
    PROVE  ListAgrees'
<1> DEFINE rest == requests \ {r}
           list == IF r.data = {} THEN pushList ELSE Merged(r.list, r.data)
           open == IF r.op = "pollPushes" /\ list # {} THEN rest \cup {JobsRequest(list)} ELSE rest
           merged == Merged(r.list, r.data)
<1>1. AddPushes(r.list, r.data, r.setFromchange, open) /\ UNCHANGED <<tip, rtr, cutAbove>>
  BY DEF ReceivePushes, serverVars, AddPushes
<1>2. AnswersWhole(open, tip, cutAbove)
  <2>1. "op" \in DOMAIN JobsRequest(list) /\ JobsRequest(list).op = "fetchNewJobs"
    BY DEF JobsRequest
  <2> HIDE DEF list
  <2> QED BY <2>1 DEF ListAgrees, AnswersWhole
<1>3. Whole(merged, tip, cutAbove)
  BY DEF ListAgrees, AnswersWhole, ReceivePushes, Merged
<1> HIDE DEF open
<1>4. CASE r.data # {}
  <2>1. /\ pushList' = merged /\ oldest' = LastPush(merged) /\ Children(merged, open)
        /\ win' \in {win, [win EXCEPT !.fromchange = LastPush(merged)]}
    BY <1>1, <1>4 DEF AddPushes, OldestOf
  <2>2. LastPush(merged) \in Push
    <3>1. merged \in SUBSET Push /\ merged # {}
      BY <1>3, <1>4, WholePushes DEF ListAgrees, Merged
    <3> HIDE DEF merged
    <3> QED BY <3>1, MinOfPushes DEF LastPush
  <2>3. win' \in LinkedUrl
    BY <2>1, <2>2 DEF ListAgrees, LinkedUrl
  <2>4. AnswersWhole(requests', tip, cutAbove)
    BY <1>2, <2>1, ChildrenAnswers
  <2> HIDE DEF merged
  <2> QED BY <1>1, <1>3, <2>1, <2>3, <2>4 DEF ListAgrees, LastPush
<1>5. CASE r.data = {}
  <2>1. requests' = open /\ UNCHANGED <<pushList, oldest, win>>
    BY <1>1, <1>5 DEF AddPushes
  <2> QED BY <1>1, <1>2, <2>1 DEF ListAgrees, LastPush
<1> QED BY <1>4, <1>5

LEMMA ListStep ==
    ASSUME ListAgrees, [PushesNext]_pushesVars
    PROVE  ListAgrees'
<1>1. CASE NewPush
  <2>1. tip' \in Push /\ 1 .. tip \subseteq 1 .. tip'
    BY <1>1, StoreBounds DEF NewPush, ListAgrees, Push
  <2>2. Whole(pushList, tip', cutAbove)
    BY <2>1, WholeStays DEF ListAgrees
  <2>3. AnswersWhole(requests, tip', cutAbove)
    BY <2>1, AnswersStay DEF ListAgrees
  <2> QED BY <1>1, <2>1, <2>2, <2>3 DEF NewPush, ListAgrees, LastPush, storeVars, urlVars
<1>2. ASSUME NEW p \in Linked, JobChanges(p)
      PROVE  ListAgrees'
  BY <1>2 DEF JobChanges, ListAgrees, LastPush, storeVars, urlVars
<1>3. ASSUME NEW p \in Linked \cup {None}, Navigate(p)
      PROVE  ListAgrees'
  <2>1. [PlainUrl EXCEPT !.revision = p] \in LinkedUrl
    BY DEF PlainUrl, LinkedUrl
  <2>2. PushRoute([PlainUrl EXCEPT !.revision = p], selected) /\ UNCHANGED <<tip, cutAbove>>
    BY <1>3 DEF Navigate, serverVars
  <2> QED BY <2>1, <2>2, RoutePushed
<1>4. ASSUME NEW p \in Linked, SelectJob(p)
      PROVE  ListAgrees'
  <2>1. [win EXCEPT !.selected = p] \in LinkedUrl
    BY StoreBounds DEF ListAgrees, LinkedUrl, Push
  <2>2. PushRoute([win EXCEPT !.selected = p], p) /\ UNCHANGED <<tip, cutAbove>>
    BY <1>4 DEF SelectJob, serverVars
  <2> QED BY <2>1, <2>2, RoutePushed
<1>5. CASE FetchNextPushes
  <2> DEFINE url == IF rtr.revision # None
                    THEN [rtr EXCEPT !.revision = None, !.tochange = rtr.revision] ELSE rtr
             q == PushRequest(url, pushList, oldest, TRUE)
  <2>1. /\ win' = url /\ requests' = requests \cup {q}
        /\ UNCHANGED <<tip, rtr, pushList, oldest, cutAbove>>
    BY <1>5 DEF FetchNextPushes, serverVars
  <2>2. url \in LinkedUrl /\ url.revision = None
    BY StoreBounds DEF ListAgrees, LinkedUrl, Push
  <2> HIDE DEF url
  <2>3. /\ "op" \in DOMAIN q /\ q.list = pushList
        /\ q.data = IF oldest = None
                    THEN PushesFor(url.revision, url.fromchange, url.tochange, None)
                    ELSE PushesFor(url.revision, None, None, oldest)
    BY DEF PushRequest
  <2> HIDE DEF q
  <2>4. CASE pushList = {}
    <3>1. oldest = None
      BY <2>4 DEF ListAgrees, LastPush
    <3>2. Whole(PushesFor(url.revision, url.fromchange, url.tochange, None), tip, cutAbove)
      BY <2>2, FirstPage DEF ListAgrees, LinkedUrl
    <3>3. Whole(q.list \cup q.data, tip, cutAbove)
      BY <2>3, <2>4, <3>1, <3>2
    <3> QED BY <2>1, <2>2, <2>3, <3>3, AnotherAnswer
  <2>5. CASE pushList # {}
    <3>1. oldest = Min(pushList) /\ oldest \in Push
      BY <2>5, MinOfPushes, WholePushes DEF ListAgrees, LastPush
    <3>2. oldest # None
      BY <3>1, StoreBounds DEF Push, None
    <3>3. Whole(pushList \cup PushesFor(None, None, None, Min(pushList)), tip, cutAbove)
      BY <2>5, NextPage DEF ListAgrees
    <3>4. Whole(q.list \cup q.data, tip, cutAbove)
      BY <2>2, <2>3, <3>1, <3>2, <3>3
    <3> QED BY <2>1, <2>2, <2>3, <3>4, AnotherAnswer
  <2> QED BY <2>4, <2>5
<1>6. CASE PollPushes
  <2> DEFINE from == IF pushList = {} THEN None ELSE Max(pushList)
             polled == PushesFor(win.revision, from, win.tochange, None)
  <2>1. UNCHANGED <<tip, win, rtr, pushList, oldest>> /\ win' \in LinkedUrl
    BY <1>6 DEF PollPushes, storeVars, urlVars, ListAgrees
  <2>2. CASE JobsOnly
    <3> DEFINE q == JobsRequest(pushList)
    <3>1. requests' = requests \cup {q} /\ UNCHANGED cutAbove
      BY <1>6, <2>2 DEF PollPushes
    <3>2. "op" \in DOMAIN q /\ q.op = "fetchNewJobs"
      BY DEF JobsRequest
    <3> HIDE DEF q
    <3> QED BY <2>1, <3>1, <3>2, AnotherAnswer
  <2>3. CASE ~JobsOnly
    <3> DEFINE q == [op |-> "pollPushes", list |-> pushList, setFromchange |-> FALSE,
                     data |-> polled]
    <3>1. requests' = requests \cup {q} /\ cutAbove' = cutAbove \cup CutFrom(pushList, polled)
      BY <1>6, <2>3 DEF PollPushes
    <3>2. Whole(pushList \cup polled, tip, cutAbove')
      <4>1. CASE pushList = {}
        <5>1. Whole(PushesFor(win.revision, None, win.tochange, None), tip, cutAbove')
          BY FirstPage DEF ListAgrees, LinkedUrl
        <5> QED BY <4>1, <5>1
      <4>2. CASE pushList # {}
        <5> DEFINE D == PushesFor(win.revision, Max(pushList), win.tochange, None)
        <5>1. Whole(pushList \cup D, tip, cutAbove \cup CutFrom(pushList, D))
          BY <4>2, PolledPage DEF ListAgrees, LinkedUrl
        <5>2. polled = D
          BY <4>2
        <5> HIDE DEF polled, D
        <5> QED BY <3>1, <5>1, <5>2
      <4> QED BY <4>1, <4>2
    <3> HIDE DEF polled
    <3>3. "op" \in DOMAIN q /\ q.list \cup q.data = pushList \cup polled
      OBVIOUS
    <3> HIDE DEF q
    <3> QED BY <2>1, <3>1, <3>2, <3>3, AnotherAnswer
  <2> QED BY <2>2, <2>3
<1>7. ASSUME NEW r \in requests, ReceivePushJobs(r) \/ ReceiveNewJobs(r)
      PROVE  ListAgrees'
  <2>1. /\ win' \in {win, [win EXCEPT !.selected = None]}
        /\ requests' = requests \ {r} /\ UNCHANGED <<tip, rtr, pushList, oldest, cutAbove>>
    BY <1>7 DEF ReceivePushJobs, ReceiveNewJobs, MapPushJobs, SelectFromUrl, serverVars
  <2>2. win' \in LinkedUrl
    BY <2>1 DEF ListAgrees, LinkedUrl
  <2> QED BY <2>1, <2>2 DEF ListAgrees, AnswersWhole, LastPush
<1>8. ASSUME NEW r \in requests, RequestFails(r)
      PROVE  ListAgrees'
  BY <1>8 DEF RequestFails, ListAgrees, AnswersWhole, LastPush, storeVars, urlVars
<1>9. CASE UNCHANGED pushesVars
  BY <1>9 DEF pushesVars, ListAgrees, LastPush
<1> QED
  BY <1>1, <1>2, <1>3, <1>4, <1>5, <1>6, <1>7, <1>8, <1>9, ListMerged
  DEF PushesNext, Receive, Fail

\* Reading down the list and asking for more of it shows every push in turn, for
\* any sizes of pages and any number of polls at once: where a poll's page was
\* full, the gap is right below it.
THEOREM ListIsWholeCorrect == ViewSpec => []ListIsWhole
<1>1. ListAgrees => ListIsWhole
  <2> SUFFICES ASSUME ListAgrees PROVE ListIsWhole
    OBVIOUS
  <2>1. OldestIsLast
    BY DEF ListAgrees, LastPush, OldestIsLast
  <2>2. ASSUME NEW r \in pushList, \A q \in pushList : r <= q
        PROVE  r = Min(pushList)
    <3>1. pushList \in SUBSET Push
      BY WholePushes DEF ListAgrees
    <3>2. Min(pushList) \in pushList /\ Min(pushList) <= r /\ r <= Min(pushList)
      BY <2>2, <3>1, MinOfPushes
    <3>3. r \in Int /\ Min(pushList) \in Int
      <4>1. \A q \in Push : q \in Int
        BY StoreBounds DEF Push
      <4> QED BY <2>2, <3>1, <3>2, <4>1
    <3> QED BY <3>2, <3>3
  <2>3. NoGap
    BY <2>2 DEF ListAgrees, Whole, NoGap
  <2> QED BY <2>1, <2>3 DEF ListIsWhole
<1> QED BY <1>1, ListInit, ListStep, ViewImplementsParts, PTL DEF PushesSpec

-----------------------------------------------------------------------------
(* The types of the push store.                                           *)

\* What waits for an answer.
PushesAsked == [op : {"fetchPushes", "pollPushes"}, list : SUBSET Push, setFromchange : BOOLEAN,
                data : SUBSET Push]
NewJobsAsked == [op : {"fetchNewJobs"}, jobs : [Push -> 0 .. MaxClock]]
JobsAsked == [op : {"fetchJobs"}, push : Push, live : BOOLEAN, job : 0 .. MaxClock]
WaitingAnswers == PushesAsked \cup NewJobsAsked \cup JobsAsked

\* Each kind of request is told by its name.
LEMMA KindOfRequest ==
    ASSUME NEW r \in WaitingAnswers
    PROVE  /\ r.op \in Ops
           /\ r.op \in {"fetchPushes", "pollPushes"} => r \in PushesAsked
           /\ r.op = "fetchNewJobs" => r \in NewJobsAsked
           /\ r.op = "fetchJobs" => r \in JobsAsked
BY DEF WaitingAnswers, PushesAsked, NewJobsAsked, JobsAsked, Ops

\* The clock is the last change of a job.
LEMMA ClockType ==
    ASSUME mod \in [Push -> 0 .. MaxClock] PROVE Clock \in 0 .. MaxClock
<1> DEFINE S == {mod[p] : p \in Push}
<1>1. S \in SUBSET (0 .. MaxClock) /\ MaxClock \in Nat
  BY StoreBounds
<1>2. S # {}
  <2>1. mod[1] \in S
    BY StoreBounds DEF Push
  <2> QED BY <2>1
<1> HIDE DEF S
<1>3. Max(S) \in S
  BY <1>1, <1>2, LargestNumber
<1> QED BY <1>1, <1>3 DEF S, Clock

\* A page of pushes that have arrived.
LEMMA PageType ==
    ASSUME tip \in Push, NEW revision, NEW fromchange, NEW tochange, NEW lte
    PROVE  PushesFor(revision, fromchange, tochange, lte) \subseteq Push
BY StoreBounds DEF PushesFor, Newest, InRange, Push

\* The last push of a list is one of them.
LEMMA LastType ==
    ASSUME NEW S \in SUBSET Push PROVE LastPush(S) \in Push \cup {None}
BY MinOfPushes DEF LastPush

\* What the URLs, the store and the components hold.
UrlsOK == win \in Url /\ rtr \in Url /\ selected \in Push \cup {None}
ListOK == pushList \subseteq Push /\ oldest \in Push \cup {None} /\ loading \in BOOLEAN
JobsOK == /\ jobMap \in [Push -> 0 .. MaxClock] /\ loaded \subseteq Push /\ jobsLoaded \in BOOLEAN
CompsOK == /\ comp \in [Push -> {"none", "fetching", "ready"}]
           /\ jobList \in [Push -> 0 .. MaxClock] /\ requests \subseteq WaitingAnswers
ServerOK == /\ tip \in Push /\ mod \in [Push -> 0 .. MaxClock] /\ cutAbove \subseteq Push
            /\ budget \in [newest: Push, jobs: 0 .. MaxClock, changes: Nat, moves: Nat,
                           nexts: Nat, failures: Nat, polls: Nat]
StoreTyped == ServerOK /\ UrlsOK /\ ListOK /\ JobsOK /\ CompsOK

LEMMA StoreTypes == StoreTyped => PushesTypeOK
<1> SUFFICES ASSUME StoreTyped PROVE PushesTypeOK
  OBVIOUS
<1>1. \A r \in requests : r.op \in Ops
  BY KindOfRequest DEF StoreTyped, CompsOK
<1> QED BY <1>1 DEF StoreTyped, ServerOK, UrlsOK, ListOK, JobsOK, CompsOK, PushesTypeOK

\* The components of a list, and the requests of those that mount.
LEMMA ChildrenTypes ==
    ASSUME StoreTyped, NEW list \in SUBSET Push, NEW open \in SUBSET WaitingAnswers, Children(list, open)
    PROVE  CompsOK'
<1>1. /\ comp' \in [Push -> {"none", "fetching", "ready"}]
      /\ jobList' \in [Push -> 0 .. MaxClock]
  <2>1. 0 \in 0 .. MaxClock
    BY StoreBounds
  <2> QED BY <2>1 DEF Children, StoreTyped, CompsOK
<1>2. ASSUME NEW p \in Push PROVE FetchJobs(p) \in WaitingAnswers
  BY DEF FetchJobs, WaitingAnswers, JobsAsked, StoreTyped, ServerOK
<1>3. ASSUME NEW r \in open PROVE Disowned(r) \in WaitingAnswers
  <2>1. CASE r.op = "fetchJobs"
    <3>1. r \in JobsAsked
      BY <2>1, KindOfRequest
    <3>2. [r EXCEPT !.live = FALSE] \in JobsAsked
      BY <3>1 DEF JobsAsked
    <3> QED BY <2>1, <3>2 DEF Disowned, WaitingAnswers
  <2> QED BY <2>1 DEF Disowned
<1>4. ASSUME NEW q \in requests'
      PROVE  (\E r \in open : q = r \/ q = Disowned(r)) \/ \E p \in Push : q = FetchJobs(p)
  BY <1>4 DEF Children
<1>5. requests' \subseteq WaitingAnswers
  BY <1>2, <1>3, <1>4
<1> QED BY <1>1, <1>5 DEF CompsOK

\* A list that is merged with an answer.
LEMMA AddTypes ==
    ASSUME StoreTyped, NEW list \in SUBSET Push, NEW data \in SUBSET Push, NEW b \in BOOLEAN,
           NEW open \in SUBSET WaitingAnswers, AddPushes(list, data, b, open), UNCHANGED selected
    PROVE  UrlsOK' /\ ListOK' /\ JobsOK' /\ CompsOK'
<1>0. UrlsOK /\ ListOK /\ JobsOK /\ CompsOK
  BY DEF StoreTyped
<1> DEFINE merged == Merged(list, data)
<1>1. merged \in SUBSET Push /\ LastPush(merged) \in Push \cup {None}
  BY LastType DEF Merged
<1>2. loading' = FALSE /\ UNCHANGED <<rtr, jobsLoaded, jobMap>>
  BY DEF AddPushes
<1>3. CASE data # {}
  <2>1. /\ pushList' = merged /\ oldest' = LastPush(merged) /\ loaded' = loaded \ (data \ list)
        /\ win' \in {win, [win EXCEPT !.fromchange = LastPush(merged)]}
        /\ Children(merged, open)
    BY <1>3 DEF AddPushes, OldestOf
  <2> HIDE DEF merged
  <2>2. win' \in Url
    BY <1>0, <1>1, <2>1 DEF UrlsOK, Url
  <2>3. CompsOK'
    BY <1>1, <2>1, ChildrenTypes
  <2> QED BY <1>0, <1>1, <1>2, <2>1, <2>2, <2>3 DEF UrlsOK, ListOK, JobsOK
<1>4. CASE data = {}
  <2>1. requests' = open /\ UNCHANGED <<pushList, oldest, loaded, win, compVars>>
    BY <1>4 DEF AddPushes
  <2> QED BY <1>0, <1>2, <2>1 DEF UrlsOK, ListOK, JobsOK, CompsOK, compVars
<1> QED BY <1>3, <1>4

\* A fetch.
LEMMA PushRequestType ==
    ASSUME tip \in Push, NEW url, NEW list \in SUBSET Push, NEW old, NEW b \in BOOLEAN
    PROVE  PushRequest(url, list, old, b) \in WaitingAnswers
<1>1. \A r, f, t, l : PushesFor(r, f, t, l) \in SUBSET Push
  BY PageType
<1> QED BY <1>1 DEF PushRequest, WaitingAnswers, PushesAsked

\* A change of the range, and a route that is pushed.
LEMMA RouteTypes ==
    ASSUME StoreTyped, NEW url \in Url, NEW sel \in Push \cup {None}, PushRoute(url, sel)
    PROVE  UrlsOK' /\ ListOK' /\ JobsOK' /\ CompsOK'
<1>0. UrlsOK /\ ListOK /\ JobsOK /\ CompsOK /\ tip \in Push /\ 0 \in 0 .. MaxClock
  BY StoreBounds DEF StoreTyped, ServerOK
<1>1. CASE win' = url /\ rtr' = url /\ selected' = sel /\ UNCHANGED <<storeVars, compVars, requests>>
  BY <1>0, <1>1 DEF storeVars, compVars, UrlsOK, ListOK, JobsOK, CompsOK
<1>2. CASE UpdateRange(url, sel) /\ url.revision # None /\ url.revision \in pushList
  <2> DEFINE one == {url.revision}
  <2>1. /\ pushList' = one /\ oldest' = url.revision /\ loading' = FALSE
        /\ jobMap' = [p \in Push |-> IF p \in one THEN jobMap[p] ELSE 0]
        /\ selected' \in {None, sel}
        /\ win' = [url EXCEPT !.selected = None] /\ rtr' = win'
        /\ Children(one, requests) /\ UNCHANGED <<jobsLoaded, loaded>>
    BY <1>2 DEF UpdateRange
  <2>2. one \in SUBSET Push
    BY <1>0, <1>2 DEF ListOK
  <2>3. win' \in Url
    BY <2>1 DEF Url
  <2>4. CompsOK'
    BY <1>0, <2>1, <2>2, ChildrenTypes DEF CompsOK
  <2>5. UrlsOK' /\ ListOK'
    BY <1>0, <2>1, <2>2, <2>3 DEF UrlsOK, ListOK
  <2>6. JobsOK'
    BY <1>0, <2>1 DEF JobsOK
  <2> QED BY <2>4, <2>5, <2>6
<1>3. CASE UpdateRange(url, sel) /\ ~(url.revision # None /\ url.revision \in pushList)
  <2> DEFINE q == PushRequest(url, {}, None, FALSE)
  <2>1. /\ pushList' = {} /\ oldest' = None /\ loading' = TRUE /\ jobsLoaded' = FALSE
        /\ jobMap' = [p \in Push |-> 0] /\ win' = url /\ rtr' = url
        /\ Children({}, requests \cup {q}) /\ selected' = sel /\ UNCHANGED loaded
    BY <1>3 DEF UpdateRange
  <2>2. q \in WaitingAnswers
    BY <1>0, PushRequestType
  <2> HIDE DEF q
  <2>3. CompsOK'
    BY <1>0, <2>1, <2>2, ChildrenTypes DEF CompsOK
  <2>4. UrlsOK' /\ ListOK'
    BY <1>0, <2>1 DEF UrlsOK, ListOK
  <2>5. JobsOK'
    BY <1>0, <2>1 DEF JobsOK
  <2> QED BY <2>3, <2>4, <2>5
<1> QED BY <1>1, <1>2, <1>3 DEF PushRoute

\* The jobs that pushes were asked for.
LEMMA JobsTypes ==
    ASSUME StoreTyped, NEW jobs \in [Push -> 0 .. MaxClock], NEW done \in SUBSET Push,
           MapPushJobs(jobs, done)
    PROVE  JobsOK' /\ (UNCHANGED rtr => UrlsOK')
<1>0. UrlsOK /\ JobsOK
  BY DEF StoreTyped
<1> DEFINE map == [p \in Push |-> IF jobs[p] # 0 THEN jobs[p] ELSE jobMap[p]]
<1>1. /\ loaded' = loaded \cup done /\ jobMap' = map
      /\ jobsLoaded' = jobsLoaded \/ jobsLoaded' \in BOOLEAN
      /\ UNCHANGED <<selected, win>> \/ SelectFromUrl(map)
  BY DEF MapPushJobs
<1>2. map \in [Push -> 0 .. MaxClock]
  BY <1>0 DEF JobsOK
<1>3. JobsOK'
  BY <1>0, <1>1, <1>2 DEF JobsOK
<1>4. /\ win' \in {win, [win EXCEPT !.selected = None]}
      /\ selected' \in {selected, win.selected, None}
  BY <1>1 DEF SelectFromUrl
<1>5. win' \in Url /\ selected' \in Push \cup {None}
  BY <1>0, <1>4 DEF UrlsOK, Url
<1> QED BY <1>0, <1>3, <1>5 DEF UrlsOK

\* The jobs of a push, and of a poll.
LEMMA ReceivedTypes ==
    ASSUME StoreTyped, NEW r \in requests, ReceivePushJobs(r) \/ ReceiveNewJobs(r)
    PROVE  UrlsOK' /\ ListOK' /\ JobsOK' /\ CompsOK'
<1>0. ListOK /\ CompsOK /\ r \in WaitingAnswers /\ 0 \in 0 .. MaxClock
  BY StoreBounds DEF StoreTyped, CompsOK
<1>1. requests' = requests \ {r} /\ UNCHANGED <<rtr, pushList, oldest, loading>>
  BY DEF ReceivePushJobs, ReceiveNewJobs
<1>2. CASE ReceivePushJobs(r)
  <2> DEFINE jobs == [p \in Push |-> IF p = r.push THEN r.job ELSE 0]
  <2>1. r.push \in Push /\ r.job \in 0 .. MaxClock
    BY <1>0, <1>2, KindOfRequest DEF ReceivePushJobs, JobsAsked
  <2>2. jobs \in [Push -> 0 .. MaxClock]
    BY <1>0, <2>1
  <2>3. MapPushJobs(jobs, {r.push})
    BY <1>2 DEF ReceivePushJobs
  <2> HIDE DEF jobs
  <2>4. UrlsOK' /\ JobsOK'
    BY <1>1, <2>1, <2>2, <2>3, JobsTypes
  <2>5. /\ comp' = comp \/ comp' = [comp EXCEPT ![r.push] = "ready"]
        /\ jobList' = jobList \/ jobList' = [jobList EXCEPT ![r.push] = r.job]
    BY <1>2 DEF ReceivePushJobs, compVars
  <2>6. CompsOK'
    BY <1>0, <1>1, <2>1, <2>5 DEF CompsOK
  <2> QED BY <1>0, <1>1, <2>4, <2>6 DEF ListOK
<1>3. CASE ReceiveNewJobs(r)
  <2> DEFINE heard == [p \in Push |-> IF comp[p] = "ready" THEN r.jobs[p] ELSE 0]
  <2>1. r.jobs \in [Push -> 0 .. MaxClock]
    BY <1>0, <1>3, KindOfRequest DEF ReceiveNewJobs, NewJobsAsked
  <2>2. heard \in [Push -> 0 .. MaxClock]
    BY <1>0, <2>1
  <2>3. /\ MapPushJobs(heard, {p \in Push : heard[p] # 0})
        /\ jobList' = [p \in Push |-> IF heard[p] # 0 THEN heard[p] ELSE jobList[p]]
        /\ UNCHANGED comp
    BY <1>3 DEF ReceiveNewJobs
  <2> HIDE DEF heard
  <2>4. UrlsOK' /\ JobsOK'
    BY <1>1, <2>2, <2>3, JobsTypes
  <2>5. CompsOK'
    BY <1>0, <1>1, <2>2, <2>3 DEF CompsOK
  <2> QED BY <1>0, <1>1, <2>4, <2>5 DEF ListOK
<1> QED BY <1>2, <1>3

LEMMA PushesInitTypes == PushesInit => StoreTyped
<1> SUFFICES ASSUME PushesInit PROVE StoreTyped
  OBVIOUS
<1>1. tip \in Push /\ budget.jobs \in 0 .. MaxClock /\ 0 \in 0 .. MaxClock
  BY StoreBounds DEF PushesInit, Push
<1>2. ServerOK
  <2>1. mod \in [Push -> 0 .. MaxClock]
    BY <1>1 DEF PushesInit
  <2>2. budget \in Budgets /\ cutAbove = {}
    BY DEF PushesInit
  <2> QED BY <1>1, <2>1, <2>2, StoreBounds DEF ServerOK, Push
<1>3. win \in Url
  BY StoreBounds DEF PushesInit, PlainUrl, Url, Push
<1>4. UrlsOK
  BY <1>3 DEF PushesInit, UrlsOK
<1>5. ListOK
  BY DEF PushesInit, ListOK
<1>6. JobsOK
  BY <1>1 DEF PushesInit, JobsOK
<1>7. PushRequest(win, {}, None, FALSE) \in WaitingAnswers
  BY <1>1, PushRequestType
<1>8. CompsOK
  BY <1>1, <1>7 DEF PushesInit, CompsOK
<1> QED BY <1>2, <1>4, <1>5, <1>6, <1>8 DEF StoreTyped

LEMMA PushesStepTypes ==
    ASSUME StoreTyped, [PushesNext]_pushesVars
    PROVE  StoreTyped'
<1>0. /\ ServerOK /\ UrlsOK /\ ListOK /\ JobsOK /\ CompsOK
      /\ MaxClock \in Nat /\ MaxPush \in Nat
  BY StoreBounds DEF StoreTyped
<1>1. /\ UNCHANGED <<serverVars, budget>> => ServerOK'
      /\ UNCHANGED <<urlVars, selected>> => UrlsOK'
      /\ UNCHANGED storeVars => ListOK' /\ JobsOK'
      /\ UNCHANGED <<compVars, requests>> => CompsOK'
  BY <1>0 DEF serverVars, urlVars, storeVars, compVars, ServerOK, UrlsOK, ListOK, JobsOK, CompsOK
<1>2. ASSUME NEW what \in {"changes", "moves", "nexts", "failures"}, Spend(what)
      PROVE  budget' \in [newest: Push, jobs: 0 .. MaxClock, changes: Nat, moves: Nat,
                          nexts: Nat, failures: Nat, polls: Nat]
  BY <1>0, <1>2 DEF Spend, ServerOK
<1>a. ASSUME NEW what \in {"moves", "nexts"}, Spend(what), UNCHANGED serverVars
      PROVE  ServerOK'
  BY <1>0, <1>2, <1>a DEF serverVars, ServerOK
<1>3. ASSUME NEW q \in WaitingAnswers, requests' = requests \cup {q}, UNCHANGED compVars
      PROVE  CompsOK'
  BY <1>0, <1>3 DEF CompsOK, compVars
<1>4. ASSUME NEW list PROVE JobsRequest(list) \in WaitingAnswers
  <2>1. [p \in Push |-> IF p \in list /\ mod[p] >= LastModified THEN mod[p] ELSE 0]
          \in [Push -> 0 .. MaxClock]
    BY <1>0 DEF ServerOK
  <2> QED BY <2>1 DEF JobsRequest, WaitingAnswers, NewJobsAsked
<1>5. CASE NewPush
  <2>1. ServerOK'
    BY <1>0, <1>5 DEF NewPush, ServerOK, Push
  <2> QED BY <1>1, <1>5, <2>1 DEF NewPush, StoreTyped
<1>6. ASSUME NEW p \in Linked, JobChanges(p)
      PROVE  StoreTyped'
  <2>1. Clock \in 0 .. MaxClock /\ Clock < MaxClock /\ mod' = [mod EXCEPT ![p] = Clock + 1]
    BY <1>0, <1>6, ClockType DEF JobChanges, ServerOK
  <2>2. Clock + 1 \in 0 .. MaxClock
    BY <1>0, <2>1
  <2>3. ServerOK'
    BY <1>0, <1>2, <1>6, <2>1, <2>2 DEF JobChanges, ServerOK
  <2> QED BY <1>1, <1>6, <2>3 DEF JobChanges, StoreTyped
<1>7. ASSUME NEW p \in Linked \cup {None}, Navigate(p)
      PROVE  StoreTyped'
  <2>1. [PlainUrl EXCEPT !.revision = p] \in Url
    BY StoreBounds DEF PlainUrl, Url, Push
  <2>2. PushRoute([PlainUrl EXCEPT !.revision = p], selected) /\ selected \in Push \cup {None}
    BY <1>0, <1>7 DEF Navigate, UrlsOK
  <2> QED BY <1>a, <1>7, <2>1, <2>2, RouteTypes DEF Navigate, StoreTyped
<1>8. ASSUME NEW p \in Linked, SelectJob(p)
      PROVE  StoreTyped'
  <2>1. p \in Push \cup {None} /\ [win EXCEPT !.selected = p] \in Url
    BY <1>0, StoreBounds DEF UrlsOK, Url, Push
  <2>2. PushRoute([win EXCEPT !.selected = p], p)
    BY <1>8 DEF SelectJob
  <2> QED BY <1>a, <1>8, <2>1, <2>2, RouteTypes DEF SelectJob, StoreTyped
<1>9. CASE FetchNextPushes
  <2> DEFINE url == IF rtr.revision # None
                    THEN [rtr EXCEPT !.revision = None, !.tochange = rtr.revision] ELSE rtr
             q == PushRequest(url, pushList, oldest, TRUE)
  <2>1. /\ win' = url /\ loading' = TRUE /\ requests' = requests \cup {q} /\ Spend("nexts")
        /\ UNCHANGED <<serverVars, rtr, pushList, oldest, jobsLoaded, jobMap, loaded, selected,
                       compVars>>
    BY <1>9 DEF FetchNextPushes
  <2>2. url \in Url
    BY <1>0 DEF UrlsOK, Url
  <2>3. q \in WaitingAnswers
    BY <1>0, PushRequestType DEF ListOK, ServerOK
  <2> HIDE DEF url, q
  <2>4. UrlsOK' /\ ListOK' /\ JobsOK'
    BY <1>0, <2>1, <2>2 DEF UrlsOK, ListOK, JobsOK
  <2> QED BY <1>a, <1>3, <2>1, <2>3, <2>4 DEF StoreTyped
<1>10. CASE PollPushes
  <2> DEFINE from == IF pushList = {} THEN None ELSE Max(pushList)
             polled == PushesFor(win.revision, from, win.tochange, None)
             p == [op |-> "pollPushes", list |-> pushList, setFromchange |-> FALSE,
                   data |-> polled]
             q == IF JobsOnly THEN JobsRequest(pushList) ELSE p
  <2>1. /\ requests' = requests \cup {q}
        /\ cutAbove' \in {cutAbove, cutAbove \cup CutFrom(pushList, polled)}
        /\ UNCHANGED <<tip, mod, budget, storeVars, urlVars, selected, compVars>>
    BY <1>10 DEF PollPushes
  <2>2. polled \in SUBSET Push
    BY <1>0, PageType DEF ServerOK
  <2> HIDE DEF polled
  <2>3. p \in WaitingAnswers
    BY <1>0, <2>2 DEF WaitingAnswers, PushesAsked, ListOK
  <2>4. q \in WaitingAnswers
    BY <1>4, <2>3
  <2>5. CutFrom(pushList, polled) \subseteq Push
    BY <2>2, MinOfPushes DEF CutFrom
  <2> HIDE DEF q
  <2>6. ServerOK'
    BY <1>0, <2>1, <2>5 DEF ServerOK
  <2> QED BY <1>1, <1>3, <2>1, <2>4, <2>6 DEF StoreTyped
<1>11. ASSUME NEW r \in requests, ReceivePushes(r)
       PROVE  StoreTyped'
  <2> DEFINE rest == requests \ {r}
             list == IF r.data = {} THEN pushList ELSE Merged(r.list, r.data)
             open == IF r.op = "pollPushes" /\ list # {} THEN rest \cup {JobsRequest(list)} ELSE rest
  <2>1. AddPushes(r.list, r.data, r.setFromchange, open) /\ UNCHANGED <<serverVars, budget, selected>>
    BY <1>11 DEF ReceivePushes
  <2>2. r.list \in SUBSET Push /\ r.data \in SUBSET Push /\ r.setFromchange \in BOOLEAN
    BY <1>0, <1>11, KindOfRequest DEF ReceivePushes, CompsOK, PushesAsked
  <2> HIDE DEF list
  <2>3. open \in SUBSET WaitingAnswers
    BY <1>0, <1>4 DEF CompsOK
  <2> HIDE DEF open
  <2> QED BY <1>1, <2>1, <2>2, <2>3, AddTypes DEF StoreTyped
<1>12. ASSUME NEW r \in requests, ReceivePushJobs(r) \/ ReceiveNewJobs(r)
       PROVE  StoreTyped'
  <2>1. UNCHANGED <<serverVars, budget>>
    BY <1>12 DEF ReceivePushJobs, ReceiveNewJobs
  <2> QED BY <1>1, <1>12, <2>1, ReceivedTypes DEF StoreTyped
<1>13. ASSUME NEW r \in requests, RequestFails(r)
       PROVE  StoreTyped'
  <2>1. ServerOK'
    BY <1>0, <1>2, <1>13 DEF RequestFails, ServerOK
  <2>2. r.op = "fetchJobs" => r.push \in Push
    BY <1>0, <1>13, KindOfRequest DEF CompsOK, JobsAsked
  <2>3. CompsOK'
    BY <1>0, <1>13, <2>2 DEF RequestFails, CompsOK
  <2> QED BY <1>1, <1>13, <2>1, <2>3 DEF RequestFails, StoreTyped
<1>14. CASE UNCHANGED pushesVars
  BY <1>1, <1>14 DEF pushesVars, serverVars, urlVars, storeVars, compVars, StoreTyped
<1> QED
  BY <1>5, <1>6, <1>7, <1>8, <1>9, <1>10, <1>11, <1>12, <1>13, <1>14 DEF PushesNext, Receive, Fail

\* The list of pushes, for any number of pushes, clicks and answers.
LEMMA PushesTypes == PushesSpec => []PushesTypeOK
BY StoreTypes, PushesInitTypes, PushesStepTypes, PTL DEF PushesSpec

-----------------------------------------------------------------------------
(* The types of the details panel and of what it opens.                   *)

\* The panel with the details: selections are numbered as they are made, and the
\* controller is that of one whose requests are under way.
LEMMA DetTypes == DetSpec => []DetTypeOK
<1> DEFINE Select == [id : 1 .. MaxSelects, job : DetJobs,
                      stage : {"abortable", "rest", "series"}]
           Update == [job : DetJobs, version : Versions, select : 0 .. MaxSelects]
           Shown == /\ selectedJob \in JobOrNone /\ full \in JobOrNone /\ tabJob \in JobOrNone
                    /\ notesShown \in [job : JobOrNone, version : Versions]
                    /\ notesShown.version > 0 => notesShown.job \in DetJobs
           Panel == /\ detLoading \in BOOLEAN /\ tabPerf \in BOOLEAN /\ perfDetail \in BOOLEAN
                    /\ tab \in 0 .. 5
           Selects == /\ nSelects \in 0 .. MaxSelects /\ selects \subseteq Select
                      /\ controller \in {0} \cup {s.id : s \in selects}
           Updates == updates \subseteq Update /\ noteVersion \in [DetJobs -> Versions]
           Inv == Shown /\ Panel /\ Selects /\ Updates
<1>0. Inv => DetTypeOK
  BY DEF DetTypeOK
<1>b. MaxSelects \in Nat /\ MaxNoteChanges \in Nat
  BY DetBounds
<1>1. DetInit => Inv
  <2> SUFFICES ASSUME DetInit PROVE Inv
    OBVIOUS
  <2>1. Shown
    <3>1. selectedJob = NoJob /\ full = NoJob /\ tabJob = NoJob /\ NoJob \in JobOrNone
      BY DEF DetInit, JobOrNone
    <3>2. notesShown = [job |-> NoJob, version |-> 0]
      BY DEF DetInit
    <3>3. 0 \in Versions
      BY <1>b DEF Versions
    <3> QED BY <3>1, <3>2, <3>3
  <2>2. Panel
    <3>1. tab = 0
      BY DEF DetInit
    <3>2. tab \in 0 .. 5
      BY <3>1
    <3>3. detLoading \in BOOLEAN /\ tabPerf \in BOOLEAN /\ perfDetail \in BOOLEAN
      BY DEF DetInit
    <3> QED BY <3>2, <3>3
  <2>3. Selects /\ Updates
    <3>1. controller = 0 /\ selects = {} /\ updates = {} /\ nSelects = 0
          /\ noteVersion = [j \in DetJobs |-> 0]
      BY DEF DetInit
    <3>2. 0 \in Versions /\ 0 \in 0 .. MaxSelects
      BY <1>b DEF Versions
    <3> QED BY <3>1, <3>2
  <2> QED BY <2>1, <2>2, <2>3
<1>2. ASSUME Inv, [DetNext]_detVars
      PROVE  Inv'
  <2>0. Shown /\ Panel /\ Selects /\ Updates
    BY <1>2
  <2>1. /\ UNCHANGED <<selectedJob, full, tabJob, notesShown>> => Shown'
        /\ UNCHANGED <<detLoading, tabPerf, perfDetail, tab>> => Panel'
        /\ UNCHANGED <<nSelects, selects, controller>> => Selects'
        /\ UNCHANGED <<updates, noteVersion>> => Updates'
    BY <2>0
  <2>2. \A j \in DetJobs, select \in 0 .. MaxSelects : UpdateFor(j, select) \in Update
    BY <2>0 DEF UpdateFor
  <2>3. selectedJob # NoJob => selectedJob \in DetJobs
    BY <2>0 DEF JobOrNone
  <2>4. ASSUME NEW j \in DetJobs, SelectOne(j)
        PROVE  Inv'
    <3> DEFINE new == [id |-> nSelects + 1, job |-> j, stage |-> "abortable"]
    <3>1. /\ selectedJob' = j /\ detLoading' = TRUE /\ nSelects < MaxSelects
          /\ selects' = (selects \ Abortable) \cup {new}
          /\ controller' = IF Abortable # {} THEN 0 ELSE new.id
          /\ nSelects' = nSelects + 1
          /\ UNCHANGED <<panelVars, notesShown, updates, noteVersion>>
      BY <2>4 DEF SelectOne, StartSelect
    <3>2. new \in Select
      BY <1>b, <2>0, <3>1
    <3>3. nSelects' \in 0 .. MaxSelects
      BY <1>b, <2>0, <3>1
    <3> HIDE DEF new, Select
    <3>4. Selects'
      BY <2>0, <3>1, <3>2, <3>3
    <3>5. Shown' /\ Panel'
      BY <2>0, <3>1 DEF panelVars, JobOrNone
    <3> QED BY <2>1, <3>1, <3>4, <3>5
  <2>5. CASE ClearSelected
    <3>1. Shown'
      BY <2>0, <2>5 DEF ClearSelected, panelVars, JobOrNone
    <3> QED BY <2>1, <2>5, <3>1 DEF ClearSelected, panelVars
  <2>6. ASSUME NEW s \in selects, AbortableAnswered(s) \/ RestAnswered(s)
        PROVE  Inv'
    <3>1. PICK stage \in {"rest", "series"} : Advance(s, stage)
      BY <2>6 DEF AbortableAnswered, RestAnswered
    <3> DEFINE t == [s EXCEPT !.stage = stage]
    <3>2. t.id = s.id /\ t \in Select /\ selects' = (selects \ {s}) \cup {t}
      BY <2>0, <3>1 DEF Advance
    <3>3. UNCHANGED <<controller, nSelects>>
      BY <2>6 DEF AbortableAnswered, RestAnswered
    <3> HIDE DEF t, Select
    <3>4. Selects'
      BY <2>0, <3>2, <3>3
    <3> QED BY <2>1, <2>6, <3>4 DEF AbortableAnswered, RestAnswered, panelVars
  <2>7. ASSUME NEW s \in selects, ShowDetails(s)
        PROVE  Inv'
    <3>1. /\ full' = s.job /\ perfDetail' \in BOOLEAN /\ controller' = 0
          /\ tabJob' = s.job /\ tabPerf' = perfDetail'
          /\ tab' = tab \/ tab' = DefaultTab(s.job, perfDetail')
          /\ UNCHANGED <<selectedJob, notesShown, detLoading, noteVersion, nSelects>>
      BY <2>7 DEF ShowDetails, TabFor
    <3>2. DefaultTab(s.job, perfDetail') \in 0 .. 5
      BY DEF DefaultTab, TabIndex
    <3>3. Panel'
      BY <2>0, <3>1, <3>2
    <3>4. Shown'
      BY <2>0, <3>1 DEF JobOrNone
    <3>5. selects' = selects \ {s}
      BY <2>7 DEF ShowDetails
    <3>6. Selects'
      BY <2>0, <3>1, <3>5
    <3>7. updates' = IF selectedJob = NoJob THEN updates
                     ELSE updates \cup {UpdateFor(selectedJob, s.id)}
      BY <2>7 DEF ShowDetails
    <3>8. s.id \in 0 .. MaxSelects
      BY <1>b, <2>0
    <3>9. Updates'
      BY <2>0, <2>2, <2>3, <3>1, <3>7, <3>8
    <3> QED BY <3>3, <3>4, <3>6, <3>9
  <2>8. ASSUME NEW s \in selects, SelectFails(s)
        PROVE  Inv'
    <3>1. Selects'
      BY <2>0, <2>8 DEF SelectFails
    <3> QED BY <2>1, <2>8, <3>1 DEF SelectFails, panelVars
  <2>9. ASSUME NEW u \in updates, ShowNotes(u)
        PROVE  Inv'
    <3>1. u.job \in DetJobs /\ u.job \in JobOrNone /\ u.version \in Versions
      BY <2>0 DEF JobOrNone
    <3>2. /\ notesShown' = [job |-> u.job, version |-> u.version]
          /\ updates' = updates \ {u} /\ detLoading' \in {detLoading, FALSE}
          /\ UNCHANGED <<selectedJob, panelVars, controller, selects, noteVersion, nSelects>>
      BY <2>9 DEF ShowNotes
    <3>3. Shown'
      BY <2>0, <3>1, <3>2 DEF panelVars
    <3>4. Panel' /\ Updates'
      BY <2>0, <3>2 DEF panelVars
    <3> QED BY <2>1, <3>2, <3>3, <3>4
  <2>10. ASSUME NEW j \in DetJobs, ChangeNotes(j)
         PROVE  Inv'
    <3>1. noteVersion' \in [DetJobs -> Versions]
      BY <1>b, <2>0, <2>10 DEF ChangeNotes, Versions
    <3> DEFINE new == [job |-> selectedJob, version |-> noteVersion'[selectedJob], select |-> 0]
    <3>2. selectedJob # NoJob => new \in Update
      BY <1>b, <2>3, <3>1
    <3>3. updates' = IF selectedJob = NoJob THEN updates ELSE updates \cup {new}
      BY <2>10 DEF ChangeNotes
    <3> HIDE DEF new, Update
    <3>4. Updates'
      BY <2>0, <3>1, <3>2, <3>3
    <3> QED BY <2>1, <2>10, <3>4 DEF ChangeNotes, panelVars
  <2>11. CASE SaveNote \/ RemoveNote
    <3>1. CASE SaveNote
      BY <2>3, <2>10, <3>1 DEF SaveNote
    <3>2. CASE RemoveNote
      BY <2>0, <2>10, <3>2 DEF RemoveNote
    <3> QED BY <2>11, <3>1, <3>2
  <2>12. CASE SelectNextTab \/ \E i \in 0 .. 4 : ClickTab(i)
    <3>1. tab' \in 0 .. 5 /\ UNCHANGED <<detLoading, tabPerf, perfDetail>>
      BY <2>0, <2>12 DEF SelectNextTab, ClickTab, TabCount
    <3>2. Panel'
      BY <2>0, <3>1
    <3> QED BY <2>1, <2>12, <3>2 DEF SelectNextTab, ClickTab
  <2>13. CASE UNCHANGED detVars
    BY <2>1, <2>13 DEF detVars
  <2> QED
    BY <1>2, <2>4, <2>5, <2>6, <2>7, <2>8, <2>9, <2>11, <2>12, <2>13 DEF DetNext, DetAnswer
<1> QED BY <1>0, <1>1, <1>2, PTL DEF DetSpec

\* A request for similar jobs, whose list ends as it is answered.
SimilarLoad == [id : Nat, boxes : SUBSET Boxes, offset : Nat, before : Seq(SimilarJobIds),
                first : BOOLEAN, jobs : Seq(SimilarJobIds), stage : {"jobs", "pushes"}]

\* Those that are like a job are known ones.
LEMMA SimilarLists ==
    ASSUME NEW b \in SUBSET Boxes PROVE SimilarTo[b] \in Seq(SimilarJobIds)
<1>1. SimilarTo[b] \in Seq(ToSet(SimilarTo[b]))
  BY SimilarParameters
<1>2. ToSet(SimilarTo[b]) \subseteq SimilarJobIds
  BY DEF SimilarJobIds
<1> HIDE DEF SimilarJobIds
<1>3. \A S, T : S \subseteq T => Seq(S) \subseteq Seq(T)
  OBVIOUS
<1> QED BY <1>1, <1>2, <1>3

\* How many rows the pages before one hold.
LEMMA PagesBefore == \A p \in Nat \ {0}, s \in Nat : (p - 1) * s \in Nat
<1> SUFFICES ASSUME NEW p \in Nat \ {0}, NEW s \in Nat PROVE (p - 1) * s \in Nat
  OBVIOUS
<1> DEFINE q == p - 1
<1>1. q \in Nat
  OBVIOUS
<1> HIDE DEF q
<1>2. q * s \in Nat
  BY <1>1
<1> QED BY <1>2 DEF q

\* A page of similar jobs.
LEMMA PageOfSimilar ==
    ASSUME NEW l \in SimilarLoad, JobsAnswered(l)
    PROVE  /\ \E found \in Seq(SimilarJobIds) :
                  similarLoads' = (similarLoads \ {l}) \cup {[l EXCEPT !.stage = "pushes", !.jobs = found]}
           /\ hasNextPage' \in BOOLEAN
<1> DEFINE all == SimilarTo[l.boxes]
           rest == SubSeq(all, l.offset + 1, Min({Len(all), l.offset + PageSize + 1}))
           found == IF Len(rest) > PageSize THEN Front(rest) ELSE rest
<1>1. all \in Seq(SimilarJobIds) /\ l.offset \in Nat
  BY SimilarLists DEF SimilarLoad
<1>2. /\ similarLoads' = (similarLoads \ {l}) \cup {[l EXCEPT !.stage = "pushes", !.jobs = found]}
      /\ hasNextPage' = (Len(rest) > PageSize)
  BY DEF JobsAnswered
<1>3. hasNextPage' \in BOOLEAN
  BY <1>2
<1> HIDE DEF all
<1>4. rest \in Seq(SimilarJobIds)
  <2> DEFINE n == Min({Len(all), l.offset + PageSize + 1})
  <2>1. n \in Int /\ n <= Len(all)
    <3>1. Len(all) \in Nat /\ l.offset + PageSize + 1 \in Nat
      BY <1>1, SimilarParameters, LenProperties
    <3> QED BY <3>1, SmallerOfTwo
  <2>2. l.offset + 1 \in Nat \ {0}
    BY <1>1
  <2> HIDE DEF n
  <2>3. SubSeq(all, l.offset + 1, n) \in Seq(SimilarJobIds)
    BY <1>1, <2>1, <2>2, PartOfList
  <2> QED BY <2>3 DEF n
<1> HIDE DEF rest
<1>5. Len(rest) > PageSize => Front(rest) \in Seq(SimilarJobIds)
  <2>1. Len(rest) \in Nat /\ Len(rest) - 1 \in Int /\ Len(rest) - 1 <= Len(rest)
    BY <1>4, LenProperties
  <2> QED BY <1>4, <2>1, PartOfList DEF Front
<1>6. found \in Seq(SimilarJobIds)
  BY <1>4, <1>5
<1> HIDE DEF found
<1> QED BY <1>2, <1>3, <1>6

\* The tab of similar jobs.
LEMMA SimilarTypes == SimilarSpec => []SimilarTypeOK
<1> DEFINE Boxed == ticked \subseteq Boxes /\ page \in Nat \ {0}
           Shown == similarJobs \in Seq(SimilarJobIds)
           One == selectedSimilar \in SimilarJobIds \cup {NoSimilar} /\ infoLoads \subseteq SimilarJobIds
           Flags == hasNextPage \in BOOLEAN /\ similarLoading \in BOOLEAN
                    /\ similarThrown \in BOOLEAN
           Loads == similarLoads \subseteq SimilarLoad /\ nSimilarLoads \in Nat
           Inv == Boxed /\ Shown /\ One /\ Flags /\ Loads
<1> HIDE DEF SimilarJobIds
<1>0. Inv => SimilarTypeOK
  <2> SUFFICES ASSUME Inv PROVE SimilarTypeOK
    OBVIOUS
  <2>1. ToSet(similarJobs) \subseteq SimilarJobIds
    BY MembersTyped
  <2> QED BY <2>1 DEF SimilarTypeOK
<1>b. PageSize \in Nat
  BY SimilarParameters
<1>1. SimilarInit => Inv
  <2> SUFFICES ASSUME SimilarInit PROVE Inv
    OBVIOUS
  <2> DEFINE l == [id |-> 0, boxes |-> Boxes, offset |-> 0, before |-> <<>>, first |-> TRUE,
                   jobs |-> <<>>, stage |-> "jobs"]
  <2>1. <<>> \in Seq(SimilarJobIds)
    OBVIOUS
  <2>2. l \in SimilarLoad
    BY <2>1 DEF SimilarLoad
  <2>3. similarLoads = {l}
    BY DEF SimilarInit
  <2> HIDE DEF l
  <2>4. Loads
    BY <2>2, <2>3 DEF SimilarInit
  <2>5. Boxed /\ Shown
    BY <2>1 DEF SimilarInit
  <2>6. One /\ Flags
    BY DEF SimilarInit
  <2> QED BY <2>4, <2>5, <2>6
<1>2. ASSUME Inv, [SimilarNext]_similarVars
      PROVE  Inv'
  <2>0. Boxed /\ Shown /\ One /\ Flags /\ Loads
    BY <1>2
  <2>1. /\ UNCHANGED <<ticked, page>> => Boxed'
        /\ UNCHANGED similarJobs => Shown'
        /\ UNCHANGED <<selectedSimilar, infoLoads>> => One'
        /\ UNCHANGED <<hasNextPage, similarLoading, similarThrown>> => Flags'
        /\ UNCHANGED <<similarLoads, nSimilarLoads>> => Loads'
    BY <2>0
  <2>2. ASSUME GetSimilarJobs, Boxed', Shown'
        PROVE  Loads' /\ similarLoading' = TRUE /\ similarThrown' = FALSE
    <3> DEFINE l == [id |-> nSimilarLoads', boxes |-> ticked', offset |-> (page' - 1) * PageSize,
                     before |-> similarJobs', first |-> selectedSimilar = NoSimilar, jobs |-> <<>>,
                     stage |-> "jobs"]
    <3>1. /\ nSimilarLoads' = nSimilarLoads + 1 /\ similarLoads' = similarLoads \cup {l}
          /\ similarLoading' = TRUE /\ similarThrown' = FALSE
      BY <2>2 DEF GetSimilarJobs
    <3>2. (page' - 1) * PageSize \in Nat
      BY <1>b, <2>2, PagesBefore
    <3>3. nSimilarLoads' \in Nat /\ <<>> \in Seq(SimilarJobIds)
      BY <2>0, <3>1
    <3>4. l \in SimilarLoad
      BY <2>2, <3>2, <3>3 DEF SimilarLoad
    <3> HIDE DEF l
    <3> QED BY <2>0, <3>1, <3>3, <3>4
  <2>3. ASSUME NEW l \in similarLoads, JobsAnswered(l)
        PROVE  Inv'
    <3>1. l \in SimilarLoad
      BY <2>0
    <3>2. PICK found \in Seq(SimilarJobIds) :
              similarLoads' = (similarLoads \ {l}) \cup {[l EXCEPT !.stage = "pushes", !.jobs = found]}
      BY <2>3, <3>1, PageOfSimilar
    <3> DEFINE t == [l EXCEPT !.stage = "pushes", !.jobs = found]
    <3>3. t \in SimilarLoad
      BY <3>1 DEF SimilarLoad
    <3>4. similarLoads' = (similarLoads \ {l}) \cup {t}
      BY <3>2
    <3> HIDE DEF t
    <3>5. Loads'
      BY <2>0, <2>3, <3>3, <3>4 DEF JobsAnswered
    <3>6. Flags'
      BY <2>0, <2>3, <3>1, PageOfSimilar DEF JobsAnswered
    <3> QED BY <2>1, <2>3, <3>5, <3>6 DEF JobsAnswered
  <2>4. ASSUME NEW l \in similarLoads, PushesAnswered(l)
        PROVE  Inv'
    <3>1. l.before \in Seq(SimilarJobIds) /\ l.jobs \in Seq(SimilarJobIds)
      BY <2>0 DEF SimilarLoad
    <3>2. l.before \o l.jobs \in Seq(SimilarJobIds)
      BY <3>1, Concatenated
    <3>3. l.jobs # <<>> => Head(l.jobs) \in SimilarJobIds
      BY <3>1
    <3>4. /\ similarLoads' = similarLoads \ {l} /\ similarJobs' = l.before \o l.jobs
          /\ infoLoads' = IF l.first /\ l.jobs # <<>> THEN infoLoads \cup {Head(l.jobs)} ELSE infoLoads
          /\ similarLoading' = FALSE
          /\ UNCHANGED <<ticked, page, hasNextPage, selectedSimilar, similarThrown, nSimilarLoads>>
      BY <2>4 DEF PushesAnswered
    <3>5. One'
      BY <2>0, <3>3, <3>4
    <3>6. Loads' /\ Shown'
      BY <2>0, <3>2, <3>4
    <3>7. Flags'
      BY <2>0, <3>4
    <3> QED BY <2>1, <3>4, <3>5, <3>6, <3>7
  <2>5. ASSUME NEW l \in similarLoads, SimilarRefused(l)
        PROVE  Inv'
    <3>1. Loads'
      BY <2>0, <2>5 DEF SimilarRefused
    <3>2. Flags'
      BY <2>0, <2>5 DEF SimilarRefused
    <3> QED BY <2>1, <2>5, <3>1, <3>2 DEF SimilarRefused
  <2>t. ASSUME NEW l \in similarLoads, SimilarThrows(l)
        PROVE  Inv'
    <3>1. Loads' /\ Flags'
      BY <2>0, <2>t DEF SimilarThrows, listOfSimilar
    <3> QED BY <2>1, <2>t, <3>1 DEF SimilarThrows, listOfSimilar
  <2>6. CASE ShowNext
    <3>1. /\ page' = page + 1 /\ GetSimilarJobs
          /\ UNCHANGED <<ticked, similarJobs, hasNextPage, selectedSimilar, infoLoads>>
      BY <2>6 DEF ShowNext
    <3>2. Boxed'
      BY <2>0, <3>1
    <3>3. Shown'
      BY <2>1, <3>1
    <3>4. Flags'
      BY <2>0, <2>2, <3>1, <3>2, <3>3
    <3> QED BY <2>1, <2>2, <3>1, <3>2, <3>3, <3>4
  <2>7. ASSUME NEW b \in Boxes, ToggleFilter(b)
        PROVE  Inv'
    <3>1. /\ ticked' = IF b \in ticked THEN ticked \ {b} ELSE ticked \cup {b}
          /\ similarJobs' = <<>> /\ GetSimilarJobs
          /\ UNCHANGED <<page, hasNextPage, selectedSimilar, infoLoads>>
      BY <2>7 DEF ToggleFilter
    <3>2. Boxed'
      BY <2>0, <3>1
    <3>3. Shown'
      BY <3>1
    <3>4. Flags'
      BY <2>0, <2>2, <3>1, <3>2, <3>3
    <3> QED BY <2>1, <2>2, <3>1, <3>2, <3>3, <3>4
  <2>8. CASE (\E j \in SimilarJobIds : ShowJobInfo(j)) \/ \E j \in infoLoads : InfoAnswered(j)
    <3>1. One'
      BY <2>0, <2>8 DEF ShowJobInfo, InfoAnswered
    <3> QED BY <2>1, <2>8, <3>1 DEF ShowJobInfo, InfoAnswered, listOfSimilar, loadsOfSimilar
  <2>9. CASE UNCHANGED similarVars
    BY <2>1, <2>9 DEF similarVars, listOfSimilar, loadsOfSimilar
  <2> QED
    BY <1>2, <2>3, <2>4, <2>5, <2>t, <2>6, <2>7, <2>8, <2>9 DEF SimilarNext
<1> QED BY <1>0, <1>1, <1>2, PTL DEF SimilarSpec

\* What the dialog that files a bug holds.
\* The failure summary and the dialog that files a bug.
LEMMA FilerTypes == FilerSpec => []FilerTypeOK
<1> DEFINE Failed == FilerJobs \cup {NoFiledJob}
           Summary == /\ failedJob \in Failed /\ errorsOf \in Failed /\ filerFor \in Failed
                      /\ suggestions \in [job : Failed, open : Sizes, others : Sizes]
                      /\ \A l \in suggestLoads : "job" \in DOMAIN l /\ l.job \in FilerJobs
           Opens == filer \in 0 .. nOpens /\ nOpens \in 0 .. MaxOpens
           Searched == /\ nSearches \in 0 .. MaxSearches /\ background \in 0 .. nSearches
                       /\ searches \subseteq 1 .. nSearches
           Filed == /\ nFilings \in Nat
                    /\ \A b \in filings \cup filed : "id" \in DOMAIN b /\ b.id \in 1 .. nFilings
           Inv == Summary /\ Opens /\ Searched /\ Filed
<1>b. /\ BugLimit \in Nat /\ MaxOpens \in Nat /\ MaxSearches \in Nat /\ MaxFilings \in Nat
      /\ 0 \in Sizes
  BY FilerBounds DEF Sizes
<1>0. Inv /\ form \in Forms => FilerTypeOK
  <2> SUFFICES ASSUME Inv, form \in Forms PROVE FilerTypeOK
    OBVIOUS
  <2>1. background \in 0 .. MaxSearches /\ nOpens <= MaxOpens
    BY <1>b
  <2>2. form.offered \subseteq Products /\ form.product \in Products \cup {NoProduct}
    BY DEF Forms
  <2>3. {g.id : g \in filings} \cup {b.id : b \in filed} \subseteq 1 .. nFilings
    OBVIOUS
  <2> QED BY <2>1, <2>2, <2>3 DEF FilerTypeOK
<1>1. FilerInit => Inv
  <2> SUFFICES ASSUME FilerInit PROVE Inv
    OBVIOUS
  <2>1. suggestions = [job |-> NoFiledJob, open |-> 0, others |-> 0]
    BY DEF FilerInit
  <2>2. Summary
    BY <1>b, <2>1 DEF FilerInit
  <2>3. Opens /\ Searched /\ Filed
    BY <1>b DEF FilerInit
  <2> QED BY <2>2, <2>3
<1>2. ASSUME Inv, [FilerNext]_filerVars
      PROVE  Inv'
  <2>0. Summary /\ Opens /\ Searched /\ Filed
    BY <1>2
  <2>1. /\ UNCHANGED <<failedJob, errorsOf, filerFor, suggestions, suggestLoads>> => Summary'
        /\ UNCHANGED <<filer, nOpens>> => Opens'
        /\ UNCHANGED <<searches, background, nSearches>> => Searched'
        /\ UNCHANGED <<filings, filed, nFilings>> => Filed'
    BY <2>0
  <2>2. ASSUME NEW b, OpenFiler(b)
        PROVE  Opens' /\ Searched'
    <3>1. /\ nOpens < MaxOpens /\ nOpens' = nOpens + 1 /\ filer' = nOpens'
          /\ searches' = {} /\ UNCHANGED <<background, nSearches>>
      BY <2>2 DEF OpenFiler
    <3> QED BY <1>b, <2>0, <3>1
  <2>3. ASSUME CloseFiler
        PROVE  Opens' /\ Searched'
    BY <1>b, <2>0, <2>3 DEF CloseFiler
  <2>4. ASSUME NEW j \in FilerJobs, SelectFailed(j)
        PROVE  Inv'
    <3> DEFINE new == [id |-> nLoads', job |-> j, step |-> "suggestions"]
    <3>1. /\ failedJob' = j /\ suggestLoads' = suggestLoads \cup {new}
          /\ UNCHANGED <<suggestions, errorsOf, filer, filerFor, searchVars, filingVars, nOpens>>
      BY <2>4 DEF SelectFailed, LoadSuggestions
    <3>2. "job" \in DOMAIN new /\ new.job = j
      OBVIOUS
    <3> HIDE DEF new
    <3>3. Summary'
      BY <2>0, <3>1, <3>2
    <3> QED BY <2>1, <3>1, <3>3 DEF searchVars, filingVars
  <2>5. ASSUME NEW l \in suggestLoads, NEW open \in Sizes, NEW others \in Sizes,
               SuggestionsAnswered(l, open, others)
        PROVE  Inv'
    <3> DEFINE t == [l EXCEPT !.step = "errors"]
    <3>1. "job" \in DOMAIN t /\ t.job = l.job /\ l.job \in FilerJobs
      BY <2>0
    <3>2. /\ suggestLoads' \subseteq suggestLoads \cup {t}
          /\ suggestions' \in {suggestions, [job |-> l.job, open |-> 0, others |-> 0],
                               [job |-> l.job, open |-> open, others |-> others]}
          /\ UNCHANGED <<failedJob, errorsOf, filer, filerFor, searchVars, filingVars, nOpens>>
      BY <2>5 DEF SuggestionsAnswered
    <3> HIDE DEF t
    <3>3. suggestions' \in [job : Failed, open : Sizes, others : Sizes]
      BY <1>b, <2>0, <3>1, <3>2
    <3>4. Summary'
      BY <2>0, <3>1, <3>2, <3>3
    <3> QED BY <2>1, <3>2, <3>4 DEF searchVars, filingVars
  <2>6. ASSUME NEW l \in suggestLoads, NEW b \in BOOLEAN, ErrorsAnswered(l, b)
        PROVE  Inv'
    <3>1. /\ suggestLoads' = suggestLoads \ {l}
          /\ suggestions' = [job |-> NoFiledJob, open |-> 0, others |-> 0]
          /\ errorsOf' \in {l.job, errorsOf}
          /\ UNCHANGED <<failedJob, filer, filerFor, searchVars, filingVars, nOpens>>
      BY <2>6 DEF ErrorsAnswered
    <3>2. Summary'
      BY <1>b, <2>0, <3>1
    <3> QED BY <2>1, <3>1, <3>2 DEF searchVars, filingVars
  <2>7. CASE FileBug
    <3>1. Opens' /\ Searched'
      BY <2>2, <2>7 DEF FileBug
    <3>2. /\ filerFor' = suggestions.job
          /\ UNCHANGED <<failedJob, errorsOf, suggestions, suggestLoads>>
      BY <2>7 DEF FileBug, summaryVars
    <3>3. suggestions.job \in Failed
      BY <2>0
    <3>4. Summary'
      BY <2>0, <3>2, <3>3
    <3> QED BY <2>1, <2>7, <3>1, <3>4 DEF FileBug, filingVars
  <2>8. CASE CancelFiler
    <3>1. Opens' /\ Searched'
      BY <2>3, <2>8 DEF CancelFiler
    <3> QED BY <2>1, <2>8, <3>1 DEF CancelFiler, summaryVars, filingVars
  <2>9. CASE FindProduct
    <3>1. /\ nSearches < MaxSearches /\ nSearches' = nSearches + 1
          /\ \/ searches' = searches \cup {nSearches'} /\ background' = background
             \/ searches' = searches /\ background' = background + 1
      BY <2>9 DEF FindProduct
    <3>3. /\ nSearches' \in 0 .. MaxSearches /\ nSearches' \in 1 .. nSearches'
          /\ 1 .. nSearches \subseteq 1 .. nSearches'
      BY <1>b, <2>0, <3>1
    <3>4. background' \in 0 .. nSearches'
      BY <1>b, <2>0, <3>1
    <3>5. searches' \subseteq 1 .. nSearches'
      BY <2>0, <3>1, <3>3
    <3>2. Searched'
      BY <3>3, <3>4, <3>5
    <3> QED BY <2>1, <2>9, <3>2 DEF FindProduct, summaryVars, filingVars
  <2>10. CASE \/ \E s \in searches : SearchFails(s) \/ \E P \in SUBSET Products : ProductsFound(s, P)
              \/ MetadataAnswered
    <3>1. /\ \/ UNCHANGED background
             \/ background > 0 /\ background' = background - 1
          /\ searches' \subseteq searches
          /\ UNCHANGED <<nSearches, summaryVars, filer, filerFor, filingVars, nOpens>>
      BY <2>10 DEF SearchFails, ProductsFound, MetadataAnswered
    <3>2. Searched'
      BY <1>b, <2>0, <3>1
    <3> QED BY <2>1, <3>1, <3>2 DEF summaryVars, filingVars
  <2>11. CASE SubmitFiler
    <3> DEFINE new == [id |-> nFilings', dialog |-> filer, product |-> form.product,
                       step |-> "product"]
    <3>1. /\ nFilings' = nFilings + 1 /\ filings' = filings \cup {new} /\ filed' = filed
          /\ UNCHANGED <<summaryVars, filer, filerFor, searchVars, nOpens>>
      BY <2>11 DEF SubmitFiler
    <3>2. "id" \in DOMAIN new /\ new.id = nFilings'
      OBVIOUS
    <3> HIDE DEF new
    <3>3. nFilings' \in Nat /\ nFilings' \in 1 .. nFilings' /\ 1 .. nFilings \subseteq 1 .. nFilings'
      BY <2>0, <3>1
    <3>4. Filed'
      BY <2>0, <3>1, <3>2, <3>3
    <3> QED BY <2>1, <3>1, <3>4 DEF summaryVars, searchVars
  <2>12. ASSUME NEW g \in filings, VersionAnswered(g)
         PROVE  Inv'
    <3> DEFINE t == [g EXCEPT !.step = "create"]
               bug == [id |-> g.id, product |-> g.product, keywords |-> keywords[g.dialog],
                       state |-> "sent"]
    <3>1. /\ "id" \in DOMAIN t /\ t.id = g.id /\ "id" \in DOMAIN bug /\ bug.id = g.id
          /\ g.id \in 1 .. nFilings
      BY <2>0
    <3>2. /\ filings' = (filings \ {g}) \cup {t} /\ filed' = filed \cup {bug}
          /\ UNCHANGED <<nFilings, summaryVars, filer, filerFor, searchVars, nOpens>>
      BY <2>12 DEF VersionAnswered
    <3> HIDE DEF t, bug
    <3>3. Filed'
      BY <2>0, <3>1, <3>2
    <3> QED BY <2>1, <3>2, <3>3 DEF summaryVars, searchVars
  <2>13. ASSUME NEW g \in filings, FilingFails(g)
         PROVE  Inv'
    <3>1. Filed'
      BY <2>0, <2>13 DEF FilingFails
    <3> QED BY <2>1, <2>13, <3>1 DEF FilingFails, summaryVars, searchVars
  <2>14. ASSUME NEW g \in filings, BugFiled(g)
         PROVE  Inv'
    <3>1. /\ filings' = filings \ {g}
          /\ filed' = {IF b.id = g.id THEN [b EXCEPT !.state = "filed"] ELSE b : b \in filed}
          /\ UNCHANGED <<nFilings, summaryVars, filerFor>>
      BY <2>14 DEF BugFiled
    <3>2. ASSUME NEW b \in filed
          PROVE  /\ "id" \in DOMAIN [b EXCEPT !.state = "filed"]
                 /\ [b EXCEPT !.state = "filed"].id = b.id
      BY <2>0
    <3>3. Filed'
      BY <2>0, <3>1, <3>2
    <3>4. Opens' /\ Searched'
      BY <2>2, <2>3, <2>14 DEF BugFiled, ToggleBugFiler
    <3> QED BY <2>1, <3>1, <3>3, <3>4 DEF summaryVars
  <2>15. ASSUME \/ ClickShowMore \/ \E p \in Products : PickProduct(p)
                \/ EditSummary \/ TickIntermittent \/ EditRegressedBy \/ EditSearch
                \/ UNCHANGED filerVars
         PROVE  Inv'
    <3>1. UNCHANGED <<failedJob, errorsOf, filerFor, suggestions, suggestLoads, filer, nOpens,
                      searchVars, filingVars>>
      BY <2>15
      DEF ClickShowMore, PickProduct, EditSummary, TickIntermittent, EditRegressedBy, EditSearch,
          EditForm, summaryVars, filerVars
    <3> QED BY <2>1, <3>1 DEF searchVars, filingVars
  <2> QED
    BY <1>2, <2>4, <2>5, <2>6, <2>7, <2>8, <2>9, <2>10, <2>11, <2>12, <2>13, <2>14, <2>15
    DEF FilerNext
<1>3. FilerSpec => []Inv
  BY <1>1, <1>2, PTL DEF FilerSpec
<1> QED BY <1>0, <1>3, FormAlways, PTL

-----------------------------------------------------------------------------
(* The types of the filters.                                              *)

\* What is pushed as the statuses is what is filtered, or their default.
LEMMA PushedStatus ==
    ASSUME NEW f \in Filterings, f.status \subseteq StatusTexts, PushFilters(f)
    PROVE  filters'.status \subseteq StatusTexts /\ UNCHANGED jobVars
<1>1. UNCHANGED jobVars /\ filters' \in {Parse(Format(f)), f}
  BY DEF PushFilters
<1>2. Parse(Format(f)).status \in {Defaults.status, f.status}
  BY DEF Parse, Format, MatchesDefaults, Params
<1>3. Defaults.status \subseteq StatusTexts
  BY DEF Defaults, StatusTexts
<1> QED BY <1>1, <1>2, <1>3

\* Every way to set filters leaves the statuses some of those that there are.
LEMMA StatusStep ==
    ASSUME filters \in Filterings, filterUrl \in Filterings, filters.status \subseteq StatusTexts,
           [FilterNext]_filterVars
    PROVE  filters'.status \subseteq StatusTexts
<1> DEFINE All == StatusTexts \cup Both \cup Words
           Kept == filters'.status \subseteq StatusTexts
<1>0. /\ \A p \in Params : filters[p] \in SUBSET All
      /\ Defaults.status \subseteq StatusTexts /\ Defaults.state \in SUBSET All
      /\ Both \in SUBSET All /\ {"classified"} \in SUBSET All /\ {"unclassified"} \in SUBSET All
  BY DEF Filterings, Defaults, Both, StatusTexts
<1>1. ASSUME NEW chosen \in SUBSET StatusTexts, NEW state \in SUBSET All, SetNonField(chosen, state)
      PROVE  Kept
  <2> DEFINE f == [filters EXCEPT !.status = chosen, !.state = state]
  <2>1. f \in Filterings /\ f.status = chosen
    BY DEF Filterings, Params, StatusTexts
  <2>2. PushFilters(f)
    BY <1>1 DEF SetNonField
  <2> HIDE DEF f
  <2> QED BY <2>1, <2>2, PushedStatus
<1>2. ASSUME NEW X \in SUBSET All, NEW Y \in SUBSET All,
             PushFilters([filters EXCEPT !.search = X, !.field = Y])
      PROVE  Kept
  <2> DEFINE f == [filters EXCEPT !.search = X, !.field = Y]
  <2>1. f \in Filterings /\ f.status = filters.status
    BY DEF Filterings, Params
  <2>2. PushFilters(f)
    BY <1>2
  <2> HIDE DEF f
  <2> QED BY <2>1, <2>2, PushedStatus
<1>3. ASSUME NEW X \in SUBSET All,
             \/ PushFilters([filters EXCEPT !.search = X])
             \/ PushFilters([filters EXCEPT !.field = X])
      PROVE  Kept
  <2>1. /\ [filters EXCEPT !.search = X] = [filters EXCEPT !.search = X, !.field = filters.field]
        /\ [filters EXCEPT !.field = X] = [filters EXCEPT !.search = filters.search, !.field = X]
    BY DEF Filterings, Params
  <2>2. filters.search \in SUBSET All /\ filters.field \in SUBSET All
    BY <1>0 DEF Params
  <2> QED BY <1>2, <1>3, <2>1, <2>2
<1>4. ASSUME NEW S \in Groups, ToggleResultStatuses(S)
      PROVE  Kept
  <2> DEFINE listed == IF statusText THEN {Letters} ELSE filters.status
             T == IF S \subseteq listed THEN listed \ S ELSE listed \cup S
             f == [filters EXCEPT !.status = T]
  <2>1. S \subseteq StatusTexts /\ Letters \in StatusTexts
    BY DEF Groups, Failures, Statuses, StatusTexts
  <2>2. T \in SUBSET StatusTexts
    BY <2>1
  <2>3. PushFilters(f)
    BY <1>4 DEF ToggleResultStatuses
  <2> HIDE DEF T
  <2>4. f \in Filterings /\ f.status = T
    BY <2>2 DEF Filterings, Params, StatusTexts
  <2> HIDE DEF f
  <2> QED BY <2>2, <2>3, <2>4, PushedStatus
<1>5. ResetNonFieldFilters => Kept
  BY <1>0, <1>1 DEF ResetNonFieldFilters, SetLists
<1>6. ToggleUnclassifiedFailures => Kept
  <2>1. Failures \in SUBSET StatusTexts
    BY DEF Failures, Statuses, StatusTexts
  <2> QED BY <1>0, <1>1, <1>5, <2>1 DEF ToggleUnclassifiedFailures, SetLists
<1>7. ASSUME NEW b \in BOOLEAN, ToggleClassifiedFailures(b)
      PROVE  Kept
  <2>1. ClassifiedResults \in SUBSET StatusTexts
    BY DEF ClassifiedResults, Statuses, StatusTexts
  <2> QED BY <1>0, <1>1, <1>5, <1>6, <1>7, <2>1 DEF ToggleClassifiedFailures, SetLists
<1>8. SetOnlySuperseded => Kept
  <2>1. {"superseded"} \in SUBSET StatusTexts
    BY DEF Statuses, StatusTexts
  <2> QED BY <1>0, <1>1, <2>1 DEF SetOnlySuperseded
<1>9. AllJobs => Kept
  BY <1>5, <1>7 DEF AllJobs
<1>10. ASSUME NEW V \in SUBSET Words, AddFilter(V) \/ Search(V)
       PROVE  Kept
  <2>1. filters.field \cup V \in SUBSET All /\ V \in SUBSET All
    BY <1>0 DEF Params
  <2> QED BY <1>3, <1>10, <2>1 DEF AddFilter, Search, SetWords
<1>11. ASSUME NEW w \in Words, RemoveFilter(w)
       PROVE  Kept
  <2>1. filters.field \ {w} \in SUBSET All
    BY <1>0 DEF Params
  <2> QED BY <1>3, <1>11, <2>1 DEF RemoveFilter, SetWords
<1>12. ClearNonStatusFilters => Kept
  BY <1>2 DEF ClearNonStatusFilters, SetWords
<1>13. ASSUME NEW url, DOMAIN url = Params, url["status"] = {}, Visit(url)
       PROVE  Kept
  <2>1. filters' \in {Parse(url), filters}
    BY <1>13 DEF Visit
  <2>2. Parse(url).status = Defaults.status
    BY <1>13 DEF Parse, Params
  <2> QED BY <1>0, <2>1, <2>2
<1>14. CASE \/ Visit([NoParams EXCEPT !.state = {"unclassified"}])
            \/ Visit([NoParams EXCEPT !.field = Words])
  <2>1. /\ DOMAIN [NoParams EXCEPT !.state = {"unclassified"}] = Params
        /\ [NoParams EXCEPT !.state = {"unclassified"}]["status"] = {}
        /\ DOMAIN [NoParams EXCEPT !.field = Words] = Params
        /\ [NoParams EXCEPT !.field = Words]["status"] = {}
    BY DEF NoParams, Params
  <2> QED BY <1>13, <1>14, <2>1
<1>15. CASE UNCHANGED filters
  BY <1>15
<1> QED
  BY <1>4, <1>5, <1>6, <1>7, <1>8, <1>9, <1>10, <1>11, <1>12, <1>14, <1>15
  DEF FilterNext, filterVars, Reclassify, SelectShown, ChangeJob, ClearScreen, TogglePinned

\* No more jobs are counted than are listed.
LEMMA CountedJobs ==
    ASSUME NEW S \in SUBSET ToSet(ListedJobs)
    PROVE  Cardinality(S) \in 0 .. Len(ListedJobs)
<1> DEFINE n == Len(ListedJobs)
           All == {ListedJobs[i] : i \in 1..n}
<1>1. n \in Nat /\ DOMAIN ListedJobs = 1..n
  BY FilterParameters, LenProperties
<1>2. ToSet(ListedJobs) = All
  BY <1>1 DEF ToSet
<1>3. IsFiniteSet(1..n) /\ Cardinality(1..n) = n
  BY <1>1, PositionCount
<1>4. ListedJobs \in Surjection(1..n, All)
  <2>1. ListedJobs \in [1..n -> All]
    BY <1>1, FilterParameters
  <2> QED BY <2>1 DEF Surjection
<1>5. IsFiniteSet(All) /\ Cardinality(All) <= n
  BY <1>3, <1>4, FS_Surjection
<1>6. IsFiniteSet(S) /\ Cardinality(S) <= Cardinality(All)
  BY <1>2, <1>5, FS_Subset
<1>7. Cardinality(S) \in Nat /\ Cardinality(All) \in Nat
  BY <1>5, <1>6, FS_CardinalityType
<1> QED BY <1>1, <1>5, <1>6, <1>7

\* The counts of the bar.
LEMMA CountsType ==
    ASSUME NEW f, NEW C PROVE Recalculate(f, C) \in [all : 0 .. Len(ListedJobs), filtered : 0 .. Len(ListedJobs)]
<1> DEFINE A == UnclassifiedFailures(C)
           B == {j \in A : ShowJob(f, C, j)}
<1>1. A \in SUBSET ToSet(ListedJobs) /\ B \in SUBSET ToSet(ListedJobs)
  BY DEF UnclassifiedFailures
<1>2. Recalculate(f, C) = [all |-> Cardinality(A), filtered |-> Cardinality(B)]
  BY DEF Recalculate
<1> HIDE DEF A, B
<1>3. Cardinality(A) \in 0 .. Len(ListedJobs) /\ Cardinality(B) \in 0 .. Len(ListedJobs)
  BY <1>1, CountedJobs
<1> QED BY <1>2, <1>3

\* The next or the previous job is one of the list, or none is selected.
LEMMA ChangedJob ==
    ASSUME NEW d \in {"next", "previous"}, NEW only, ChangeJob(d, only)
    PROVE  /\ boldJob' \in ToSet(ListedJobs) \cup {boldJob, NoneSelected}
           /\ storeJob' \in ToSet(ListedJobs) \cup {storeJob}
<1> DEFINE jobs == JobChoices(only)
           n == Len(jobs)
           at == Position(jobs, boldJob)
           to == IF d = "next" THEN NextIndex(at, n) ELSE PreviousIndex(at, n)
<1>1. jobs \in Seq(ToSet(ListedJobs))
  BY FilterParameters, KeepMembers DEF JobChoices
<1>2. \/ jobs # <<>> /\ boldJob' = jobs[to] /\ storeJob' = jobs[to]
      \/ boldJob' \in {boldJob, NoneSelected} /\ storeJob' = storeJob
  BY DEF ChangeJob
<1> HIDE DEF jobs
<1>3. n \in Nat /\ DOMAIN jobs = 1..n /\ (jobs # <<>> => n > 0)
  BY <1>1, LenProperties, EmptySeq
<1>4. at \in 0..n
  <2>1. boldJob \in ToSet(jobs) => \E i \in 1..n : jobs[i] = boldJob
    BY <1>3 DEF ToSet
  <2> QED BY <1>3, <2>1 DEF Position
<1> HIDE DEF at
<1>5. jobs # <<>> => to \in 1..n
  BY <1>3, <1>4 DEF NextIndex, PreviousIndex
<1> HIDE DEF to
<1>6. jobs # <<>> => jobs[to] \in ToSet(ListedJobs)
  BY <1>1, <1>5, ElementOfSeq
<1> QED BY <1>2, <1>6

\* The filters, the counts and the jobs selected.
LEMMA FilterTypes == FilterSpec => []FilterTypeOK
<1> DEFINE Job == ToSet(ListedJobs) \cup {NoneSelected}
           Inv == /\ filters.status \subseteq StatusTexts
                  /\ classified \subseteq ToSet(ListedJobs)
                  /\ storeJob \in Job /\ boldJob \in Job
                  /\ hasPinned \in BOOLEAN /\ statusText \in BOOLEAN
<1>1. FilterInit => Inv
  <2> SUFFICES ASSUME FilterInit PROVE Inv
    OBVIOUS
  <2>1. filters = Defaults /\ classified = {} /\ storeJob = NoneSelected /\ boldJob = NoneSelected
    BY DEF FilterInit
  <2>2. hasPinned = FALSE /\ statusText = FALSE
    BY DEF FilterInit
  <2>3. Defaults.status \subseteq StatusTexts
    BY DEF Defaults, StatusTexts
  <2>4. filters.status \subseteq StatusTexts /\ classified \subseteq ToSet(ListedJobs)
    BY <2>1, <2>3
  <2>5. storeJob \in Job /\ boldJob \in Job
    BY <2>1
  <2>6. hasPinned \in BOOLEAN /\ statusText \in BOOLEAN
    BY <2>2
  <2> QED BY <2>4, <2>5, <2>6
<1>2. Inv /\ FiltersAgree /\ [FilterNext]_filterVars => Inv'
  <2> SUFFICES ASSUME Inv, FiltersAgree, [FilterNext]_filterVars
               PROVE  Inv'
    OBVIOUS
  <2>1. filters'.status \subseteq StatusTexts
    BY StatusStep DEF FiltersAgree
  <2> DEFINE Rest == /\ classified \subseteq ToSet(ListedJobs)
                     /\ storeJob \in Job /\ boldJob \in Job
                     /\ hasPinned \in BOOLEAN
  <2>2. Rest'
    <3>1. UNCHANGED jobVars => Rest'
      BY DEF jobVars
    <3>2. ASSUME NEW j \in ToSet(ListedJobs), Reclassify(j) \/ SelectShown(j)
          PROVE  Rest'
      BY <3>2 DEF Reclassify, SelectShown
    <3>3. ASSUME NEW d \in {"next", "previous"}, NEW b \in BOOLEAN, ChangeJob(d, b)
          PROVE  Rest'
      <4>1. UNCHANGED <<classified, hasPinned>>
        BY <3>3 DEF ChangeJob
      <4> QED BY <3>3, <4>1, ChangedJob
    <3>4. CASE ClearScreen
      BY <3>4 DEF ClearScreen
    <3>5. CASE TogglePinned
      <4>1. UNCHANGED <<classified, storeJob, boldJob>> /\ hasPinned' = ~hasPinned
        BY <3>5 DEF TogglePinned
      <4> QED BY <4>1
    <3>6. CASE \/ \E S \in Groups : ToggleResultStatuses(S)
               \/ ToggleUnclassifiedFailures \/ \E b \in BOOLEAN : ToggleClassifiedFailures(b)
               \/ SetOnlySuperseded \/ AllJobs \/ ResetNonFieldFilters
               \/ \E V \in SUBSET Words \ {{}} : AddFilter(V)
               \/ \E w \in Words : RemoveFilter(w)
               \/ \E V \in SUBSET Words : Search(V)
               \/ ClearNonStatusFilters
               \/ Visit([NoParams EXCEPT !.state = {"unclassified"}])
               \/ Visit([NoParams EXCEPT !.field = Words])
      <4>1. \A f : PushFilters(f) => UNCHANGED jobVars
        BY DEF PushFilters
      <4>2. \A url : Visit(url) => UNCHANGED jobVars
        BY DEF Visit
      <4>3. \A s, t : SetNonField(s, t) => UNCHANGED jobVars
        BY <4>1 DEF SetNonField
      <4>4. UNCHANGED jobVars
        BY <3>6, <4>1, <4>2, <4>3
        DEF ToggleResultStatuses, ToggleUnclassifiedFailures, ToggleClassifiedFailures, AllJobs,
            ResetNonFieldFilters, SetLists, SetOnlySuperseded, SetWords, AddFilter,
            RemoveFilter, Search, ClearNonStatusFilters
      <4> QED BY <3>1, <4>4
    <3>7. CASE UNCHANGED filterVars
      BY <3>1, <3>7 DEF filterVars, jobVars
    <3> QED BY <3>2, <3>3, <3>4, <3>5, <3>6, <3>7 DEF FilterNext
  <2>3. statusText' \in BOOLEAN
    <3>1. ASSUME NEW text \in BOOLEAN, SetStatusText(text)
          PROVE  statusText' \in BOOLEAN
      BY <3>1 DEF SetStatusText
    <3>2. /\ \A s, t : SetLists(s, t) => statusText' \in BOOLEAN
          /\ \A f : SetWords(f) => statusText' \in BOOLEAN
          /\ \A url : Visit(url) => statusText' \in BOOLEAN
          /\ SetOnlySuperseded => statusText' \in BOOLEAN
          /\ \A S : ToggleResultStatuses(S) => statusText' \in BOOLEAN
      BY <3>1 DEF SetLists, SetWords, Visit, SetOnlySuperseded, ToggleResultStatuses
    <3>3. UNCHANGED statusText => statusText' \in BOOLEAN
      OBVIOUS
    <3> QED
      BY <3>2, <3>3
      DEF FilterNext, filterVars, ToggleUnclassifiedFailures, ToggleClassifiedFailures,
          ResetNonFieldFilters, AllJobs, AddFilter, RemoveFilter, Search,
          ClearNonStatusFilters, Reclassify, SelectShown, ChangeJob, ClearScreen, TogglePinned
  <2> QED BY <2>1, <2>2, <2>3
<1>3. FiltersAgree /\ Inv => FilterTypeOK
  BY CountsType DEF FiltersAgree, FilterTypeOK, CountsCurrent, Filterings, StatusTexts
<1> QED BY <1>1, <1>2, <1>3, FiltersAlwaysAgree, PTL DEF FilterSpec

-----------------------------------------------------------------------------
(* The types of a push, of its dialogs and of the shell around the page.  *)

\* The header and the menu of a push: what it triggers is counted.
LEMMA PushPanelTypes == PushPanelSpec => []PushPanelTypeOK
<1> DEFINE Inv == PushPanelTypeOK /\ nTriggers \in 0 .. MaxTriggers
           Header == /\ collapsed \in BOOLEAN /\ runnableVisible \in BOOLEAN
                     /\ runnableListed \in BOOLEAN /\ collapsedUrl \subseteq {This, Longer}
           Watch == /\ watched \in {"none", "push", "job"} /\ prompts \subseteq {"push", "job"}
                    /\ permission \in {"default", "granted", "denied"}
                    /\ uncompleted \in 0 .. MaxUncompleted
           Menu == /\ picked \subseteq Runnable /\ lists \in 0 .. MaxLists
                   /\ nTriggers \in 0 .. MaxTriggers
                   /\ triggers \subseteq [id : 1 .. MaxTriggers, confirmed : SUBSET Runnable,
                                          jobs : SUBSET Runnable, shares : BOOLEAN]
<1>1. PushPanelInit => Inv
  <2> SUFFICES ASSUME PushPanelInit PROVE Inv
    OBVIOUS
  <2>1. Header
    BY DEF PushPanelInit
  <2>2. Watch /\ Menu
    BY PanelBounds DEF PushPanelInit
  <2> QED BY <2>1, <2>2 DEF PushPanelTypeOK
<1>2. ASSUME Inv, [PushPanelNext]_pushPanelVars
      PROVE  Inv'
  <2>1. Header /\ Watch /\ Menu
    BY <1>2 DEF PushPanelTypeOK
  <2>2. Header' /\ Watch' /\ Menu' => Inv'
    BY DEF PushPanelTypeOK
  <2>3. /\ UNCHANGED <<panelStateVars, runnableVisible, runnableListed>> => Header'
        /\ UNCHANGED watchVars => Watch'
        /\ UNCHANGED runnableVars => Menu'
    BY <2>1 DEF panelStateVars, watchVars, runnableVars
  <2>4. CASE TogglePushCollapsed \/ ToggleOther \/ HandleUrlChanges
    <3>1. Header'
      BY <2>1, <2>4
      DEF TogglePushCollapsed, ToggleOther, HandleUrlChanges, NamedIn, runnableVars
    <3> QED BY <2>2, <2>3, <2>4, <3>1 DEF TogglePushCollapsed, ToggleOther, HandleUrlChanges
  <2>5. ASSUME \/ CycleWatchState
               \/ \E next \in prompts, answer \in {"granted", "denied", "default"} :
                      AnswerPrompt(next, answer)
               \/ \E n \in 0 .. MaxUncompleted : JobCountsChange(n)
        PROVE  Inv'
    <3>1. Watch'
      BY <2>1, <2>5 DEF CycleWatchState, NextWatch, AnswerPrompt, WatchFor, JobCountsChange
    <3> QED BY <2>2, <2>3, <2>5, <3>1
            DEF CycleWatchState, AnswerPrompt, JobCountsChange, runnableVars
  <2>6. CASE ShowRunnableJobs \/ RunnableJobsListed \/ NoRunnableJobs
    <3>1. Header'
      BY <2>1, <2>6 DEF ShowRunnableJobs, RunnableJobsListed, NoRunnableJobs, panelStateVars
    <3>2. Menu'
      BY <2>1, <2>6, PanelBounds DEF ShowRunnableJobs, RunnableJobsListed, NoRunnableJobs
    <3> QED BY <2>2, <2>3, <2>6, <3>1, <3>2
            DEF ShowRunnableJobs, RunnableJobsListed, NoRunnableJobs
  <2>7. ASSUME NEW open \in SUBSET triggers, Hide(open), UNCHANGED <<panelStateVars, watchVars, lists, nTriggers>>
        PROVE  Inv'
    <3>1. Header'
      BY <2>1, <2>7 DEF Hide, panelStateVars
    <3>2. Menu'
      BY <2>1, <2>7 DEF Hide
    <3> QED BY <2>2, <2>3, <2>7, <3>1, <3>2
  <2>8. CASE HideRunnableJobs
    BY <2>7, <2>8 DEF HideRunnableJobs
  <2>9. ASSUME NEW r \in Runnable, ToggleSelectedRunnableJob(r)
        PROVE  Inv'
    <3>1. picked' \subseteq Runnable
      BY <2>1, <2>9 DEF ToggleSelectedRunnableJob, Flip
    <3>2. Menu'
      BY <2>1, <2>9, <3>1 DEF ToggleSelectedRunnableJob
    <3> QED BY <2>2, <2>3, <2>9, <3>2 DEF ToggleSelectedRunnableJob
  <2>10. CASE TriggerNewJobs
    <3>1. nTriggers' \in 1 .. MaxTriggers
      BY <2>1, <2>10, PanelBounds DEF TriggerNewJobs
    <3> DEFINE new == [id |-> nTriggers', confirmed |-> picked, jobs |-> picked, shares |-> TRUE]
    <3>2. new \in [id : 1 .. MaxTriggers, confirmed : SUBSET Runnable,
                   jobs : SUBSET Runnable, shares : BOOLEAN]
      BY <2>1, <3>1
    <3>3. triggers' = triggers \cup {new} /\ UNCHANGED <<picked, lists>>
      BY <2>10 DEF TriggerNewJobs
    <3> HIDE DEF new
    <3>4. Menu'
      BY <2>1, <3>1, <3>2, <3>3
    <3> QED BY <2>2, <2>3, <2>10, <3>4 DEF TriggerNewJobs
  <2>11. ASSUME NEW t \in triggers, NewJobsTriggered(t)
         PROVE  Inv'
    BY <2>7, <2>11 DEF NewJobsTriggered
  <2>12. ASSUME NEW t \in triggers, TriggerFails(t)
         PROVE  Inv'
    <3>1. Menu'
      BY <2>1, <2>12 DEF TriggerFails
    <3> QED BY <2>2, <2>3, <2>12, <3>1 DEF TriggerFails
  <2>13. CASE UNCHANGED pushPanelVars
    BY <2>2, <2>3, <2>13 DEF pushPanelVars, runnableVars
  <2> QED
    BY <1>2, <2>4, <2>5, <2>6, <2>8, <2>9, <2>10, <2>11, <2>12, <2>13 DEF PushPanelNext
<1>3. Inv => PushPanelTypeOK
  OBVIOUS
<1> QED BY <1>1, <1>2, <1>3, PTL DEF PushPanelSpec

\* What is asked for and what is triggered is counted.
FuzzyCounted ==
    /\ nFinds \in 0 .. MaxFinds /\ finds \in 0 .. nFinds
    /\ nSubmits \in 0 .. MaxSubmits

\* The dialog that searches the runnable jobs.
LEMMA FuzzyTypes == FuzzySpec => []FuzzyTypeOK
<1> DEFINE Inv == FuzzyTypeOK /\ FuzzyCounted
           Flags == /\ fuzzyModal \in BOOLEAN /\ modalShown \in BOOLEAN /\ jobsFound \in BOOLEAN
                    /\ useFullList \in BOOLEAN /\ addDisabled \in BOOLEAN
                    /\ removeDisabled \in BOOLEAN /\ submitDisabled \in BOOLEAN
           Chosen == UNION {fuzzyList, selectedList, addPicked, removePicked} \subseteq FuzzyJobs
           Sent == /\ nSubmits \in 0 .. MaxSubmits
                   /\ submits \subseteq [id : 1 .. MaxSubmits, jobs : SUBSET FuzzyJobs]
                   /\ fuzzySent \subseteq SUBSET FuzzyJobs
           Asked == nFinds \in 0 .. MaxFinds /\ finds \in 0 .. nFinds
<1>0. Inv <=> Flags /\ Chosen /\ Sent /\ Asked
  BY FuzzyBounds DEF FuzzyTypeOK, FuzzyCounted
<1>1. FuzzyInit => Inv
  <2> SUFFICES ASSUME FuzzyInit PROVE Inv
    OBVIOUS
  <2>1. Flags
    BY DEF FuzzyInit
  <2>2. Chosen /\ Sent /\ Asked
    BY FuzzyBounds DEF FuzzyInit
  <2> QED BY <1>0, <2>1, <2>2
<1>2. ASSUME Inv, [FuzzyNext]_fuzzyVars
      PROVE  Inv'
  <2>1. UNCHANGED <<submits, fuzzySent, nSubmits>> => Sent'
    BY <1>0, <1>2
  <2>2. UNCHANGED <<finds, nFinds>> => Asked'
    BY <1>0, <1>2
  <2>3. UNCHANGED <<fuzzyList, selectedList, addPicked, removePicked>> => Chosen'
    BY <1>0, <1>2
  <2>4. Flags' /\ Chosen' /\ Sent' /\ Asked' => Inv'
    BY FuzzyBounds DEF FuzzyTypeOK, FuzzyCounted
  <2>5. Flags /\ Chosen /\ Sent /\ Asked
    BY <1>0, <1>2
  <2>6. CASE ShowFuzzyJobs \/ FindFails \/ JobsFound
    <3>0. fuzzyModal' = fuzzyModal \/ fuzzyModal' = ~fuzzyModal
      BY <2>6 DEF ShowFuzzyJobs, FindFails, JobsFound
    <3>1. Flags'
      BY <2>5, <2>6, <3>0 DEF ShowFuzzyJobs, FindFails, JobsFound, listVars, selectedVars, submitVars
    <3>2. Asked'
      BY <2>5, <2>6, FuzzyBounds DEF ShowFuzzyJobs, FindFails, JobsFound
    <3> QED BY <2>1, <2>3, <2>4, <2>6, <3>1, <3>2
            DEF ShowFuzzyJobs, FindFails, JobsFound, listVars, selectedVars, submitVars
  <2>7. CASE Cancel \/ Opened \/ Closed
    <3>1. /\ fuzzyModal' \in {fuzzyModal, FALSE} /\ modalShown' \in {modalShown, TRUE, FALSE}
          /\ removeDisabled' \in {removeDisabled, TRUE}
          /\ submitDisabled' \in {submitDisabled, FALSE}
          /\ UNCHANGED <<jobsFound, useFullList, addDisabled>>
      BY <2>7
      DEF Cancel, Opened, Closed, ResetForm, listVars, selectedVars, submitVars
    <3>2. Flags'
      BY <2>5, <3>1
    <3>3. CurrentList(useFullList) \subseteq FuzzyJobs
      BY FuzzyBounds DEF CurrentList
    <3>4. Chosen'
      BY <2>5, <2>7, <3>3 DEF Cancel, Opened, Closed, ResetForm, listVars, selectedVars
    <3> QED BY <2>1, <2>2, <2>4, <2>7, <3>2, <3>4
            DEF Cancel, FuzzyMove, Opened, Closed, submitVars
  <2>8. ASSUME \/ \E S \in SUBSET FuzzyJobs : FilterJobs(S)
               \/ \E S \in SUBSET fuzzyList : UpdateAddButton(S)
               \/ \E S \in SUBSET selectedList : UpdateRemoveButton(S)
               \/ ToggleFullList
        PROVE  Inv'
    <3>0. /\ useFullList' = useFullList \/ useFullList' = ~useFullList
          /\ addDisabled' = addDisabled \/ addDisabled' \in BOOLEAN
          /\ removeDisabled' = removeDisabled \/ removeDisabled' \in BOOLEAN
          /\ UNCHANGED <<fuzzyModal, modalShown, jobsFound, submitDisabled>>
      BY <2>8
      DEF FilterJobs, UpdateAddButton, UpdateRemoveButton, ToggleFullList, listVars, selectedVars,
          modalVars, submitVars
    <3>1. Flags'
      BY <2>5, <3>0
    <3>5. \A b : CurrentList(b) \subseteq FuzzyJobs
      BY FuzzyBounds DEF CurrentList
    <3>6. /\ UNCHANGED selectedList
          /\ \/ fuzzyList' = fuzzyList
             \/ \E S \in SUBSET FuzzyJobs : fuzzyList' = S \cap CurrentList(useFullList)
             \/ fuzzyList' = CurrentList(useFullList')
          /\ addPicked' = addPicked \/ addPicked' \subseteq fuzzyList
          /\ removePicked' = removePicked \/ removePicked' \subseteq selectedList
      BY <2>8
      DEF FilterJobs, UpdateAddButton, UpdateRemoveButton, ToggleFullList, listVars, selectedVars
    <3>2. Chosen'
      BY <2>5, <3>5, <3>6
    <3> QED BY <2>1, <2>2, <2>4, <2>8, <3>1, <3>2
            DEF FilterJobs, UpdateAddButton, UpdateRemoveButton, ToggleFullList, modalVars, submitVars
  <2>9. CASE AddJobs \/ AddAllJobs \/ RemoveJobs \/ RemoveAllJobs
    <3>1. /\ selectedList' \subseteq selectedList \cup addPicked \cup fuzzyList
          /\ removeDisabled' \in {removeDisabled, TRUE}
          /\ UNCHANGED <<removePicked, listVars, fuzzyModal, modalShown, jobsFound, submitDisabled>>
      BY <2>9 DEF AddJobs, AddAllJobs, RemoveJobs, RemoveAllJobs, modalVars, submitVars
    <3>2. Flags'
      BY <2>5, <3>1 DEF listVars
    <3>3. Chosen'
      BY <2>5, <3>1 DEF listVars
    <3> QED BY <2>1, <2>2, <2>4, <2>9, <3>2, <3>3
            DEF AddJobs, AddAllJobs, RemoveJobs, RemoveAllJobs, modalVars, submitVars
  <2>10. CASE SubmitJobs
    <3>1. Flags' /\ Chosen' /\ Asked'
      BY <2>2, <2>3, <2>5, <2>10 DEF SubmitJobs, listVars, selectedVars, modalVars
    <3>2. Sent'
      BY <2>5, <2>10, FuzzyBounds DEF SubmitJobs
    <3> QED BY <2>4, <3>1, <3>2
  <2>11. ASSUME NEW s \in submits, JobsSubmitted(s) \/ SubmitRefused(s)
         PROVE  Inv'
    <3>1. Flags'
      BY <2>5, <2>11 DEF JobsSubmitted, SubmitRefused, listVars, selectedVars, modalVars
    <3>2. Chosen' /\ Asked'
      BY <2>2, <2>3, <2>11 DEF JobsSubmitted, SubmitRefused, listVars, selectedVars, modalVars
    <3>3. Sent'
      BY <2>5, <2>11 DEF JobsSubmitted, SubmitRefused
    <3> QED BY <2>4, <3>1, <3>2, <3>3
  <2>12. CASE UNCHANGED fuzzyVars
    <3>1. Flags'
      BY <2>5, <2>12 DEF fuzzyVars, listVars, selectedVars, modalVars, submitVars
    <3> QED BY <2>1, <2>2, <2>3, <2>4, <2>12, <3>1
            DEF fuzzyVars, listVars, selectedVars, modalVars, submitVars
  <2> QED
    BY <1>2, <2>6, <2>7, <2>8, <2>9, <2>10, <2>11, <2>12 DEF FuzzyNext
<1> QED BY <1>0, <1>1, <1>2, PTL DEF FuzzySpec

\* A dialog is opened by the user, or by the answer to a submission, which turns
\* the flag over.
DialogsCounted ==
    /\ nCustoms \in 0 .. MaxCustoms /\ nDialogs \in Nat
    /\ IsFiniteSet(customs) /\ Cardinality(customs) <= nCustoms
    /\ nDialogs + Cardinality(customs) <= MaxDialogs + nCustoms

\* The requests to Taskcluster, and the dialog for custom actions.
LEMMA ActTypes == ActInit /\ [][ActNext]_actVars => []ActTypeOK
<1> DEFINE Custom == [id : 1 .. MaxCustoms, dialog : Dialogs]
           Req == [id : Ids, kind : ActKinds, left : 1 .. MaxCancelled, loaded : BOOLEAN]
           Told3 == {"sent", "failed", "cancelled"}
           User == credentials \in {"none", "valid", "expired"} /\ authTab \in BOOLEAN
           Asked == /\ nRequests \in 0 .. MaxRequests /\ actRequests \subseteq Req
                    /\ notices \in [Ids -> SUBSET Told3] /\ submitted \subseteq Ids
           Dialog == /\ dialog \in 0 .. nDialogs /\ loadedFor \subseteq Dialogs
                     /\ triggering \in [Dialogs -> BOOLEAN] /\ customs \subseteq Custom
                     /\ {customSent, customTaken, customEmpty} \subseteq SUBSET (1 .. MaxCustoms)
                     /\ DialogsCounted
           Inv == User /\ Asked /\ Dialog
<1>b. /\ MaxRequests \in Nat /\ MaxCancelled \in Nat /\ MaxExpiries \in Nat
      /\ MaxCustoms \in Nat /\ MaxDialogs \in Nat
  BY ActBounds
<1>c. DialogsCounted => nDialogs <= MaxDialogs + MaxCustoms
  <2> DEFINE c == Cardinality(customs)
  <2> SUFFICES ASSUME DialogsCounted PROVE nDialogs <= MaxDialogs + MaxCustoms
    OBVIOUS
  <2>1. /\ c \in Nat /\ nDialogs \in Nat /\ nCustoms \in Nat /\ nCustoms <= MaxCustoms
        /\ nDialogs + c <= MaxDialogs + nCustoms
    BY <1>b, FS_CardinalityType DEF DialogsCounted
  <2> HIDE DEF c
  <2> QED BY <1>b, <2>1
<1>0. Inv => ActTypeOK
  BY DEF ActTypeOK
<1>1. ActInit => Inv
  <2> SUFFICES ASSUME ActInit PROVE Inv
    OBVIOUS
  <2>1. User
    BY DEF ActInit
  <2>2. Asked
    BY <1>b DEF ActInit
  <2>3. customs = {} /\ nCustoms = 0 /\ nDialogs = 0 /\ dialog = 0
    BY DEF ActInit
  <2>4. DialogsCounted
    BY <1>b, <2>3, FS_EmptySet DEF DialogsCounted
  <2>5. /\ loadedFor \subseteq Dialogs /\ triggering \in [Dialogs -> BOOLEAN]
        /\ {customSent, customTaken, customEmpty} \subseteq SUBSET (1 .. MaxCustoms)
    BY DEF ActInit
  <2> QED BY <2>1, <2>2, <2>3, <2>4, <2>5
<1>2. ASSUME Inv, [ActNext]_actVars
      PROVE  Inv'
  <2>0. User /\ Asked /\ Dialog
    BY <1>2
  <2>1. /\ UNCHANGED <<credentials, authTab>> => User'
        /\ UNCHANGED <<nRequests, actRequests, notices, submitted>> => Asked'
        /\ UNCHANGED customVars => Dialog'
    BY <2>0 DEF customVars, customNotices, DialogsCounted
  <2>2. authTab' = Wanted /\ UNCHANGED credentials => User'
    BY <2>0 DEF Wanted
  <2>3. CASE Renew \/ Expire
    <3>1. User'
      BY <2>0, <2>3 DEF Renew, Expire
    <3> QED BY <2>1, <2>3, <3>1 DEF Renew, Expire
  <2>4. ASSUME NEW kind \in ActKinds, NEW jobs \in 1 .. MaxCancelled, Request(kind, jobs)
        PROVE  Inv'
    <3> DEFINE new == [id |-> nRequests', kind |-> kind, left |-> jobs, loaded |-> FALSE]
    <3>1. nRequests' \in Ids /\ nRequests' \in 0 .. MaxRequests
      BY <1>b, <2>0, <2>4 DEF Request, Ids
    <3>2. new \in Req
      BY <3>1
    <3>3. actRequests' = actRequests \cup {new}
      BY <2>4 DEF Request
    <3> HIDE DEF new
    <3>4. Asked'
      BY <2>0, <2>4, <3>1, <3>2, <3>3 DEF Request
    <3> QED BY <2>1, <2>2, <2>4, <3>4 DEF Request
  <2>5. ASSUME NEW r \in actRequests, ActionsLoaded(r)
        PROVE  Inv'
    <3> DEFINE new == [r EXCEPT !.loaded = TRUE]
    <3>1. new \in Req
      BY <2>0
    <3>2. actRequests' = (actRequests \ {r}) \cup {new}
      BY <2>5 DEF ActionsLoaded
    <3> HIDE DEF new
    <3>3. Asked'
      BY <2>0, <2>5, <3>1, <3>2 DEF ActionsLoaded
    <3> QED BY <2>1, <2>2, <2>5, <3>3 DEF ActionsLoaded
  <2>6. ASSUME NEW r \in actRequests, NEW what \in SUBSET Told3, Notified(r, what)
        PROVE  notices' \in [Ids -> SUBSET Told3]
    BY <2>0, <2>6 DEF Notified
  <2>7. ASSUME NEW r \in actRequests, NEW notice \in SUBSET {"failed"}, NextJob(r, notice)
        PROVE  actRequests' \subseteq Req /\ notices' \in [Ids -> SUBSET Told3]
    <3> DEFINE new == [r EXCEPT !.left = @ - 1, !.loaded = FALSE]
    <3>5. r \in Req /\ r.left \in 1 .. MaxCancelled
      BY <2>0
    <3>6. r.left > 1 => r.left - 1 \in 1 .. MaxCancelled
      BY <1>b, <3>5
    <3>1. r.left > 1 => new \in Req
      BY <3>5, <3>6
    <3>2. actRequests' = (actRequests \ {r}) \cup IF r.left > 1 THEN {new} ELSE {}
      BY <2>7 DEF NextJob
    <3> HIDE DEF new
    <3>3. actRequests' \subseteq Req
      BY <2>0, <3>1, <3>2
    <3>4. Notified(r, notice \cup IF r.left > 1 THEN {} ELSE {"cancelled"})
      BY <2>7 DEF NextJob
    <3> QED BY <2>6, <3>3, <3>4
  <2>8. ASSUME NEW r \in actRequests, NEW what \in SUBSET Told3, Done(r), Notified(r, what)
        PROVE  actRequests' \subseteq Req /\ notices' \in [Ids -> SUBSET Told3]
    BY <2>0, <2>6, <2>8 DEF Done
  <2>9. ASSUME NEW r \in actRequests, LoadFails(r) \/ Refused(r) \/ Aborted(r) \/ Accepted(r)
        PROVE  Inv'
    <3>1. actRequests' \subseteq Req /\ notices' \in [Ids -> SUBSET Told3]
      <4>1. \/ NextJob(r, {"failed"}) \/ NextJob(r, {})
            \/ \E what \in SUBSET Told3 : Done(r) /\ Notified(r, what)
        BY <2>9 DEF LoadFails, LoadFailure, Refused, Refusal, Aborted, Accepted
      <4> QED BY <2>7, <2>8, <4>1
    <3>2. /\ UNCHANGED <<credentials, authTab, customVars, nRequests>>
          /\ submitted' \in {submitted, submitted \cup {r.id}}
      BY <2>9 DEF LoadFails, Refused, Aborted, Accepted
    <3>3. r.id \in Ids
      BY <2>0
    <3>4. Asked'
      BY <2>0, <3>1, <3>2, <3>3
    <3> QED BY <2>1, <3>2, <3>4
  <2>10. CASE OpenDialog
    <3>1. /\ dialog' = nDialogs + 1 /\ nDialogs' = nDialogs + 1 /\ nDialogs < MaxDialogs
          /\ UNCHANGED <<loadedFor, triggering, customs, customNotices, nCustoms>>
      BY <2>10 DEF OpenDialog, Toggle
    <3>2. DialogsCounted'
      <4> DEFINE c == Cardinality(customs)
      <4>1. c \in Nat /\ c <= nCustoms /\ nDialogs \in Nat /\ nCustoms \in Nat
        BY <1>b, <2>0, FS_CardinalityType DEF DialogsCounted
      <4> HIDE DEF c
      <4>2. nDialogs + 1 + c <= MaxDialogs + nCustoms
        BY <1>b, <3>1, <4>1
      <4> QED BY <2>0, <3>1, <4>1, <4>2 DEF DialogsCounted, c
    <3>3. Dialog'
      BY <2>0, <3>1, <3>2 DEF DialogsCounted, customNotices
    <3> QED BY <2>1, <2>2, <2>10, <3>3 DEF OpenDialog
  <2>11. dialog # 0 => dialog \in Dialogs
    BY <1>b, <1>c, <2>0 DEF Dialogs, DialogsCounted
  <2>12. CASE DialogLoaded \/ TriggerInvalid
    <3>1. /\ (loadedFor' = loadedFor \cup {dialog} /\ dialog # 0) \/ UNCHANGED loadedFor
          /\ triggering' \in {triggering, [triggering EXCEPT ![dialog] = FALSE]}
          /\ UNCHANGED <<credentials, authTab, actRequests, notices, submitted, nRequests, dialog,
                         nDialogs, customs, customNotices, nCustoms>>
      BY <2>12 DEF DialogLoaded, TriggerInvalid
    <3>2. Dialog'
      BY <2>0, <2>11, <3>1 DEF DialogsCounted, customNotices
    <3> QED BY <2>1, <3>1, <3>2
  <2>13. CASE TriggerAction
    <3> DEFINE new == [id |-> nCustoms', dialog |-> dialog]
    <3>1. /\ nCustoms' = nCustoms + 1 /\ nCustoms < MaxCustoms /\ dialog # 0
          /\ customs' = customs \cup {new} /\ triggering' = [triggering EXCEPT ![dialog] = TRUE]
          /\ customEmpty' \in {customEmpty, customEmpty \cup {nCustoms'}}
          /\ UNCHANGED <<dialog, nDialogs, loadedFor, customSent, customTaken>>
      BY <2>13 DEF TriggerAction
    <3>2. nCustoms' \in 1 .. MaxCustoms
      BY <1>b, <2>0, <3>1 DEF DialogsCounted
    <3>3. new \in Custom
      BY <2>11, <3>1, <3>2
    <3> HIDE DEF new
    <3>4. DialogsCounted'
      <4> DEFINE c == Cardinality(customs)
                 d == Cardinality(customs')
      <4>1. /\ c \in Nat /\ c <= nCustoms /\ nDialogs \in Nat /\ nCustoms \in Nat
            /\ nDialogs + c <= MaxDialogs + nCustoms
        BY <1>b, <2>0, FS_CardinalityType DEF DialogsCounted
      <4>2. IsFiniteSet(customs') /\ d \in {c, c + 1}
        BY <2>0, <3>1, FS_AddElement DEF DialogsCounted
      <4> HIDE DEF c, d
      <4>3. d <= nCustoms' /\ nDialogs + d <= MaxDialogs + nCustoms'
        BY <1>b, <3>1, <4>1, <4>2
      <4> QED BY <3>1, <3>2, <4>1, <4>2, <4>3 DEF DialogsCounted, d
    <3>6. {customSent, customTaken, customEmpty}' \subseteq SUBSET (1 .. MaxCustoms)
      BY <2>0, <3>1, <3>2
    <3>5. Dialog'
      BY <2>0, <2>11, <3>1, <3>3, <3>4, <3>6
    <3> QED BY <2>1, <2>2, <2>13, <3>5 DEF TriggerAction
  <2>14. CASE CloseDialog \/ CancelDialog
    <3>1. dialog' = 0 /\ UNCHANGED <<nDialogs, loadedFor, triggering, customs,
                                              customNotices, nCustoms>>
      BY <2>14 DEF CloseDialog, CancelDialog, Toggle
    <3>2. Dialog'
      BY <2>0, <3>1 DEF DialogsCounted, customNotices
    <3> QED BY <2>1, <2>14, <3>2 DEF CloseDialog, CancelDialog
  <2>15. ASSUME NEW c \in customs, CustomSent(c) \/ CustomRefused(c)
         PROVE  Inv'
    <3>1. /\ customs' = customs \ {c}
          /\ triggering' = triggering \/ triggering' = [triggering EXCEPT ![dialog] = FALSE]
          /\ \/ UNCHANGED <<dialog, nDialogs>>
             \/ dialog' = 0 /\ UNCHANGED nDialogs
             \/ dialog' = nDialogs + 1 /\ nDialogs' = nDialogs + 1
          /\ customSent' \in {customSent, customSent \cup {c.id}}
          /\ customTaken' \in {customTaken, customTaken \cup {c.id}}
          /\ UNCHANGED <<credentials, authTab, actRequests, notices, submitted, nRequests,
                         loadedFor, customEmpty, nCustoms>>
      BY <2>15 DEF CustomSent, CustomRefused, customNotices, CloseAfter, Toggle
    <3>2. DialogsCounted'
      <4> DEFINE n == Cardinality(customs)
                 d == Cardinality(customs')
      <4>1. /\ n \in Nat /\ n <= nCustoms /\ nDialogs \in Nat /\ nCustoms \in Nat
            /\ nDialogs + n <= MaxDialogs + nCustoms
        BY <1>b, <2>0, FS_CardinalityType DEF DialogsCounted
      <4>2. IsFiniteSet(customs') /\ d = n - 1
        <5>1. IsFiniteSet(customs) /\ customs' = customs \ {c}
          BY <2>0, <3>1 DEF DialogsCounted
        <5>2. IsFiniteSet(customs \ {c}) /\ Cardinality(customs \ {c}) = Cardinality(customs) - 1
          BY <2>15, <5>1, FS_RemoveElement
        <5> QED BY <5>1, <5>2
      <4>3. nDialogs' \in {nDialogs, nDialogs + 1}
        BY <3>1
      <4> HIDE DEF n, d
      <4>5. d = n - 1
        BY <4>2
      <4>4. d <= nCustoms /\ nDialogs' + d <= MaxDialogs + nCustoms /\ nDialogs' \in Nat
        <5>1. CASE nDialogs' = nDialogs
          BY <1>b, <4>1, <4>5, <5>1
        <5>2. CASE nDialogs' = nDialogs + 1
          BY <1>b, <4>1, <4>5, <5>2
        <5> QED BY <4>3, <5>1, <5>2
      <4> QED BY <2>0, <3>1, <4>1, <4>2, <4>4 DEF DialogsCounted, d
    <3>3. dialog' \in 0 .. nDialogs'
      BY <2>0, <3>1 DEF DialogsCounted
    <3>5. {customSent, customTaken, customEmpty}' \subseteq SUBSET (1 .. MaxCustoms)
      BY <2>0, <3>1
    <3>4. Dialog'
      BY <2>0, <3>1, <3>2, <3>3, <3>5
    <3> QED BY <2>1, <3>1, <3>4
  <2>16. CASE UNCHANGED actVars
    BY <2>1, <2>16 DEF actVars
  <2> QED
    BY <1>2, <2>3, <2>4, <2>5, <2>9, <2>10, <2>12, <2>13, <2>14, <2>15, <2>16
    DEF ActNext, ActAnswer
<1> QED BY <1>0, <1>1, <1>2, PTL

\* NoRequestDropped: the steps of one request, of the kinds that say how they end.
LEMMA RequestSettled ==
  ASSUME ActTypeOK, NEW r \in actRequests,
         ActionsLoaded(r) \/ LoadFails(r) \/ Accepted(r) \/ Refused(r) \/ Aborted(r)
  PROVE  /\ actRequests \ {r} \subseteq actRequests'
         /\ \A i \in Ids : notices[i] \subseteq notices'[i]
         /\ r.kind \in Told \cup Cancels =>
                (\E q \in actRequests' : q.id = r.id /\ q.kind = r.kind) \/ notices'[r.id] # {}
<1> DEFINE Under == \E q \in actRequests' : q.id = r.id /\ q.kind = r.kind
           Same(q) == q.id = r.id /\ q.kind = r.kind
<1>1. /\ r \in [id : Ids, kind : ActKinds, left : 1 .. MaxCancelled, loaded : BOOLEAN]
      /\ r.id \in Ids
      /\ notices \in [Ids -> SUBSET {"sent", "failed", "cancelled"}]
  BY DEF ActTypeOK
<1>2. ASSUME NEW what, Notified(r, what)
      PROVE  /\ \A i \in Ids : notices[i] \subseteq notices'[i]
             /\ what \subseteq notices'[r.id]
  BY <1>1, <1>2 DEF Notified
<1>3. ASSUME NEW notice, NextJob(r, notice)
      PROVE  /\ actRequests \ {r} \subseteq actRequests'
             /\ \A i \in Ids : notices[i] \subseteq notices'[i]
             /\ Under \/ notices'[r.id] # {}
  <2> DEFINE new == [r EXCEPT !.left = @ - 1, !.loaded = FALSE]
             what == notice \cup IF r.left > 1 THEN {} ELSE {"cancelled"}
  <2>1. Same(new)
    BY <1>1
  <2>2. /\ actRequests' = (actRequests \ {r}) \cup IF r.left > 1 THEN {new} ELSE {}
        /\ Notified(r, what)
    BY <1>3 DEF NextJob
  <2>3. /\ \A i \in Ids : notices[i] \subseteq notices'[i]
        /\ what \subseteq notices'[r.id]
    BY <1>2, <2>2
  <2> HIDE DEF new
  <2>4. Under \/ notices'[r.id] # {}
    <3>1. CASE r.left > 1
      BY <2>1, <2>2, <3>1
    <3>2. CASE ~(r.left > 1)
      BY <2>3, <3>2
    <3> QED BY <3>1, <3>2
  <2> QED BY <2>2, <2>3, <2>4
<1>4. ASSUME NEW what, Done(r), Notified(r, what)
      PROVE  /\ actRequests \ {r} \subseteq actRequests'
             /\ \A i \in Ids : notices[i] \subseteq notices'[i]
             /\ what # {} => notices'[r.id] # {}
  <2>1. /\ \A i \in Ids : notices[i] \subseteq notices'[i]
        /\ what \subseteq notices'[r.id]
    BY <1>2, <1>4
  <2> QED BY <1>4, <2>1 DEF Done
<1>5. CASE ActionsLoaded(r)
  <2> DEFINE new == [r EXCEPT !.loaded = TRUE]
  <2>1. Same(new)
    BY <1>1
  <2>2. actRequests' = (actRequests \ {r}) \cup {new} /\ UNCHANGED notices
    BY <1>5 DEF ActionsLoaded
  <2> HIDE DEF new
  <2> QED BY <2>1, <2>2
<1>6. ASSUME NextJob(r, {"failed"}) \/ NextJob(r, {})
      PROVE  /\ actRequests \ {r} \subseteq actRequests'
             /\ \A i \in Ids : notices[i] \subseteq notices'[i]
             /\ Under \/ notices'[r.id] # {}
  BY <1>3, <1>6
<1>7. ASSUME NEW what \in {{"sent"}, {"failed"}}, Done(r), Notified(r, what)
      PROVE  /\ actRequests \ {r} \subseteq actRequests'
             /\ \A i \in Ids : notices[i] \subseteq notices'[i]
             /\ Under \/ notices'[r.id] # {}
  BY <1>4, <1>7
<1>8. CASE LoadFails(r)
  <2>1. CASE r.kind \in Told \cup Cancels
    BY <1>6, <1>7, <1>8, <2>1 DEF LoadFails, LoadFailure
  <2>2. CASE r.kind \notin Told \cup Cancels
    BY <1>4, <1>8, <2>2 DEF LoadFails, LoadFailure
  <2> QED BY <2>1, <2>2
<1>9. CASE Accepted(r)
  BY <1>6, <1>7, <1>9 DEF Accepted
<1>10. CASE Refused(r)
  BY <1>6, <1>7, <1>10 DEF Refused, Refusal
<1>11. CASE Aborted(r)
  BY <1>7, <1>11 DEF Aborted
<1> QED BY <1>5, <1>8, <1>9, <1>10, <1>11

\* A request whose end is reported does not end unreported.
LEMMA RequestsKept == ActInit /\ [][ActNext]_actVars => NoRequestDropped
<1> DEFINE Kept == /\ \A r \in actRequests :
                         r.kind \in Told \cup Cancels =>
                             (\E q \in actRequests' : q.id = r.id /\ q.kind = r.kind)
                             \/ notices'[r.id] # {}
                   /\ \A i \in Ids : notices[i] \subseteq notices'[i]
<1>1. ActTypeOK /\ [ActNext]_actVars => [Kept]_actVars
  <2> SUFFICES ASSUME ActTypeOK, ActNext PROVE Kept
    OBVIOUS
  <2>1. actRequests \subseteq actRequests' /\ UNCHANGED notices => Kept
    OBVIOUS
  <2>2. ASSUME NEW r \in actRequests,
               ActionsLoaded(r) \/ LoadFails(r) \/ Accepted(r) \/ Refused(r) \/ Aborted(r)
        PROVE  Kept
    BY <2>2, RequestSettled
  <2>3. CASE ActAnswer
    BY <2>2, <2>3 DEF ActAnswer
  <2>4. ASSUME NEW kind \in ActKinds, NEW jobs \in 1 .. MaxCancelled, Request(kind, jobs)
        PROVE  Kept
    BY <2>1, <2>4 DEF Request
  <2>5. CASE Renew \/ Expire
    BY <2>1, <2>5 DEF Renew, Expire
  <2>6. CASE \/ OpenDialog \/ DialogLoaded \/ TriggerAction \/ TriggerInvalid
            \/ CloseDialog \/ CancelDialog
    BY <2>1, <2>6
    DEF OpenDialog, DialogLoaded, TriggerAction, TriggerInvalid, CloseDialog, CancelDialog
  <2>7. ASSUME NEW c \in customs, CustomSent(c) \/ CustomRefused(c)
        PROVE  Kept
    BY <2>1, <2>7 DEF CustomSent, CustomRefused
  <2> QED BY <2>3, <2>4, <2>5, <2>6, <2>7 DEF ActNext
<1> QED BY <1>1, ActTypes, PTL DEF NoRequestDropped

\* No request to Taskcluster is dropped: one whose end is reported stays under
\* way until there is a notice of it, and notices stay.
THEOREM NoRequestDroppedCorrect == ViewSpec => NoRequestDropped
BY ViewImplementsParts, RequestsKept, PTL

\* The lists of watched repositories.
LEMMA OthersType ==
    ASSUME NEW r, NEW list \in Seq(Repos) PROVE Others(r, list) \in Seq(Repos)
BY KeepMembers DEF Others

LEMMA LoadWatchedType ==
    ASSUME NEW r \in Repos, storedWatched \in Seq(Repos), LoadWatchedRepos(r)
    PROVE  watchedRepos' \in Seq(Repos) /\ storedWatched' \in Seq(Repos)
<1> DEFINE list == <<r>> \o Others(r, storedWatched)
           n == Min({MaxWatched, Len(list)})
<1>1. list \in Seq(Repos)
  BY OthersType, OneMember, Concatenated
<1> HIDE DEF list
<1>2. n \in Int /\ n <= Len(list)
  <2>1. MaxWatched \in Nat /\ Len(list) \in Nat
    BY <1>1, ShellParameters, LenProperties, Zenon
  <2> QED BY <2>1, SmallerOfTwo
<1> HIDE DEF n
<1>3. SubSeq(list, 1, n) \in Seq(Repos)
  BY <1>1, <1>2, PartOfList
<1> QED BY <1>3 DEF LoadWatchedRepos, SaveWatchedRepos, list, n

\* The frame of the view.
LEMMA ShellTypes == ShellSpec => []ShellTypeOK
<1> DEFINE Urls == /\ urlRepo \in Repos /\ firstRepo \in Repos /\ repoName \in Repos
                   /\ currentRepo \in Repos \cup {NoRepo}
           Watched == watchedRepos \in Seq(Repos) /\ storedWatched \in Seq(Repos)
           Trees == /\ DOMAIN trees \subseteq Repos
                    /\ \A r \in DOMAIN trees : /\ {"status", "polls"} \subseteq DOMAIN trees[r]
                                               /\ trees[r].polls => Supported(r)
                    /\ favicon \in TreeStatuses
           Flags == /\ reposKnown \in BOOLEAN /\ serverChanged \in BOOLEAN
                    /\ changedDelayed \in BOOLEAN /\ revisionPolled \in BOOLEAN
           Inv == Urls /\ Watched /\ Trees /\ Flags
<1>b. DefaultRepo \in Repos
  BY ShellParameters, Zenon
<1>0. Inv => ShellTypeOK
  <2> SUFFICES ASSUME Inv PROVE ShellTypeOK
    OBVIOUS
  <2>1. ToSet(watchedRepos) \subseteq Repos /\ ToSet(storedWatched) \subseteq Repos
    BY MembersTyped
  <2> QED BY <2>1 DEF ShellTypeOK
<1>1. ShellInit => Inv
  <2> SUFFICES ASSUME ShellInit PROVE Inv
    OBVIOUS
  <2>1. Urls
    BY DEF ShellInit
  <2>2. Watched
    BY OneMember DEF ShellInit
  <2>3. trees = <<>> /\ favicon = "open"
    BY DEF ShellInit
  <2>4. Trees
    BY <2>3 DEF TreeStatuses
  <2>5. Flags
    BY DEF ShellInit
  <2> QED BY <2>1, <2>2, <2>4, <2>5
<1>2. ASSUME Inv, [ShellNext]_shellVars
      PROVE  Inv'
  <2>0. Urls /\ Watched /\ Trees /\ Flags
    BY <1>2
  <2>1. /\ UNCHANGED <<urlRepo, firstRepo, repoName, currentRepo>> => Urls'
        /\ UNCHANGED <<watchedRepos, storedWatched>> => Watched'
        /\ UNCHANGED <<trees, favicon>> => Trees'
        /\ UNCHANGED <<reposKnown, serverChanged, changedDelayed, revisionPolled>> => Flags'
    BY <2>0 DEF Supported
  <2>2. ASSUME ShowButtons
        PROVE  Trees'
    <3> DEFINE bars == IF reposKnown' THEN ToSet(watchedRepos') \cap Repos ELSE {}
               new == bars \ DOMAIN trees
    <3>1. /\ trees' = [r \in bars |-> IF r \in new THEN Mounted(r) ELSE trees[r]]
          /\ favicon' = favicon
      BY <2>2 DEF ShowButtons
    <3>2. bars \subseteq Repos
      OBVIOUS
    <3>3. ASSUME NEW r
          PROVE  /\ {"status", "polls"} \subseteq DOMAIN Mounted(r)
                 /\ Mounted(r).polls => Supported(r)
      BY DEF Mounted
    <3> HIDE DEF bars
    <3> QED BY <2>0, <3>1, <3>2, <3>3 DEF Supported
  <2>3. ASSUME NEW r \in DOMAIN trees, UnwatchRepo(r)
        PROVE  Inv'
    <3>1. Watched'
      BY <2>0, <2>3, OthersType DEF UnwatchRepo, SaveWatchedRepos
    <3> QED BY <2>1, <2>2, <2>3, <3>1 DEF UnwatchRepo, revisionState
  <2>4. ASSUME NEW r \in Repos, ShellUrlChanges(r)
        PROVE  Inv'
    <3>1. Urls'
      BY <1>b, <2>0, <2>4 DEF ShellUrlChanges
    <3>2. Watched'
      BY <2>0, <2>1, <2>4, LoadWatchedType DEF ShellUrlChanges
    <3> QED BY <2>1, <2>2, <2>4, <3>1, <3>2 DEF ShellUrlChanges, revisionState
  <2>5. CASE ChangeFilters \/ \E r \in Repos : PickRepo(r)
    BY <2>0, <2>4, <2>5 DEF ChangeFilters, PickRepo
  <2>6. CASE ReposAnswered
    <3>1. /\ reposKnown' = TRUE /\ currentRepo' \in {firstRepo, NoRepo}
          /\ UNCHANGED <<urlRepo, firstRepo, repoName, watchedRepos, storedWatched, serverChanged,
                         changedDelayed, revisionPolled>>
      BY <2>6 DEF ReposAnswered, revisionState
    <3>2. Urls'
      BY <2>0, <3>1
    <3>3. Flags'
      BY <2>0, <3>1
    <3> QED BY <2>1, <2>2, <2>6, <3>1, <3>2, <3>3 DEF ReposAnswered
  <2>7. ASSUME NEW r \in Repos, NEW s \in Repos, OtherTabSaves(<<r, s>>)
        PROVE  Inv'
    <3>1. <<r, s>> \in Seq(Repos)
      OBVIOUS
    <3>2. Watched'
      BY <2>0, <2>7, <3>1 DEF OtherTabSaves
    <3> QED BY <2>1, <2>7, <3>2 DEF OtherTabSaves, treeState, revisionState
  <2>8. ASSUME NEW l \in treeLoads, NEW told \in TreeStatuses, TreeAnswered(l, told)
        PROVE  Inv'
    <3>1. /\ favicon' \in {told, favicon}
          /\ UNCHANGED <<repoState, revisionState>>
          /\ trees' = IF l.repo \in DOMAIN trees
                      THEN [trees EXCEPT ![l.repo] = [status |-> told,
                                                      polls |-> @.polls /\ told # "unsupported"]]
                      ELSE trees
      BY <2>8 DEF TreeAnswered
    <3>2. Trees'
      <4>1. CASE l.repo \in DOMAIN trees
        <5> DEFINE b == [status |-> told,
                         polls |-> trees[l.repo].polls /\ told # "unsupported"]
        <5>1. DOMAIN trees' = DOMAIN trees /\ \A r \in DOMAIN trees :
                  trees'[r] = IF r = l.repo THEN b ELSE trees[r]
          BY <3>1, <4>1
        <5>2. /\ {"status", "polls"} \subseteq DOMAIN b
              /\ b.polls => trees[l.repo].polls
          OBVIOUS
        <5> HIDE DEF b
        <5> QED BY <2>0, <3>1, <5>1, <5>2 DEF Supported
      <4> QED BY <2>0, <3>1, <4>1 DEF Supported
    <3> QED BY <2>1, <3>1, <3>2 DEF repoState, revisionState
  <2>9. CASE \/ Deploy \/ TickHour \/ \E r \in DOMAIN trees : UpdateTreeStatus(r)
    BY <2>1, <2>9 DEF Deploy, TickHour, UpdateTreeStatus, repoState, treeState, revisionState
  <2>10. CASE \/ FirstRevision \/ PollRevision \/ RevisionPolled
              \/ \E what \in revisionLoads : RevisionRefused(what)
    <3>1. /\ revisionPolled' = revisionPolled \/ revisionPolled' \in BOOLEAN
          /\ serverChanged' = serverChanged \/ serverChanged' \in BOOLEAN
          /\ changedDelayed' = changedDelayed \/ changedDelayed' \in BOOLEAN
          /\ UNCHANGED <<repoState, treeState>>
      BY <2>10 DEF FirstRevision, PollRevision, RevisionPolled, RevisionRefused
    <3>2. Flags'
      BY <2>0, <3>1 DEF repoState
    <3> QED BY <2>1, <3>1, <3>2 DEF repoState, treeState
  <2>11. CASE UNCHANGED shellVars
    BY <2>1, <2>11 DEF shellVars, repoState, treeState, revisionState
  <2> QED
    BY <1>2, <2>3, <2>5, <2>6, <2>7, <2>8, <2>9, <2>10, <2>11 DEF ShellNext
<1> QED BY <1>0, <1>1, <1>2, PTL DEF ShellSpec

-----------------------------------------------------------------------------
(* The types of the page.                                                  *)

\* Every variable of the page keeps to its type: a list of pushes, jobs,
\* suggestions or repositories holds only those that there are, no count and no
\* queue of requests passes its limit, and each part is in a state it knows.
THEOREM ViewTypeOKCorrect == ViewSpec => []ViewTypeOK
<1> DEFINE Parts == /\ PushesTypeOK /\ DetTypeOK /\ PinTypeOK /\ PushPanelTypeOK /\ FuzzyTypeOK
                    /\ ActTypeOK /\ FilterTypeOK /\ FilerTypeOK /\ SimilarTypeOK /\ ShellTypeOK
                    /\ NotesTypeOK /\ TypeOK
<1>1. ViewSpec => []Parts
  BY ViewImplementsParts, PushesTypes, DetTypes, PinTypesCorrect, PushPanelTypes, FuzzyTypes, ActTypes,
     FilterTypes, FilerTypes, SimilarTypes, ShellTypes, NotesTypeCorrect, ParsingTypeCorrect, PTL
<1>2. ViewInit => part \in ViewParts
  BY DEF ViewInit
<1>3. [ViewNext]_viewVars => UNCHANGED part
  <2>1. \A p : Only(p) => UNCHANGED part
    BY DEF Only
  <2>2. UNCHANGED viewVars => UNCHANGED part
    BY DEF viewVars
  <2>3. ViewNext => \E p : Only(p)
    BY DEF ViewNext
  <2> QED BY <2>1, <2>2, <2>3
<1>4. ViewSpec => [](part \in ViewParts)
  <2>1. part \in ViewParts /\ [ViewNext]_viewVars => (part \in ViewParts)'
    BY <1>3
  <2> QED BY <1>2, <2>1, PTL DEF ViewSpec
<1>5. Parts /\ part \in ViewParts => ViewTypeOK
  BY DEF ViewTypeOK
<1> QED BY <1>1, <1>4, <1>5, PTL
=============================================================================
