---------------------------- MODULE JobDetails ----------------------------
(***************************************************************************)
(* The panel with the details of the selected job (DetailsPanel.jsx), its  *)
(* tabs and the list of its annotations.  Selecting a job aborts the       *)
(* requests of the selection before it, where they can be aborted and its  *)
(* AbortController is still known, and starts six of its own; the panel    *)
(* goes on showing the job before until they are answered.  The requests   *)
(* for the classifications follow them, and every change of a              *)
(* classification; those cannot be aborted.                                *)
(***************************************************************************)
EXTENDS Integers, FiniteSets

CONSTANTS
    DetJobs,      \* jobs of the push list
    FailedJobs,   \* those that are busted, testfailed or an exception
    PerfJobs,     \* those with performance data, once it is ingested
    MaxSelects,   \* selections
    MaxNoteChanges, \* changes of classifications
    MaxDetErrors  \* requests that fail

ASSUME DetBounds == /\ FailedJobs \subseteq DetJobs /\ PerfJobs \subseteq DetJobs
                    /\ {MaxSelects, MaxNoteChanges, MaxDetErrors} \subseteq Nat

VARIABLES
    selectedJob,   \* the store's selected job
    full,          \* selectedJobFull: the job that is shown
    perfDetail,    \* whether perfJobDetail has anything (showPerf)
    notesShown,    \* the job, and version, of the classifications shown
    detLoading,    \* jobDetailLoading
    controller,    \* the selection that selectJobController belongs to
    selects,       \* selections with requests under way
    updates,       \* updateClassifications under way
    tab, tabJob, tabPerf, \* the tab, and what it was the default for
    noteVersion,         \* notes[j]: the version of j's notes on the server
    nSelects, detErrors

detVars == <<selectedJob, full, perfDetail, notesShown, detLoading, controller, selects,
             updates, tab, tabJob, tabPerf, noteVersion, nSelects, detErrors>>
panelVars == <<full, perfDetail, tab, tabJob, tabPerf>>

NoJob == "none"
JobOrNone == DetJobs \cup {NoJob}
Versions == 0 .. MaxNoteChanges

-----------------------------------------------------------------------------
\* getTabNames: without performance data there is no tab for it.
TabCount(perf) == IF perf THEN 6 ELSE 5
TabIndex(name) ==
    CASE name = "artifacts" -> 0 [] name = "failure" -> 1 [] name = "perf" -> 4
DefaultTab(j, perf) ==
    TabIndex(IF j \in FailedJobs THEN "failure" ELSE IF perf THEN "perf" ELSE "artifacts")

\* Mutation: the tab is looked at only when another job is shown.
TabForJobOnly(j, perf) ==
    /\ tabJob' = j /\ tabPerf' = perf
    /\ tab' = IF tabJob # j THEN DefaultTab(j, perf) ELSE tab
\* getDerivedStateFromProps: the default tab of another job, or when the
\* performance data of this one changed its size.
TabFor(j, perf) ==
    /\ tabJob' = j /\ tabPerf' = perf
    /\ tab' = IF tabJob # j \/ tabPerf # perf THEN DefaultTab(j, perf) ELSE tab

-----------------------------------------------------------------------------
\* updateClassifications, of the job that is selected when it is called; it
\* fails without one.  `select` is the selection that waits for it, 0 for none.
UpdateFor(j, select) == [job |-> j, version |-> noteVersion[j], select |-> select]

\* The abort rejects what can be rejected, and the `finally` of that rejection
\* forgets the controller: by then, the one of the new selection.
Abortable == {s \in selects : s.id = controller /\ s.stage = "abortable"}

\* Mutation: the controller is made before the old one is aborted.
StartSelectAbortsNew(j) ==
    /\ detLoading' = TRUE
    /\ selects' = IF controller # 0 THEN selects \ Abortable
                  ELSE {[id |-> nSelects + 1, job |-> j, stage |-> "abortable"]}
    /\ controller' = IF controller # 0 THEN 0 ELSE nSelects + 1
    /\ nSelects' = nSelects + 1
\* selectJob, as componentDidUpdate calls it: for another job, or when a poll
\* changed the selected one.
StartSelect(j) ==
    LET new == [id |-> nSelects + 1, job |-> j, stage |-> "abortable"] IN
    /\ detLoading' = TRUE
    /\ selects' = (selects \ Abortable) \cup {new}
    /\ controller' = IF Abortable # {} THEN 0 ELSE new.id
    /\ nSelects' = nSelects + 1
\* SELECT_JOB and UPDATE_JOB_DETAILS, by a click or a key, or by the poll that
\* selects the same job again.
SelectOne(j) ==
    /\ nSelects < MaxSelects
    /\ selectedJob' = j
    /\ StartSelect(j)
    /\ UNCHANGED <<panelVars, notesShown, updates, noteVersion, detErrors>>

\* CLEAR_JOB: nothing while jobs are pinned.  The panel keeps what it shows.
ClearSelected ==
    /\ selectedJob # NoJob
    /\ selectedJob' = NoJob
    /\ UNCHANGED <<panelVars, notesShown, detLoading, controller, selects, updates, noteVersion,
                   nSelects, detErrors>>

-----------------------------------------------------------------------------
Advance(s, stage) == selects' = (selects \ {s}) \cup {[s EXCEPT !.stage = stage]}

\* The job and its logs are there: what is left (the artifacts, whose request
\* is given the signal in place of its options, and the performance data)
\* cannot be aborted.
AbortableAnswered(s) ==
    /\ s.stage = "abortable"
    /\ Advance(s, "rest")
    /\ UNCHANGED <<selectedJob, panelVars, notesShown, detLoading, controller, updates,
                   noteVersion, nSelects, detErrors>>

\* All are answered; performance data asks for its series.
RestAnswered(s) ==
    /\ s.stage = "rest" /\ s.job \in PerfJobs
    /\ Advance(s, "series")
    /\ UNCHANGED <<selectedJob, panelVars, notesShown, detLoading, controller, updates,
                   noteVersion, nSelects, detErrors>>

\* Mutation: the controller is kept when the panel shows the job.
ShowDetailsKeepsController(s) ==
    /\ s.stage \in {"rest", "series"}
    /\ full' = s.job /\ perfDetail' = (s.stage = "series")
    /\ TabFor(s.job, perfDetail')
    /\ selects' = selects \ {s}
    /\ updates' = IF selectedJob = NoJob THEN updates
                  ELSE updates \cup {UpdateFor(selectedJob, s.id)}
    /\ UNCHANGED <<selectedJob, notesShown, detLoading, controller, noteVersion, nSelects,
                   detErrors>>
\* The panel shows the job of the answers, forgets the controller, and asks for
\* the classifications, of the job that is selected by now.
ShowDetails(s) ==
    /\ s.stage \in {"rest", "series"}
    /\ full' = s.job /\ perfDetail' = (s.stage = "series")
    /\ TabFor(s.job, perfDetail')
    /\ controller' = 0
    /\ selects' = selects \ {s}
    /\ updates' = IF selectedJob = NoJob THEN updates
                  ELSE updates \cup {UpdateFor(selectedJob, s.id)}
    /\ UNCHANGED <<selectedJob, notesShown, detLoading, noteVersion, nSelects, detErrors>>

\* A request fails: the selection stays loading.
SelectFails(s) ==
    /\ detErrors < MaxDetErrors
    /\ detErrors' = detErrors + 1
    /\ controller' = 0
    /\ selects' = selects \ {s}
    /\ UNCHANGED <<selectedJob, panelVars, notesShown, detLoading, updates, noteVersion, nSelects>>

ShowNotes(u) ==
    /\ notesShown' = [job |-> u.job, version |-> u.version]
    /\ updates' = updates \ {u}
    /\ detLoading' = IF u.select # 0 THEN FALSE ELSE detLoading
    /\ UNCHANGED <<selectedJob, panelVars, controller, selects, noteVersion, nSelects, detErrors>>

-----------------------------------------------------------------------------
\* classificationChanged, after the pinboard has saved a classification of the
\* selected job, or the annotations tab (or ctrl+backspace) has deleted the
\* first of those it shows: those of the job they were asked for.
ChangeNotes(j) ==
    /\ noteVersion[j] < MaxNoteChanges
    /\ noteVersion' = [noteVersion EXCEPT ![j] = @ + 1]
    /\ updates' = IF selectedJob = NoJob THEN updates
                  ELSE updates \cup {[job |-> selectedJob, version |-> noteVersion'[selectedJob],
                                      select |-> 0]}
    /\ UNCHANGED <<selectedJob, panelVars, notesShown, detLoading, controller, selects,
                   nSelects, detErrors>>
SaveNote == selectedJob # NoJob /\ ChangeNotes(selectedJob)
RemoveNote == /\ full # NoJob /\ notesShown.version > 0
              /\ ChangeNotes(notesShown.job)

\* `t`, which counts the tab of the test groups whether it is enabled or not,
\* and a click on a tab.
SelectNextTab ==
    /\ full # NoJob /\ selectedJob # NoJob
    /\ tab' = IF tab + 1 < TabCount(perfDetail) THEN tab + 1 ELSE 0
    /\ UNCHANGED <<selectedJob, full, perfDetail, tabJob, tabPerf, notesShown, detLoading,
                   controller, selects, updates, noteVersion, nSelects, detErrors>>
ClickTab(i) ==
    /\ full # NoJob /\ i < TabCount(perfDetail) - 1
    /\ tab' = i
    /\ UNCHANGED <<selectedJob, full, perfDetail, tabJob, tabPerf, notesShown, detLoading,
                   controller, selects, updates, noteVersion, nSelects, detErrors>>

-----------------------------------------------------------------------------
DetInit ==
    /\ selectedJob = NoJob /\ full = NoJob /\ perfDetail = FALSE
    /\ notesShown = [job |-> NoJob, version |-> 0]
    /\ detLoading = FALSE /\ controller = 0 /\ selects = {} /\ updates = {}
    /\ tab = 0 /\ tabJob = NoJob /\ tabPerf = FALSE
    /\ noteVersion = [j \in DetJobs |-> 0] /\ nSelects = 0 /\ detErrors = 0

DetAnswer ==
    \/ \E s \in selects : AbortableAnswered(s) \/ RestAnswered(s) \/ ShowDetails(s)
    \/ \E u \in updates : ShowNotes(u)

DetNext ==
    \/ \E j \in DetJobs : SelectOne(j)
    \/ ClearSelected
    \/ DetAnswer
    \/ \E s \in selects : SelectFails(s)
    \/ SaveNote \/ RemoveNote
    \/ SelectNextTab \/ \E i \in 0 .. 4 : ClickTab(i)

DetSpec == DetInit /\ [][DetNext]_detVars

-----------------------------------------------------------------------------
DetTypeOK ==
    /\ {selectedJob, full, tabJob} \subseteq JobOrNone
    /\ notesShown \in [job : JobOrNone, version : Versions]
    /\ {detLoading, tabPerf, perfDetail} \subseteq BOOLEAN /\ tab \in 0 .. 5
    /\ selects \subseteq [id : 1 .. MaxSelects, job : DetJobs,
                          stage : {"abortable", "rest", "series"}]
    /\ updates \subseteq [job : DetJobs, version : Versions, select : 0 .. MaxSelects]
    /\ controller \in {0} \cup {s.id : s \in selects}
    /\ noteVersion \in [DetJobs -> Versions]

\* The tab that is open is one that the panel has: the performance tab comes and
\* goes with answers that arrive while another tab is open.
TabExists == full # NoJob => tab < TabCount(perfDetail)

\* The panel of a selected job loads only while an answer is awaited that ends
\* it, however selections, the poll and changed classifications overlap, unless
\* a request failed.
SpinnerIsAwaited ==
    detLoading /\ selectedJob # NoJob /\ detErrors = 0 =>
        selects # {} \/ \E u \in updates : u.select # 0
=============================================================================
