----------------------------- MODULE PushPanel -----------------------------
(***************************************************************************)
(* The header of one push of the push list and what its menu does          *)
(* (Push.jsx, PushHeader.jsx, PushActionMenu.jsx): collapsing the push,    *)
(* watching it for notifications, and adding the runnable jobs that the    *)
(* user clicks to it.  The list of selected runnable jobs is changed in    *)
(* place before it is copied, so a trigger that still waits for the        *)
(* actions of the decision task sees the next click.                       *)
(***************************************************************************)
EXTENDS Integers, FiniteSets

CONSTANTS
    Runnable,       \* signatures of the runnable jobs
    MaxPanelMoves,  \* what the user does
    MaxUncompleted, \* jobs of the push that are pending or running
    MaxTriggers,    \* triggers of new jobs
    MaxLists        \* requests for the runnable jobs

ASSUME PanelBounds == {MaxPanelMoves, MaxUncompleted, MaxTriggers, MaxLists} \subseteq Nat

VARIABLES
    collapsed,      \* whether this push is collapsed
    collapsedUrl,   \* the pushes that collapsedPushes of the URL names
    watched,        \* none, push or job
    prompts,        \* what each open question for the permission leads to
    permission,     \* Notification.permission
    uncompleted,    \* pending and running jobs of the push
    runnableVisible,
    runnableListed, \* whether jobList holds the runnable jobs
    picked,         \* selectedRunnableJobs
    lists,          \* requests for the runnable jobs under way
    triggers,       \* confirmed triggers whose actions are being loaded
    sentJobs,       \* what was submitted, with what was confirmed
    panelMoves, nTriggers

panelStateVars == <<collapsed, collapsedUrl>>
watchVars == <<watched, prompts, permission, uncompleted>>
runnableVars == <<runnableVisible, runnableListed, picked, lists, triggers, sentJobs, nTriggers>>
pushPanelVars == <<panelStateVars, watchVars, runnableVars, panelMoves>>

PanelMove == panelMoves < MaxPanelMoves /\ panelMoves' = panelMoves + 1

-----------------------------------------------------------------------------
(* Collapsing.                                                             *)

This == "12"
Longer == "123"   \* a push whose id has this one's as a part

\* The URL is searched for the digits of the id.
NamedIn(url) == url # {}

\* togglePushCollapsed: the state is turned over, and the URL follows it.
TogglePushCollapsed ==
    /\ PanelMove
    /\ collapsed' = ~collapsed
    /\ collapsedUrl' = IF collapsed' THEN collapsedUrl \cup {This} ELSE collapsedUrl \ {This}
    /\ UNCHANGED <<watchVars, runnableVars>>

\* Another push is collapsed or expanded; handleUrlChanges, at the next change
\* of the route.
ToggleOther ==
    /\ PanelMove
    /\ collapsedUrl' = IF Longer \in collapsedUrl THEN collapsedUrl \ {Longer}
                       ELSE collapsedUrl \cup {Longer}
    /\ UNCHANGED <<collapsed, watchVars, runnableVars>>
HandleUrlChanges ==
    /\ collapsed' = NamedIn(collapsedUrl)
    /\ UNCHANGED <<collapsedUrl, watchVars, runnableVars, panelMoves>>

-----------------------------------------------------------------------------
(* Watching.                                                               *)

\* cycleWatchState: what comes next is read before the question is answered.
NextWatch == CASE watched = "none" -> "push" [] watched = "push" -> "job" [] watched = "job" -> "none"
CycleWatchState ==
    /\ uncompleted > 0 /\ PanelMove     \* the button is there while jobs run
    /\ IF NextWatch # "none" /\ permission # "granted"
       THEN prompts' = prompts \cup {NextWatch} /\ UNCHANGED watched
       ELSE watched' = NextWatch /\ UNCHANGED prompts
    /\ UNCHANGED <<panelStateVars, permission, uncompleted, runnableVars>>

\* The user allows, denies or dismisses; what was denied is not asked again.
Answers == IF permission = "default" THEN {"granted", "denied", "default"} ELSE {permission}
WatchFor(next, answer) == watched' = IF answer = "denied" THEN "none" ELSE next
AnswerPrompt(next, answer) ==
    /\ answer \in Answers
    /\ prompts' = prompts \ {next}
    /\ permission' = answer
    /\ WatchFor(next, answer)
    /\ UNCHANGED <<panelStateVars, uncompleted, runnableVars, panelMoves>>

\* New jobs, or completed ones: showUpdateNotifications looks at the counts
\* before and after, and stops watching with "Push completed".
JobCountsChange(n) ==
    /\ uncompleted' = n
    /\ watched' = IF permission = "granted" /\ uncompleted > 0 /\ n = 0 THEN "none" ELSE watched
    /\ UNCHANGED <<panelStateVars, prompts, permission, runnableVars, panelMoves>>

-----------------------------------------------------------------------------
(* Adding jobs.                                                            *)

\* showRunnableJobs, offered while they are hidden: also a second time while
\* the first is not answered.
ShowRunnableJobs ==
    /\ ~runnableVisible /\ lists < MaxLists /\ PanelMove
    /\ lists' = lists + 1
    /\ UNCHANGED <<panelStateVars, watchVars, runnableVisible, runnableListed, picked, triggers,
                   sentJobs, nTriggers>>
\* mapPushJobs adds them to the jobs of the push.
RunnableJobsListed ==
    /\ lists > 0
    /\ lists' = lists - 1
    /\ runnableVisible' = TRUE /\ runnableListed' = TRUE
    /\ UNCHANGED <<panelStateVars, watchVars, picked, triggers, sentJobs, nTriggers, panelMoves>>
\* None, as for every request of this push, or an error: a notification.
NoRunnableJobs ==
    /\ lists > 0
    /\ lists' = lists - 1
    /\ UNCHANGED <<panelStateVars, watchVars, runnableVisible, runnableListed, picked, triggers,
                   sentJobs, nTriggers, panelMoves>>

\* Mutation: hiding leaves what is selected.
HideKeepsPicked(open) ==
    /\ runnableVisible' = FALSE /\ runnableListed' = FALSE
    /\ UNCHANGED picked
    /\ triggers' = {[t EXCEPT !.shares = FALSE] : t \in open}
\* hideRunnableJobs; the selection is a new array, which no trigger holds.
Hide(open) ==
    /\ runnableVisible' = FALSE /\ runnableListed' = FALSE
    /\ picked' = {}
    /\ triggers' = {[t EXCEPT !.shares = FALSE] : t \in open}
HideRunnableJobs ==
    /\ runnableVisible /\ PanelMove
    /\ Hide(triggers)
    /\ UNCHANGED <<panelStateVars, watchVars, lists, sentJobs, nTriggers>>

\* toggleSelectedRunnableJob changes the array that a trigger may hold, and
\* puts a copy in its place.
Flip(S, r) == IF r \in S THEN S \ {r} ELSE S \cup {r}
ToggleSelectedRunnableJob(r) ==
    /\ runnableVisible /\ runnableListed /\ ~collapsed /\ PanelMove
    /\ picked' = Flip(picked, r)
    /\ triggers' = {IF t.shares THEN [t EXCEPT !.jobs = picked', !.shares = FALSE] ELSE t :
                        t \in triggers}
    /\ UNCHANGED <<panelStateVars, watchVars, runnableVisible, runnableListed, lists, sentJobs,
                   nTriggers>>

\* triggerNewJobs: the user confirms what is selected, and the actions of the
\* decision task are loaded.
TriggerNewJobs ==
    /\ runnableVisible /\ picked # {} /\ nTriggers < MaxTriggers
    /\ nTriggers' = nTriggers + 1
    /\ triggers' = triggers \cup
           {[id |-> nTriggers', confirmed |-> picked, jobs |-> picked, shares |-> TRUE]}
    /\ UNCHANGED <<panelStateVars, watchVars, runnableVisible, runnableListed, picked, lists,
                   sentJobs, panelMoves>>

\* add-new-jobs is submitted with what the array holds by now; then the
\* runnable jobs are hidden, with what was selected since.
NewJobsTriggered(t) ==
    /\ sentJobs' = sentJobs \cup {[confirmed |-> t.confirmed, jobs |-> t.jobs]}
    /\ Hide(triggers \ {t})
    /\ UNCHANGED <<panelStateVars, watchVars, lists, nTriggers, panelMoves>>
TriggerFails(t) ==
    /\ triggers' = triggers \ {t}
    /\ UNCHANGED <<panelStateVars, watchVars, runnableVisible, runnableListed, picked, lists,
                   sentJobs, nTriggers, panelMoves>>

-----------------------------------------------------------------------------
PushPanelInit ==
    /\ collapsed = FALSE /\ collapsedUrl = {}
    /\ watched = "none" /\ prompts = {} /\ permission = "default" /\ uncompleted = 0
    /\ runnableVisible = FALSE /\ runnableListed = FALSE /\ picked = {}
    /\ lists = 0 /\ triggers = {} /\ sentJobs = {}
    /\ panelMoves = 0 /\ nTriggers = 0

PushPanelNext ==
    \/ TogglePushCollapsed \/ ToggleOther \/ HandleUrlChanges
    \/ CycleWatchState
    \/ \E next \in prompts, answer \in {"granted", "denied", "default"} : AnswerPrompt(next, answer)
    \/ \E n \in 0 .. MaxUncompleted : JobCountsChange(n)
    \/ ShowRunnableJobs \/ RunnableJobsListed \/ NoRunnableJobs \/ HideRunnableJobs
    \/ \E r \in Runnable : ToggleSelectedRunnableJob(r)
    \/ TriggerNewJobs
    \/ \E t \in triggers : NewJobsTriggered(t) \/ TriggerFails(t)

PushPanelSpec == PushPanelInit /\ [][PushPanelNext]_pushPanelVars

-----------------------------------------------------------------------------
PushPanelTypeOK ==
    /\ {collapsed, runnableVisible, runnableListed} \subseteq BOOLEAN
    /\ collapsedUrl \subseteq {This, Longer}
    /\ watched \in {"none", "push", "job"} /\ prompts \subseteq {"push", "job"}
    /\ permission \in {"default", "granted", "denied"}
    /\ uncompleted \in 0 .. MaxUncompleted
    /\ picked \subseteq Runnable /\ lists \in 0 .. MaxLists
    /\ triggers \subseteq [id : 1 .. MaxTriggers, confirmed : SUBSET Runnable,
                           jobs : SUBSET Runnable, shares : BOOLEAN]

\* What is selected to be triggered can be taken back, once the push is expanded: whatever is
\* hidden, by the menu or by a trigger that succeeds late, is not selected.
PickedIsVisible == picked # {} => runnableVisible /\ runnableListed
=============================================================================
