-------------------------------- MODULE Pages --------------------------------
(***************************************************************************)
(* The other pages of Treeherder (ui/App.jsx, perfherder/App.jsx): the     *)
(* alerts and the menu of a summary, the graphs, the comparison and the    *)
(* form that starts one, the push health and the log viewer, the login     *)
(* and the notifications they share, and the parser behind the errors that *)
(* the log viewer shows.  A route mounts one page at a time, with          *)
(* variables of its own, so a behaviour is seen through the steps of the   *)
(* one page that it is about, while the others stand still.                *)
(***************************************************************************)
EXTENDS AlertsList, AlertSummaryMenu, PerfGraphs, Compare, CompareChooser, Session,
        PushHealth, LogViewer, Notices, LogParsing

VARIABLE route   \* the page whose steps are followed

pagesVars == <<route, alertVars, menuVars, graphVars, compareVars, chooserVars, sessionVars,
               healthVars, logVars, noticeVars, vars>>

Routes == {"alerts", "menu", "graphs", "compare", "comparechooser", "login", "push-health",
           "logviewer", "notifications", "parser"}

\* The other pages stand still.
Alone(r) ==
    /\ route = r /\ UNCHANGED route
    /\ IF r = "alerts"         THEN TRUE ELSE UNCHANGED alertVars
    /\ IF r = "menu"           THEN TRUE ELSE UNCHANGED menuVars
    /\ IF r = "graphs"         THEN TRUE ELSE UNCHANGED graphVars
    /\ IF r = "compare"        THEN TRUE ELSE UNCHANGED compareVars
    /\ IF r = "comparechooser" THEN TRUE ELSE UNCHANGED chooserVars
    /\ IF r = "login"          THEN TRUE ELSE UNCHANGED sessionVars
    /\ IF r = "push-health"    THEN TRUE ELSE UNCHANGED healthVars
    /\ IF r = "logviewer"      THEN TRUE ELSE UNCHANGED logVars
    /\ IF r = "notifications"  THEN TRUE ELSE UNCHANGED noticeVars
    /\ IF r = "parser"         THEN TRUE ELSE UNCHANGED vars

-----------------------------------------------------------------------------
\* The page that is followed starts in any of its initial states; the others in
\* one of theirs.
PagesInit ==
    /\ route \in Routes
    /\ AlertsInit /\ (route = "alerts" \/ listFilter = CHOOSE f \in AlertFilters : TRUE)
    /\ MenuInit /\ (route = "menu" \/ sumServer.status = "untriaged")
    /\ GraphInit /\ (route = "graphs" \/ graphUrl = {})
    /\ CompareInit
    /\ \/ route = "compare"
       \/ /\ view = [subtests |-> FALSE, aggregate |-> FALSE, ancient |-> FALSE]
          /\ compareUrl = [framework |-> CHOOSE f \in CmpFrameworks : TRUE,
                           range |-> CHOOSE r \in CmpRanges : TRUE, complete |-> FALSE,
                           back |-> <<>>]
          /\ metrics = {}
    /\ ChooserInit
    /\ \/ route = "comparechooser"
       \/ \A c \in Cards : revision[c] = "" /\ project[c] = CHOOSE p \in ChooserProjects : TRUE
    /\ SessionInit /\ (route = "login" \/ store.user = "out")
    /\ HealthInit
    /\ route = "push-health" \/ (healthUrl["testGroup"] = "" /\ investigated = {})
    /\ LogInit /\ (route = "logviewer" \/ (highlight = NoLines /\ ~detailsCollapsed))
    /\ NoticesInit
    /\ Init /\ (route = "parser" \/ \A l \in Log : content[l] = "good")

PagesNext ==
    \/ route = "alerts"         /\ AlertsNext  /\ Alone("alerts")
    \/ route = "menu"           /\ MenuNext    /\ Alone("menu")
    \/ route = "graphs"         /\ GraphNext   /\ Alone("graphs")
    \/ route = "compare"        /\ CompareNext /\ Alone("compare")
    \/ route = "comparechooser" /\ ChooserNext /\ Alone("comparechooser")
    \/ route = "login"          /\ SessionNext /\ Alone("login")
    \/ route = "push-health"    /\ HealthNext  /\ Alone("push-health")
    \/ route = "logviewer"      /\ LogNext     /\ Alone("logviewer")
    \/ route = "notifications"  /\ NoticesNext /\ Alone("notifications")
    \/ route = "parser"        /\ Next        /\ Alone("parser")

\* Celery keeps the parsers running.
PagesFairness == \A w \in Workers : WF_vars(route = "parser" /\ WorkerStep(w))

PagesSpec == PagesInit /\ [][PagesNext]_pagesVars /\ PagesFairness

-----------------------------------------------------------------------------
\* The types of all pages.
PagesTypeOK ==
    /\ route \in Routes
    /\ AlertsTypeOK /\ MenuTypeOK /\ GraphTypeOK /\ CompareTypeOK /\ ChooserTypeOK
    /\ SessionTypeOK /\ HealthTypeOK /\ LogTypeOK /\ NoticesTypeOK

\* No page says that it is loading, validating or gathering unless an answer is
\* awaited that ends it, or a fetch threw where nothing catches it, whatever else
\* was asked for, answered, refused or undone meanwhile.
PagesAwaitAnswers ==
    /\ AlertsLoadingIsAwaited /\ GraphLoadingIsAwaited
    /\ ValidatingIsAwaited /\ GatheringIsAwaited

\* What the header of a summary saves and shows has passed its check, in the
\* dialog or on the server, however fast it is replaced.
SavedWasAccepted == LinkedByNumber /\ AssigneeWasAccepted

\* A link copied from the push health opens a task that there is, and one copied
\* from the log viewer the lines its reader sees marked, through closing and
\* opening, tabs and answers that come late.  Going back changes the URL and not
\* the view: the health page keeps a task and its row together in every URL it
\* made, the log viewer says the marked lines again with the next mark.
LinksOpenWhatWasSeen == LinkOpensTask /\ LinkSaysLines
=============================================================================
