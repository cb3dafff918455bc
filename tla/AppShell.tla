------------------------------- MODULE AppShell -------------------------------
(***************************************************************************)
(* The frame of the jobs view (job-view/App.jsx) and its bar of watched    *)
(* repositories (SecondaryNavBar.jsx, WatchedRepo.jsx): which repository   *)
(* the page shows, the list of watched ones that it shares with other tabs *)
(* through localStorage, the state of each tree, and the polling for a new *)
(* version of Treeherder.                                                  *)
(***************************************************************************)
EXTENDS Integers, Lists

CONSTANTS
    Repos,           \* the repositories Treeherder knows, in no order
    HgRepos,         \* those Tree Status may know
    DefaultRepo,     \* thDefaultRepo
    MaxWatched,      \* MAX_WATCHED_REPOS
    MaxShellMoves, MaxTreePolls, MaxDeploys, MaxShellClock

NoRepo == "none"  NoRev == -1  NotRetrieved == "not retrieved yet"
TreeStatuses == {"open", "closed", "unsupported", "error"}

ASSUME ShellParameters ==
    /\ HgRepos \subseteq Repos /\ DefaultRepo \in Repos /\ NoRepo \notin Repos
    /\ MaxWatched \in Nat \ {0} /\ {MaxShellMoves, MaxTreePolls, MaxDeploys, MaxShellClock} \subseteq Nat

VARIABLES
    urlRepo,        \* the repository of the URL, which the bar follows
    firstRepo,      \* that of the page load, which the list of repositories is searched for
    repoName, currentRepo, reposKnown,
    watchedRepos,        \* watchedRepoNames
    storedWatched,  \* thWatchedRepos, which every tab writes
    trees,          \* the buttons of the bar: the status each shows, and whether it polls
    treeLoads, favicon,
    deployed,       \* the version the server runs
    serverRev, serverChanged, changedAt, changedDelayed, revisionPolled,
    revisionLoads,  \* the requests for the version under way: "first", "poll"
    shellClock, shellMoves, nTreePolls

repoState == <<urlRepo, firstRepo, repoName, currentRepo, reposKnown, watchedRepos, storedWatched>>
treeState == <<trees, treeLoads, favicon, nTreePolls>>
revisionState == <<serverRev, serverChanged, changedAt, changedDelayed, revisionPolled, revisionLoads>>
shellVars == <<repoState, treeState, revisionState, deployed, shellClock, shellMoves>>

ShellMove == shellMoves < MaxShellMoves /\ shellMoves' = shellMoves + 1

\* A button for every watched repository that exists; a new one asks at once.
Supported(r) == r \in HgRepos
Mounted(r) == [status |-> IF Supported(r) THEN NotRetrieved ELSE "unsupported", polls |-> Supported(r)]
ShowButtons ==
    LET shown == IF reposKnown' THEN ToSet(watchedRepos') \cap Repos ELSE {}
        new == shown \ DOMAIN trees
    IN
    /\ trees' = [r \in shown |-> IF r \in new THEN Mounted(r) ELSE trees[r]]
    /\ treeLoads' = treeLoads \cup {[repo |-> r, current |-> urlRepo'] : r \in new \cap HgRepos}
    /\ UNCHANGED <<favicon, nTreePolls>>

SaveWatchedRepos(list) == watchedRepos' = list /\ storedWatched' = list
Others(r, list) == Keep(list, ToSet(list) \ {r})
LoadWatchedRepos(r) ==
    LET list == <<r>> \o Others(r, storedWatched)
    IN  SaveWatchedRepos(SubSeq(list, 1, Min({MaxWatched, Len(list)})))

UnwatchRepo(r) ==
    /\ ShellMove /\ r \in DOMAIN trees /\ r # urlRepo
    /\ SaveWatchedRepos(Others(r, watchedRepos))
    /\ UNCHANGED <<urlRepo, firstRepo, repoName, currentRepo, reposKnown, revisionState, deployed, shellClock>>
    /\ ShowButtons

\* Every change of the URL, of the repository or of a filter, sets the
\* repository again; before the list is known that is the default one.
ShellUrlChanges(r) ==
    /\ urlRepo' = r
    /\ currentRepo' = IF reposKnown /\ r \in Repos THEN r ELSE NoRepo
    /\ repoName' = IF reposKnown /\ r \in Repos THEN r ELSE DefaultRepo
    /\ IF r # urlRepo THEN LoadWatchedRepos(r) ELSE UNCHANGED <<watchedRepos, storedWatched>>
    /\ UNCHANGED <<firstRepo, reposKnown, revisionState, deployed, shellClock>>
    /\ ShowButtons
\* The menus offer a repository only once the list is known; the back button any.
PickRepo(r) == ShellMove /\ r # urlRepo /\ ShellUrlChanges(r)
ChangeFilters == ShellMove /\ ShellUrlChanges(urlRepo)

ReposAnswered ==
    /\ ~reposKnown /\ reposKnown' = TRUE
    /\ currentRepo' = IF firstRepo \in Repos THEN firstRepo ELSE NoRepo
    /\ UNCHANGED <<urlRepo, firstRepo, repoName, watchedRepos, storedWatched, revisionState, deployed, shellClock,
                   shellMoves>>
    /\ ShowButtons

\* Another tab saves its own list.
OtherTabSaves(list) ==
    /\ ShellMove /\ storedWatched' = list
    /\ UNCHANGED <<urlRepo, firstRepo, repoName, currentRepo, reposKnown, watchedRepos, treeState, revisionState,
                   deployed, shellClock>>

UpdateTreeStatus(r) ==
    /\ nTreePolls < MaxTreePolls /\ nTreePolls' = nTreePolls + 1
    /\ trees[r].polls
    /\ treeLoads' = treeLoads \cup {[repo |-> r, current |-> urlRepo]}
    /\ UNCHANGED <<repoState, trees, favicon, revisionState, deployed, shellClock, shellMoves>>
\* The icon follows the repository that was current when the request left.
TreeAnswered(l, status) ==
    /\ treeLoads' = treeLoads \ {l}
    /\ favicon' = IF l.repo = l.current THEN status ELSE favicon
    /\ trees' = IF l.repo \in DOMAIN trees
                THEN [trees EXCEPT ![l.repo] = [status |-> status, polls |-> @.polls /\ status # "unsupported"]]
                ELSE trees
    /\ UNCHANGED <<repoState, revisionState, deployed, shellClock, shellMoves, nTreePolls>>

Deploy ==
    /\ deployed < MaxDeploys /\ deployed' = deployed + 1
    /\ UNCHANGED <<repoState, treeState, revisionState, shellClock, shellMoves>>
TickHour ==
    /\ shellClock < MaxShellClock /\ shellClock' = shellClock + 1
    /\ UNCHANGED <<repoState, treeState, revisionState, deployed, shellMoves>>
FirstRevision ==
    /\ "first" \in revisionLoads /\ revisionLoads' = revisionLoads \ {"first"}
    /\ serverRev' = deployed /\ revisionPolled' = TRUE
    /\ UNCHANGED <<repoState, treeState, serverChanged, changedAt, changedDelayed, deployed, shellClock, shellMoves>>
PollRevision ==
    /\ revisionPolled /\ "poll" \notin revisionLoads
    /\ revisionLoads' = revisionLoads \cup {"poll"}
    /\ UNCHANGED <<repoState, treeState, serverRev, serverChanged, changedAt, changedDelayed, revisionPolled,
                   deployed, shellClock, shellMoves>>
\* Mutation: polling stops at the first new version.
StopsAtChange == serverChanged
StopsPolling == serverChanged /\ shellClock > changedAt
RevisionPolled ==
    /\ "poll" \in revisionLoads /\ revisionLoads' = revisionLoads \ {"poll"}
    /\ changedDelayed' = (changedDelayed \/ (serverChanged /\ shellClock > changedAt))
    /\ revisionPolled' = (revisionPolled /\ ~StopsPolling)
    /\ serverRev' = deployed
    /\ serverChanged' = (serverChanged \/ serverRev # deployed)
    /\ changedAt' = IF serverRev # deployed /\ ~serverChanged THEN shellClock ELSE changedAt
    /\ UNCHANGED <<repoState, treeState, deployed, shellClock, shellMoves>>
RevisionRefused(what) ==
    /\ revisionLoads' = revisionLoads \ {what}
    /\ UNCHANGED <<repoState, treeState, serverRev, serverChanged, changedAt, changedDelayed, revisionPolled,
                   deployed, shellClock, shellMoves>>

\* A page without a repository in its URL opens the default one.
ShellInit ==
    /\ urlRepo \in Repos /\ firstRepo = urlRepo /\ repoName = urlRepo /\ currentRepo = NoRepo
    /\ reposKnown = FALSE
    /\ watchedRepos = <<urlRepo>> /\ storedWatched = <<urlRepo>>
    /\ trees = <<>> /\ treeLoads = {} /\ favicon = "open"
    /\ deployed = 0 /\ serverRev = NoRev /\ serverChanged = FALSE /\ changedAt = 0
    /\ changedDelayed = FALSE /\ revisionPolled = FALSE /\ revisionLoads = {"first"}
    /\ shellClock = 0 /\ shellMoves = 0 /\ nTreePolls = 0

ShellNext ==
    \/ \E r \in DOMAIN trees : UnwatchRepo(r) \/ UpdateTreeStatus(r)
    \/ \E r \in Repos : PickRepo(r)
    \/ ChangeFilters \/ ReposAnswered
    \/ \E r, s \in Repos : r # s /\ OtherTabSaves(<<r, s>>)
    \/ \E l \in treeLoads, status \in TreeStatuses : TreeAnswered(l, status)
    \/ Deploy \/ TickHour \/ FirstRevision \/ PollRevision \/ RevisionPolled
    \/ \E what \in revisionLoads : RevisionRefused(what)

ShellSpec == ShellInit /\ [][ShellNext]_shellVars

-----------------------------------------------------------------------------
ShellTypeOK ==
    /\ {urlRepo, firstRepo, repoName} \subseteq Repos /\ currentRepo \in Repos \cup {NoRepo}
    /\ ToSet(watchedRepos) \cup ToSet(storedWatched) \subseteq Repos
    /\ DOMAIN trees \subseteq Repos /\ \A r \in DOMAIN trees : trees[r].polls => Supported(r)
    /\ favicon \in TreeStatuses
    /\ {reposKnown, serverChanged, changedDelayed, revisionPolled} \subseteq BOOLEAN

\* Once a tab knows the version it loaded, it asks for a newer one until its
\* large banner is up.
PollsUntilDelayed == serverRev # NoRev /\ ~changedDelayed => revisionPolled
=============================================================================
