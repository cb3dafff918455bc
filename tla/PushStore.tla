----------------------------- MODULE PushStore -----------------------------
(***************************************************************************)
(* The pushes of the job view (ui/job-view/redux/stores/pushes.js), the    *)
(* list that polls for them (PushList.jsx), and the jobs that each push of *)
(* the list fetches when it is mounted (Push.jsx).  Every function of the  *)
(* store that awaits the server reads the store before the await and       *)
(* writes what it computed from that reading after it, so a request        *)
(* carries what it captured.  The browser's URL is held twice: by the      *)
(* window, and by the router, which setUrlParam and replaceLocation do not *)
(* tell.  A push is numbered by its time and has one job at most.          *)
(***************************************************************************)
EXTENDS Integers, FiniteSets, FiniteSetsExt

CONSTANTS
    MaxPush,      \* pushes that may arrive
    MaxClock,     \* changes of jobs; a tick is more than the three seconds
                  \* that getLastModifiedJobTime allows for
    Budgets,      \* what may happen in a behaviour, bounded together: the
                  \* newest push and the age of the jobs at first, changes of
                  \* jobs, links followed and jobs selected, `get next`s,
                  \* answers with an error, and polls under way with the
                  \* requests they lead to
    Linked,       \* the pushes that have a job and that links lead to
    Count,        \* pushes of a fetch (DEFAULT_PUSH_COUNT)
    MaxFetch      \* thMaxPushFetchSize

ASSUME StoreBounds ==
    /\ {Count, MaxFetch} \subseteq Nat \ {0} /\ MaxPush \in Nat \ {0, 1}
    /\ MaxClock \in Nat
    /\ Budgets \subseteq [newest: 1 .. MaxPush, jobs: 0 .. MaxClock, changes: Nat,
                          moves: Nat, nexts: Nat, failures: Nat, polls: Nat]
    /\ Linked \subseteq 1 .. MaxPush

VARIABLES
    tip,          \* the server's newest push
    mod,          \* mod[p]: when the job of push p last changed, 0 before
    win, rtr,     \* the window's URL and the router's copy of it
    pushList, oldest, loading, jobsLoaded, jobMap,  \* the store
    loaded,       \* pushes whose object says jobsLoaded
    selected,     \* the push whose job is selected, 0 for none
    comp,         \* comp[p]: the Push component of p
    jobList,      \* jobList[p]: the version of the job it shows
    requests,     \* what waits for an answer
    budget,       \* what may still happen
    cutAbove      \* history: the last pushes of the polled pages that the
                  \* size of a page cut off from the list they continue

serverVars == <<tip, mod, cutAbove>>
Spend(what) == budget[what] > 0 /\ budget' = [budget EXCEPT ![what] = @ - 1]
storeVars == <<pushList, oldest, loading, jobsLoaded, jobMap, loaded>>
urlVars == <<win, rtr>>
compVars == <<comp, jobList>>
pushesVars == <<tip, mod, win, rtr, pushList, oldest, loading, jobsLoaded, jobMap,
          loaded, selected, comp, jobList, requests, budget, cutAbove>>

Push == 1 .. MaxPush
Ops == {"fetchPushes", "pollPushes", "fetchNewJobs", "fetchJobs"}
None == 0
Clock == Max({mod[p] : p \in Push})

\* The parameters of the URL that the pushes depend on, and the selection.
Url == [revision: Push \cup {None}, fromchange: Push \cup {None},
        tochange: Push \cup {None}, selected: Push \cup {None}]
PlainUrl == [revision |-> None, fromchange |-> None, tochange |-> None,
             selected |-> None]

Newest(S, n) == {p \in S : Cardinality({q \in S : q > p}) < n}

\* The last push of the list, which is sorted by time.
LastPush(S) == IF S = {} THEN None ELSE Min(S)

\* PushModel.getList: a page of `count` pushes, newest first; one more where
\* the oldest one is asked for again, and the largest page from a push on.
InRange(revision, fromchange, tochange, lte) ==
    {p \in 1 .. tip : /\ revision # None => p = revision
                      /\ fromchange # None => p >= fromchange
                      /\ tochange # None => p <= tochange
                      /\ lte # None => p <= lte}
PushesFor(revision, fromchange, tochange, lte) ==
    Newest(InRange(revision, fromchange, tochange, lte),
           IF fromchange # None THEN MaxFetch
           ELSE IF lte # None THEN Count + 1 ELSE Count)

\* getLastModifiedJobTime: of the jobs in the map, or now without any.
LastModified == LET known == {jobMap[p] : p \in Push} \ {0}
                IN  IF known = {} THEN Clock ELSE Max(known)

-----------------------------------------------------------------------------
(* The children of the list: React mounts a Push for each id that is new   *)
(* and unmounts those that are gone, in the same step as the store.        *)

\* A Push that mounts asks for its jobs (componentDidMount); what an
\* unmounted one asked for is still answered.  `open` are the requests that
\* stay under way.
FetchJobs(p) == [op |-> "fetchJobs", push |-> p, live |-> TRUE, job |-> mod[p]]
Disowned(r) == IF r.op = "fetchJobs" THEN [r EXCEPT !.live = FALSE] ELSE r
Children(list, open) ==
    LET gone == {p \in Push : comp[p] # "none" /\ p \notin list}
        new == {p \in list : comp[p] = "none"}
    IN  /\ comp' = [p \in Push |-> IF p \in new THEN "fetching"
                                   ELSE IF p \in gone THEN "none" ELSE comp[p]]
        /\ jobList' = [p \in Push |-> IF p \in new \cup gone THEN 0 ELSE jobList[p]]
        /\ requests' = {IF r.op = "fetchJobs" /\ r.push \in gone THEN Disowned(r) ELSE r
                          : r \in open} \cup {FetchJobs(p) : p \in new}

\* The captured list with what it lacks of the results.
Merged(list, data) == list \cup data
\* Mutation: the last push of the page, which a poll's is not.
OldestOfPage(list, data) == LastPush(data)
OldestOf(list, data) == LastPush(Merged(list, data))

\* addPushes
AddPushes(list, data, setFromchange, open) ==
    LET merged == Merged(list, data) IN
    /\ loading' = FALSE
    /\ \/ /\ data # {}
          /\ pushList' = merged
          /\ oldest' = OldestOf(list, data)
          /\ loaded' = loaded \ (data \ list)
          /\ win' = IF setFromchange THEN [win EXCEPT !.fromchange = LastPush(merged)] ELSE win
          /\ Children(merged, open)
       \/ /\ data = {}
          /\ requests' = open
          /\ UNCHANGED <<pushList, oldest, loaded, win, compVars>>
    /\ UNCHANGED <<rtr, jobsLoaded, jobMap>>

\* fetchPushes, up to its await, as of a store with this list and oldest: the
\* range of the URL holds for a first fetch only.
PushRequest(url, list, old, setFromchange) ==
    [op |-> "fetchPushes", list |-> list, setFromchange |-> setFromchange,
     data |-> IF old = None
              THEN PushesFor(url.revision, url.fromchange, url.tochange, None)
              ELSE PushesFor(url.revision, None, None, old)]

-----------------------------------------------------------------------------
(* updateRange, and the two ways for the router to learn of a URL.         *)

\* clearPushes and a first fetch, unless the revision is in the list already:
\* then the rest is forgotten (setPushes) and the selection is cleared.  `sel`
\* is what was selected before the URL changed.  The pinboard, which is cleared
\* too, is modelled in PinBoard.
UpdateRange(url, sel) ==
    IF url.revision # None /\ url.revision \in pushList
    THEN LET one == {url.revision} IN
         /\ pushList' = one
         /\ oldest' = url.revision
         /\ loading' = FALSE
         /\ jobMap' = [p \in Push |-> IF p \in one THEN jobMap[p] ELSE 0]
         /\ selected' = IF url.selected # None THEN None ELSE sel
         /\ win' = [url EXCEPT !.selected = None]
         /\ rtr' = win'
         /\ Children(one, requests)
         /\ UNCHANGED <<jobsLoaded, loaded>>
    ELSE /\ pushList' = {}
         /\ oldest' = None
         /\ loading' = TRUE
         /\ jobsLoaded' = FALSE
         /\ jobMap' = [p \in Push |-> 0]
         /\ win' = url
         /\ rtr' = url
         /\ selected' = sel
         /\ Children({}, requests \cup {PushRequest(url, {}, None, FALSE)})
         /\ UNCHANGED loaded

\* A route is pushed: the router has the URL, and PushList compares the range
\* with the one the router had (handleUrlChanges).
PushRoute(url, sel) ==
    IF url.revision # rtr.revision
    THEN UpdateRange(url, sel)
    ELSE /\ win' = url
         /\ rtr' = url
         /\ selected' = sel
         /\ UNCHANGED <<storeVars, compVars, requests>>

-----------------------------------------------------------------------------
(* The server, and the user.                                               *)

NewPush ==
    /\ tip < MaxPush
    /\ tip' = tip + 1
    /\ UNCHANGED <<mod, cutAbove, budget, storeVars, urlVars, selected, compVars, requests>>

JobChanges(p) ==
    /\ p <= tip
    /\ Clock < MaxClock /\ Spend("changes")
    /\ mod' = [mod EXCEPT ![p] = Clock + 1]
    /\ UNCHANGED <<tip, cutAbove, storeVars, urlVars, selected, compVars, requests>>

\* A link to one push, or to all of them.
Navigate(p) ==
    /\ p # rtr.revision
    /\ Spend("moves")
    /\ PushRoute([PlainUrl EXCEPT !.revision = p], selected)
    /\ UNCHANGED serverVars

\* A click on a job that is shown (setSelectedJob): the window's URL is pushed
\* with the selection.  After a `get next` at one revision the router learns
\* from it that the revision is gone, and all is fetched anew.
SelectJob(p) ==
    /\ comp[p] # "none" /\ jobList[p] # 0
    /\ p # selected
    /\ Spend("moves")
    /\ PushRoute([win EXCEPT !.selected = p], p)
    /\ UNCHANGED serverVars

\* fetchNextPushes: the range of the router's URL, open at its lower end.
FetchNextPushes ==
    LET url == IF rtr.revision # None
               THEN [rtr EXCEPT !.revision = None, !.tochange = rtr.revision]
               ELSE rtr
    IN  /\ win' = url
        /\ loading' = TRUE
        /\ Spend("nexts")
        /\ requests' = requests \cup {PushRequest(url, pushList, oldest, TRUE)}
        /\ UNCHANGED <<serverVars, rtr, pushList, oldest, jobsLoaded, jobMap,
                       loaded, selected, compVars>>

-----------------------------------------------------------------------------
(* The answers, and the poll.                                              *)

\* fetchNewJobs, up to its await: the jobs of these pushes that changed since.
JobsRequest(list) ==
    [op |-> "fetchNewJobs",
     jobs |-> [p \in Push |-> IF p \in list /\ mod[p] >= LastModified THEN mod[p] ELSE 0]]

\* Mutation: a single push is not polled past, whatever the URL says.
JobsOnlyAnyway == Cardinality(pushList) = 1
\* A single revision has no newer pushes, only newer jobs.
JobsOnly == Cardinality(pushList) = 1 /\ win.revision # None

Polls == {r \in requests : r.op \in {"pollPushes", "fetchNewJobs"}}

\* The last push of a page that does not reach down to the list.
CutFrom(list, data) ==
    IF list # {} /\ data # {} /\ Min(data) > Max(list) THEN {Min(data)} ELSE {}

\* pollPushes, up to its await: the interval waits for no answer (poll).
PollPushes ==
    /\ Cardinality(Polls) < budget.polls
    /\ LET page == PushesFor(win.revision, IF pushList = {} THEN None ELSE Max(pushList),
                             win.tochange, None)
       IN  IF JobsOnly
           THEN /\ requests' = requests \cup {JobsRequest(pushList)}
                /\ UNCHANGED cutAbove
           ELSE /\ requests' = requests \cup
                      {[op |-> "pollPushes", list |-> pushList, setFromchange |-> FALSE,
                        data |-> page]}
                /\ cutAbove' = cutAbove \cup CutFrom(pushList, page)
    /\ UNCHANGED <<tip, mod, budget, storeVars, urlVars, selected, compVars>>

\* The pushes of a fetch or a poll; after a poll, its jobs are asked for.
ReceivePushes(r) ==
    /\ r.op \in {"fetchPushes", "pollPushes"}
    /\ LET rest == requests \ {r}
           list == IF r.data = {} THEN pushList ELSE Merged(r.list, r.data)
       IN  AddPushes(r.list, r.data, r.setFromchange,
                     IF r.op = "pollPushes" /\ list # {}
                     THEN rest \cup {JobsRequest(list)} ELSE rest)
    /\ UNCHANGED <<serverVars, budget, selected>>

\* An answer with an error: a notification, and nothing else; but a Push whose
\* jobs were refused goes on to listen to the polls (componentDidMount).
RequestFails(r) ==
    /\ Spend("failures")
    /\ requests' = requests \ {r}
    /\ comp' = IF r.op = "fetchJobs" /\ r.live THEN [comp EXCEPT ![r.push] = "ready"]
               ELSE comp
    /\ UNCHANGED <<tip, mod, cutAbove, storeVars, urlVars, selected, jobList>>

\* doSetSelectedJobFromQueryString, when every push has its jobs: the job the
\* URL names, or none with the parameter taken off the window's URL.
SelectFromUrl(map) ==
    LET found == win.selected # None /\ map[win.selected] # 0 IN
    /\ selected' = IF found THEN win.selected ELSE None
    /\ win' = IF found THEN win ELSE [win EXCEPT !.selected = None]

\* mapPushJobs and the reducer's UPDATE_JOB_MAP: the answers of a fetch or of
\* a poll, given to the component if it is there and to the map in any case.
MapPushJobs(jobs, done) ==
    LET map == [p \in Push |-> IF jobs[p] # 0 THEN jobs[p] ELSE jobMap[p]]
        all == pushList \subseteq loaded \cup done
    IN  /\ loaded' = loaded \cup done
        /\ jobMap' = map
        /\ IF \E p \in Push : jobs[p] # 0
           THEN /\ jobsLoaded' = all
                /\ IF all /\ ~jobsLoaded THEN SelectFromUrl(map)
                   ELSE UNCHANGED <<selected, win>>
           ELSE UNCHANGED <<jobsLoaded, selected, win>>

\* The jobs of a push, of a component that may be unmounted by now.
ReceivePushJobs(r) ==
    /\ r.op = "fetchJobs"
    /\ requests' = requests \ {r}
    /\ MapPushJobs([p \in Push |-> IF p = r.push THEN r.job ELSE 0], {r.push})
    /\ IF r.live
       THEN /\ comp' = [comp EXCEPT ![r.push] = "ready"]
            /\ jobList' = [jobList EXCEPT ![r.push] = r.job]
       ELSE UNCHANGED compVars
    /\ UNCHANGED <<serverVars, budget, rtr, pushList, oldest, loading>>

\* The jobs of a poll (applyNewJobs): a component listens once it has fetched
\* its own.  The selected job is selected again if it is among them.
ReceiveNewJobs(r) ==
    /\ r.op = "fetchNewJobs"
    /\ requests' = requests \ {r}
    /\ LET heard == [p \in Push |-> IF comp[p] = "ready" THEN r.jobs[p] ELSE 0]
       IN  /\ MapPushJobs(heard, {p \in Push : heard[p] # 0})
           /\ jobList' = [p \in Push |-> IF heard[p] # 0 THEN heard[p] ELSE jobList[p]]
    /\ UNCHANGED <<serverVars, budget, rtr, comp, pushList, oldest, loading>>

-----------------------------------------------------------------------------
PushesInit ==
    /\ budget \in Budgets /\ tip = budget.newest
    /\ mod = [p \in Push |-> IF p \in Linked /\ p <= tip THEN budget.jobs ELSE 0]
    /\ cutAbove = {}
    /\ win \in {PlainUrl} \cup {[PlainUrl EXCEPT !.selected = p] : p \in Linked}
                          \cup {[PlainUrl EXCEPT !.revision = p] : p \in Linked}
    /\ rtr = win
    /\ pushList = {} /\ oldest = None /\ loading = TRUE
    /\ jobsLoaded = FALSE /\ jobMap = [p \in Push |-> 0] /\ loaded = {}
    /\ selected = None
    /\ comp = [p \in Push |-> "none"] /\ jobList = [p \in Push |-> 0]
    /\ requests = {PushRequest(win, {}, None, FALSE)}

Receive(op) == \E r \in requests :
    r.op = op /\ (ReceivePushes(r) \/ ReceivePushJobs(r) \/ ReceiveNewJobs(r))
Fail == \E r \in requests : RequestFails(r)

PushesNext ==
    \/ NewPush
    \/ \E p \in Linked : JobChanges(p)
    \/ \E p \in Linked \cup {None} : Navigate(p)
    \/ \E p \in Linked : SelectJob(p)
    \/ FetchNextPushes
    \/ PollPushes
    \/ \E op \in Ops : Receive(op)
    \/ Fail

\* The interval timer goes on for ever and what it asks for is answered; what
\* the user asks for may never be.
Fairness == /\ WF_pushesVars(PollPushes)
            /\ WF_pushesVars(Receive("pollPushes"))
            /\ WF_pushesVars(Receive("fetchNewJobs"))

PushesSpec == PushesInit /\ [][PushesNext]_pushesVars
PushesFairSpec == PushesSpec /\ Fairness

-----------------------------------------------------------------------------
PushesTypeOK ==
    /\ tip \in Push
    /\ budget \in [newest: Push, jobs: 0 .. MaxClock, changes: Nat, moves: Nat,
                   nexts: Nat, failures: Nat, polls: Nat]
    /\ mod \in [Push -> 0 .. MaxClock]
    /\ win \in Url /\ rtr \in Url
    /\ pushList \subseteq Push /\ loaded \subseteq Push /\ cutAbove \subseteq Push
    /\ oldest \in Push \cup {None} /\ selected \in Push \cup {None}
    /\ loading \in BOOLEAN /\ jobsLoaded \in BOOLEAN
    /\ jobMap \in [Push -> 0 .. MaxClock] /\ jobList \in [Push -> 0 .. MaxClock]
    /\ comp \in [Push -> {"none", "fetching", "ready"}]
    /\ \A r \in requests :
          r.op \in Ops

\* Each push of the list but the last one has the push before it beside it,
\* whatever fetches and polls overlap and whichever answers come late: a
\* sheriff who reads down the list does not miss one.  There may be a gap below
\* a push that a link led to, where the answer to what was asked before the
\* link was followed is listed beside that push; and one below a page that a
\* poll got, when more pushes had arrived than a page holds: the next poll
\* starts from the newest of the page, and nothing asks for the rest.
NoGap == \A r \in pushList :
    r = Min(pushList) \/ r - 1 \in pushList \/ r \in Linked \cup cutAbove

\* `get next` continues where the list ends: the timestamp that the next fetch
\* starts from is the last push's, also after answers that overwrote each other.
OldestIsLast == oldest = IF pushList = {} THEN None ELSE Min(pushList)

\* Reading down the list and asking for more of it shows every push in turn,
\* but below one that a link led to or a page that was full, whatever fetches, polls and changes of the
\* range overlap.
ListIsWhole == NoGap /\ OldestIsLast

\* The newest push is listed again and again, unless the URL leaves it out,
\* however many answers overwrote each other, failed, or were those of another
\* range: each poll starts from the newest that the list has, not from the last
\* poll.
NewestShown == []<>(tip \in pushList \/ win.revision # None \/ win.tochange # None)
=============================================================================
