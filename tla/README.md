# Treeherder: specifications

Treeherder collects the jobs that Taskcluster runs for Mozilla's repositories
and shows them, push by push, to the sheriffs who classify their failures. This
directory holds TLA+ specifications of it: of the backend, statement by
statement where statements of several processes interleave, and of the pages in
the browser, from what each event handler captures before it awaits the server
to what it writes when the answer comes; with the TLC configurations that check
them on small instances, and TLAPS proofs of the properties that matter most.
`PROJECT.json` gives the lines of source each definition stands for, the runs,
the mutations that show that each property can fail, the hazards, and the
findings.

1. [The system](#1-the-system)
2. [The modules](#2-the-modules)
3. [What the runs show](#3-what-the-runs-show)
4. [Bounds and fairness](#4-bounds-and-fairness)
5. [What is proved](#5-what-is-proved)
6. [What the specifications found](#6-what-the-specifications-found)
7. [What is only model-checked, and what is not modelled](#7-what-is-only-model-checked-and-what-is-not-modelled)
8. [Plan](#8-plan)

## 1. The system

### The backend

A Django application with a MySQL database, celery workers behind RabbitMQ, and
listeners on Mozilla's message bus pulse. Nothing runs in a transaction unless
the code says `transaction.atomic`: each ORM call is an autocommitted statement.
Tasks are acknowledged late (`config/settings.py:355`): a worker that is killed
leaves its task to be delivered again. The Procfile maps SIGTERM to SIGQUIT, so
every deployment and daily restart kills workers in the middle of their tasks.

| Component | State | Operations | Interacts with | Hard behaviour | Correct when |
|---|---|---|---|---|---|
| Pulse listeners (`services/pulse`) | pulse queue and its bindings | forward a message to celery, then acknowledge it | Taskcluster, celery | restart between the two duplicates | every message reaches a worker |
| Job ingestion (`etl/taskcluster_pulse`, `job_loader`, `jobs`) | tables `job`, `taskcluster_metadata`, `job_log` | `store-pulse-tasks`: fetch the task, validate the push, filter, create, update, store and schedule logs | listener, Taskcluster API, log parsers | three concurrent workers, any order, duplicates, retries, restarts | a job never goes back; what is acknowledged is in the table; logs are parsed |
| Push ingestion (`etl/pushlog`, `push_loader`, `push`) | tables `push`, `commit`; cache entry `<repo>:last_push_id` | poll a pushlog every five minutes, fetch an announced push | hg.mozilla.org, pulse, GitHub | overlapping pollers, resets of the remote, obsolete pushes, partial failure | no push is skipped |
| Log parsing (`log_parser`, `etl/artifact`) | `job_log.status`, `text_log_error`, `failure_line`, `group_status` | fetch a log, parse it, store what it says, set its status | job ingestion, Taskcluster artifacts | duplicated tasks, retries after part of the work | rows stored once, a verdict for every log |
| Job notes (`webapp/api/note`, `JobNote`) | `job_note`, `job.failure_classification` | create and delete a note | ingestion (same row) | concurrent requests, requests cut off at 20 s | the job shows its most recent note |
| Failure classification (`BugJobMap`, `ClassifiedFailure`) | mappings of bugs, classified failures | map a bug, set a bug, replace a failure, verify | notes, log parsing | unique bug number, non-atomic steps | one failure per bug, nothing dangling |
| Performance data (`etl/perf`) | signatures, data | store the data of an artifact, schedule alert generation | log parsing, alerts | restart between the two | every new datum is looked at |
| Performance alerts (`perf`, `perfalert`) | alerts, summaries, their status | detect changes, triage, reassign | data, backfill | status determined by rows that change meanwhile | the status follows from the alerts |
| Backfill (`perf/alerts`, `perf_sheriff_bot`, `secretary_tool`) | reports, records, limit | maintain reports, mature, freeze, backfill | alerts, Taskcluster | crash with backfills not yet counted | the limit holds; frozen reports stay |
| Data cycling (`model/data_cycling`) | every table | delete by age, in chunks | all others, mail | chunk limits, errors half way, run-time limit | only and all expired data go |
| SETA (`seta`) | `seta_jobpriority` | update priorities, find high-value jobs | runnable jobs, notes | stale cache, expiry | a job that found a failure runs again |
| Bug suggestions, intermittents, push health data, read APIs, auth, client | caches at most | reads | everything | - | - |

The path that everything else rests on is: push ingested, job announced, job
stored, log scheduled, log parsed, failure classified. The backend modules follow
it.

### The pages

Four React applications behind one router (`ui/App.jsx`): the jobs view,
Perfherder, push health and the log viewer, with the login and the callback
windows. JavaScript runs one handler at a time, so the interleavings are those
of handlers: a handler runs up to an `await`, keeps what it captured (a store's
state, `this.props`, an array it will splice), and goes on when the answer comes,
after any number of other handlers. Nothing orders the answers. State is shared
through redux stores, the URL, objects changed in place, and localStorage, which
the tabs of a browser share.

| Component | State | Operations | Hard behaviour | Correct when |
|---|---|---|---|---|
| Push store (`job-view/redux/stores/pushes.js`, `PushList`) | list of pushes, oldest timestamp, range of the URL | fetch, poll, fetch new jobs, change the range | each answer writes a whole list that was captured before | the list has no gap; the newest push is listed again and again |
| Job details (`details/DetailsPanel`, `TabsPanel`) | selected and shown job, tab, classifications | select with six requests, change a classification, tabs | aborted and overlapping selections | the spinner is awaited; the tab exists |
| Pinboard (`details/PinBoard`, `pinnedJobs.js`) | pinned jobs and bugs, classification, saves | pin in five ways, enter bugs, save | saves overlap with changes and refusals | bounded; what is shown is stored; with its reason |
| Push header and menu (`pushes/Push`, `PushHeader`) | collapsed, watched, runnable jobs picked | list runnable jobs, pick, trigger | lists changed in place while a trigger waits | what is picked is visible |
| Fuzzy job finder (`pushes/FuzzyJobFinder`) | found and selected lists, what is picked in each | search, add, remove, submit | one flag opens and closes, turned over by late answers | what would be removed is listed |
| Taskcluster actions (`models/taskcluster.js`, `job.js`, `push.js`) | credentials, requests | load actions, submit one, report | expiry between the two, refusals | reported as sent only if accepted; always reported |
| Job filters (`models/filter.js`) | URL without defaults, counts | toggles, searches, links, next job | defaults dropped and read back | the URL says all; counts are current |
| Failure summary, bug filer (`FailureSummaryTab`, `BugFiler`) | suggestions, product, form | search products, submit | searches answered in any order | the product is an offered one |
| Similar jobs (`tabs/SimilarJobsTab`) | list, page, boxes | page, tick | jobs and then their pushes, either refused | the overlay is awaited |
| Jobs view shell (`job-view/App`, header bars) | repository, watched ones, deployed revision | pick, watch, poll | a poll that its answers stop; tabs share a list | it polls until its banner is up |
| Alerts view and header (`perfherder/alerts`) | lists, ticks, typed values | filter, page, tick, act, validate, save | splicing into captured arrays; ticks kept twice | acts on what is ticked; saves what was accepted |
| Graphs (`perfherder/graphs`) | plotted objects, colours | fetch, hide, remove, add, alert | shared objects while series load | hidden lines have no colour |
| Comparison and chooser (`perfherder/compare`) | rows, tables, cards | load, filter, sort, retrigger, look up | each level keeps a copy | tables show the filtered rows |
| Push health (`push-health`) | polled data, ticks, URL | poll, tick, mark, go back | records replaced under the ticks | links open what was seen |
| Log viewer (`logviewer/App`) | marked lines, URL | mark, answers | late error lines | the mark is kept |
| Login (`shared/auth`) | localStorage, shown user per tab | log in and out, renew, hear events | events late, tabs renew alone | a logout is shown |
| Notifications (`redux/stores/notifications.js`) | on screen, recent ones | notify, expire, clear | tabs overwrite one item | what is shown is recent |

## 2. The modules

### JobLifecycle and JobIngestion

`JobLifecycle` is the abstract promise about the `job` table: a job appears,
moves forward along pending, running, completed, possibly skipping stages, and
once it is completed neither its state nor its result changes again.
`_remove_existing_jobs` states it for states (`etl/jobs.py:63`). The code keeps
it except for a run that two workers are storing at one moment, so the promise
records which runs were contested like that (`Contest`) and allows only those to
be overwritten, for any number of workers.

`JobIngestion` is the whole path of a message. `Announce` and `StorePush` are
the environment: Taskcluster publishes the events of each run in its own order,
pulse delivers in any, and the push arrives whenever it does. `ListenerForward`
and `ListenerAck` are the two halves of `TaskConsumer.on_message`, with
`ListenerCrash` between them. A worker takes an envelope (`Fetch`: the guards of
`handleMessage`, with `Rejected` tasks dropped at once) and goes, for the
previous run of a rerun first (`stage = "rerun"`) and for the run itself then,
through one action per statement that somebody else can see:

| Action | Code |
|---|---|
| `ValidateRevision` | `JobLoader.validate_revision`; no push means `Retry` |
| `RemoveExistingJobs` | the read of `_remove_existing_jobs`: equal or older states are dropped |
| `CreateJob`, `StoreMetadata`, `UpdateJob` | `_load_job`: the row, `taskcluster_metadata`, the unconditional UPDATE |
| `StoreLogs`, `ScheduleLogParsing` | the rows of `job_log`, and the tasks for those read as PENDING |
| `SkipJob` | `process_job`, which skips a job that fails the schema or lacks an attribute, and goes on; a job without a push that `ignore_task` lets pass ends the same way |
| `LoadJobError` | the catch-all of `store_job_data`, which drops the job and goes on |
| `TaskError`, `Retry`, `GiveUp` | `retryable_task`: ten retries, none for the exceptions listed there |
| `WorkerCrash` | a killed worker: the message is delivered again |

Three ORM calls that create the row (`exists`, `get_or_create`, `get`) are one
action: the guid is unique, and no other statement removes a row. A run that was
*created* as an exception is not reported, and a task with no usable route,
repository or metadata leaves through the same branch. Three variables are
history, which no action reads: `lost`, the jobs of a message that were skipped
or dropped; `cut`, the runs of which a restart or an exception ended the storing
between the row and the end; `contested`, the runs that a worker decided to write
while another was between its read and its UPDATE. `superseded`, a result
the loader still knows, is set by no handler and is left out. The log parsers
appear here as `ParseLog`, which takes a task and leaves any verdict;
`LogParsing` is what happens inside, and `LogVerdicts` the abstract specification
that both implement: a log gets a verdict only while a task of it waits, keeps one
for good, and a task ends only by being worked on.

### LogParsing

Workers of the `log_parser*` pools. A task is for one log of one job
(`etl/jobs.py:359`). `Take` reads the status; `FetchRaw`, `FetchSummary` and
`FetchFails` are the outcomes of fetching and parsing, each with the status it
sets and whether it is retried; `WriteSummary` is the transaction of
`write_failure_lines` (a `DataError` is swallowed); `SelectErrors` and
`InsertErrors` are the two halves of the `get_or_create` of error lines, which
no unique constraint backs (`step` is always null); `MarkParsed` is the status,
in a statement of its own. The rows of a log are counted, not described:
`copies[l]` says how often they are in the table. `Schedule` is ingestion, which
queues a task for a log that it read as PENDING, perhaps some time ago.
`overlapped` is history: the logs of which two workers held a task at one time.
The exceptions that `store_job_artifacts` swallows need a deleted job, whose logs
are deleted with it, so they have no step.

### JobNotes

Requests that create (`Create`, `InsertNote`) or delete (`Destroy`,
`DeleteNote`) a note, and then read the job, read its latest note and save the
row (`ReadJob`, `ReadLatest`, `SaveJob`): `_update_failure_type` in no
transaction. `IngestionUpdate` is job ingestion writing the state of the same
row. `Abort` is gunicorn ending a request at any point. Time is a counter that
`Create` stamps notes with; reading the clock and checking the request are one
action with it. `overtaken` and `behind` are history: the requests that are about
to save what they read before another one changed the notes, and whether one of
those was the last to save, or one that nobody overtook was cut short since.

### PushIngestion

The remote (`Push`, `MarkObsolete`, `Reset`) is hg.mozilla.org's pushlog.
A fetcher is a `fetch-hg-push-log` task: it reads the cached id (`Start`),
fetches (`FetchAfterReset`, `FetchNothing`, `FetchPushes`), throws the id away
after a reset (`Forget`), stores push by push (`StorePush`, `StorePushFails`;
one transaction each), and remembers the last id only if all of them were stored
(`Finish`). Beat starts one every five minutes and the queue has three workers,
so fetchers of one repository overlap. `StorePulsePush` is the task that pulse
triggers for the same push. `Expire` is the cache losing its entry. A cached id
carries `gen`, the numbering it counts in: an auxiliary component the code does
not have, which says when the code's comparison of ids means anything. `passed`
records pushes too old for a fetch without an id; no action reads it.

### The jobs view

One module per part; `JobsView` composes them with `JobNotes`, which its
classifications are posted to, and `LogParsing`, whose errors it shows. `Lists` has
JavaScript's `Array.filter` for the parts that keep their data in arrays.

| Module | Code | Its state and actions |
|---|---|---|
| `PushStore` | `pushes.js`, `PushList`, `Push.fetchJobs` | A push is its number; a gap in the list is a push that is missing between two listed ones. A request is a record with what the code captured; `Receive(kind)` is the code after its `await`. `PollPushes` is the interval, which waits for no answer, so polls overlap; an answer has at most `Count` pushes, or `MaxFetch` from a push on, and a page that is cut off above the list is recorded in `cutAbove`; `Push`, `TickClock` are the server. |
| `JobDetails` | `DetailsPanel`, `TabsPanel`, `AnnotationsTab` | `SelectOne` aborts through `controller`, as far as that is still the one of the selection before; `selects` are the stages of the six requests, `updates` those for classifications. |
| `PinBoard` | `pinnedJobs.js`, `PinBoard`, shortcuts | `PinJob`, `PinJobsOf`, `AddBug`; `ListRange` and `JobsListed` are the repository and the list of jobs around the board (`atTry`, `inList`): what may be saved without a reason depends on the one, and whether a job is posted on the other; `SaveAll` posts a note per job and a mapping per bug, `SaveAnswered` clears the board, `BugStored` and `BugRefused` answer the rest. |
| `PushPanel` | `Push`, `PushHeader`, `PushActionMenu` | `picked` and the record of a trigger may be the same array (`shares`), which is how a click changes what a waiting trigger sends. |
| `FuzzyFinder` | `FuzzyJobFinder` | A search chooses any subset. `fuzzyModal` is the flag that everybody turns over. |
| `JobActions` | `TaskclusterModel`, `getCredentials`, `JobModel`, `ActionBar`, `CustomJobActions` | A request loads, then submits, each with credentials that `Expire` and `Renew` change. `customs` are the submissions of the dialog, `customSent` those that were told to be sent; an action that was triggered before the dialog had loaded is empty (`customEmpty`), and `submit` gives it to nobody. |
| `JobFilters` | `FilterModel`, menus, chicklets, `changeJob` | `filterUrl` is what the URL holds, `Parse` how it is read, and the counts are recounted where the code does. `statusText` says that the model holds a string where it has a list otherwise, which the next toggle takes apart into `Letters`. |
| `BugFiling` | `FailureSummaryTab`, `BugFiler` | `form` is made anew by each opening; searches and submissions outlive it. |
| `SimilarJobs` | `SimilarJobsTab` | Paging with and without appending, and the second request for the pushes. |
| `AppShell` | `job-view/App`, `SecondaryNavBar`, `WatchedRepo` | Repository of the URL, of the page and of the bar; `storedWatched` is localStorage; `FirstRevision`, `PollRevision` and their answers. |

### The other pages

`Pages` composes, one per route: `AlertsList` (`AlertsView` and its tables, where
`arrays` holds the arrays that states and captured variables share),
`AlertSummaryMenu` (the header of one summary), `PerfGraphs` (`items` are the
objects that several arrays of tests share), `Compare`, `CompareChooser`,
`PushHealth`, `LogViewer`, `Session` (tabs, windows, the storage events still to
be handled), `Notices`, and `LogParsing` with two parsers, whose error lines the
log viewer asks for.

Where a page awaits the server there are three answers: data, a refusal, which
`getData` returns and the page handles, and a fetch that throws (`http.js:15`, or
a body that is no JSON), which nobody catches and after which the page goes on
loading: `FetchThrows`, `ModifyThrows`, `SeriesThrows`, `RecentThrows`,
`LookupThrows`, `HealthThrows`, `SimilarThrows`. What threw is recorded
(`listThrown` and so on), since a page may say for good that it is loading after it.
In `AlertsList` a change under way has the panel it belongs to: mounted with its
props, unmounted with the props it had last, or gone with its table (`Follow`),
because the panel's own copy of "all selected" decides which ticks are cleared.
In `PushHealth` a tab that is left unmounts its rows (`SwitchTab`), and a row keeps
the object of its task, which a poll replaces. In `LogViewer` each mark is an entry
of the history (`entries`, `entry`), and going back or forward (`Travel`) changes
the URL and not what is marked.

### How they compose

`JobIngestion` instantiates `JobLifecycle` for its row types and as the
abstract specification it implements. `JobIngestion.StorePush` is the only thing
ingestion sees of `PushIngestion` (a push appears, once, in the table);
`JobIngestion.parseQueue` is `LogParsing.queue`, where `LogParsing.Schedule`
stands for two ingestion workers scheduling the same log, one of them perhaps when
it has been parsed already; what the two promise each other about a log, a task that
waits and a verdict that stays, is `LogVerdicts`, which both implement; `JobNotes` shares the
`job` row with ingestion.

`JobsView` and `Pages` are interleaving compositions of parts that share no
variable: what a part takes from another (the selected job, a suggestion, the
job that is pinned) is chosen freely where it enters, which allows more than the
page does. Their properties each speak of one part, and interleaving two parts
only reaches products of their states, so `part` (or `route`) says which part a
behaviour follows; the others stand still in one of their initial states. That
keeps TLC to the sum of the parts' state spaces. `ViewImplementsParts` and
`PagesImplementParts` prove that each behaviour of the composition is one of
every part, so that what holds of the part holds in the composition. What the
composition does not show is a property of two parts at once. None is stated.

## 3. What the runs show

| Run | Properties | What it shows |
|---|---|---|
| `IngestOne` | `AckedJobsExist`, `Lifecycle` | One worker, two runs of a task, a job that is skipped or dropped: each acknowledged message has the rows of its other jobs, and the table implements `JobLifecycle` under duplicates, reordering and retries. |
| `IngestMany` | `TypeOK`, `AckedJobsReflected`, `AckedJobsHaveMetadata`, `LogsAccountedFor` | Two workers statement by statement, with a restart and an exception: what is acknowledged stays reflected, with metadata and logs, but for the runs that were contested or cut short. |
| `IngestLive` | `NoMessageLost`, `EventsSettle`, `EndedRunsShown` | Every way a run ends, a restart and an exception at any statement: no message is lost, every event is settled and every ended run ends up completed. |
| `IngestRace` | violates `CompletedIsFinal` | Two workers reopen a completed job. |
| `IngestCrash` | violates `LogsSurviveRestarts` | A restart between a job and its logs loses the logs. |
| `NotesRace` | violates `FollowsMostRecentNote` | Two requests at once leave the older classification. |
| `NotesRevert` | violates `StateNeverReverts` | A note takes a job back to an earlier state. |
| `Pushes` | `TypeOK`, `NothingSkipped`, `PushesStored` | Two overlapping fetchers, a reset, an obsolete push, a lost cache entry, a failure: no push up to the cached id is missing, and polling stores all of them in the end. |
| `PushObsolete` | violates `ObsoleteLeftOut` | An obsolete newest push keeps those below it from being stored. |
| `JobsView` | see below | Every part of the jobs view, with the note requests and two parsers. |
| `Pages` | see below | Every other page, with two parsers. |
| `AlertsUpdate` | violates `UpdatesOneSummary` | A refresh of one summary puts back every other one as it was. |

| Part | Property | What could break it |
|---|---|---|
| `PushStore` | `ListIsWhole`, `PollingShowsNewest` | fetches, overlapping polls and range changes that each write a list they captured; pages that are cut; polls that fail |
| `JobDetails` | `TabExists`, `PanelsAwaitAnswers` | answers of another job taking the performance tab away; a selection that was aborted |
| `SimilarJobs` | `PanelsAwaitAnswers` | jobs or pushes refused while boxes and pages change |
| `PinBoard` | `BoardBounded`, `ShownIsStored`, `StoredWithReason` | several jobs pinned at once; overlapping saves with refusals; changes of the board and of the repository during a save |
| `PushPanel`, `FuzzyFinder`, `BugFiling` | `SelectionsAreListed` | lists filled, emptied or hidden while something of them is picked |
| `JobActions` | `SentIsSubmitted`, `RequestReported` | credentials that expire between two steps; a refusal at either; custom actions told as sent |
| `JobFilters` | `UrlSaysAll`, `CountsCurrent` | defaults that are dropped; counts not recounted |
| `AppShell` | `PollsUntilDelayed` | the interval stopped by an answer too early |
| `JobNotes` | `ClassificationCurrent` | two requests at once, some cut short |
| `LogParsing` | `ParsedLogsStored`, `RowsStoredOnce`, `LogsGetAVerdict` | duplicated tasks at two parsers, failures, a restart |
| `AlertsList` | `ActsOnWhatIsTicked`, `PagesAwaitAnswers` | ticks kept by the row and by the table, under filters, refreshes and changes under way; a fetch that throws |
| `AlertSummaryMenu` | `SavedWasAccepted` | typing faster than the validation; answers in any order |
| `PerfGraphs` | `HiddenHasNoColour`, `PagesAwaitAnswers` | objects shared by arrays while lines are hidden, removed and loaded |
| `Compare` | `TablesShowFiltered` | reload, filter and sort in any order, each on a copy |
| `CompareChooser` | `PagesAwaitAnswers` | a revision looked up while its card changes |
| `Session` | `LoggedOutIsShown` | events handled later, renewals meanwhile |
| `PushHealth` | `LinksOpenWhatWasSeen`, `PagesAwaitAnswers` | rows closed, tabs, history, tasks of another row; a first answer refused |
| `LogViewer` | `LinksOpenWhatWasSeen`, `MarkIsKept` | error lines that come after the reader marked others, opened a link or went back |
| `Notices` | `ShownIsRecent` | the limit of stored ones, clearing, tabs that overwrite |

`ViewTypeOK` and `PagesTypeOK` are the types of all parts. The same runs evaluate
the assumptions of every module.

Every property of a passing run is broken by a mutation of the code it is about
(`PROJECT.json`, "mutants"; the mutated operators stand before the originals and
say "Mutation"). The properties are stated as what a user of the data relies on,
with the exceptions the code really makes as part of the statement, each of them
history that names the one thing that happened, not a kind of deployment: a job
that was skipped or dropped (`lost`), a run whose storing stopped half way (`cut`)
or that two workers were at (`contested`), a log of which two workers held tasks
(`overlapped`), a request that saved what it had read before another changed it
(`overtaken`, `behind`), a message that ran out of retries (`exhausted`), a push too
old to be fetched (`passed`), a cached id from an earlier numbering that the remote
has grown past (`Misled`), a push below an obsolete one (`Hidden`), the end of a page
that was cut (`cutAbove`), a fetch that threw, a reader who went back
(`travelled`), and a header box that was left ticked (`stray`).

## 4. Bounds and fairness

One task with up to two runs is enough for ingestion: jobs of different tasks
share no row that is modelled, so their interleavings are those of one task with
itself. Two runs are needed for a rerun to close the run before it. Two workers
make every race of two statements; a third adds another duplicate of what two
already do. `MaxInFlight` bounds the announced and unsettled events: two make
every reordering of neighbouring messages, and duplicates come on top of them
from restarts and retries. One retry distinguishes a message that succeeds later
from one that is given up; the code's ten do the same more often. One restart
and one exception, at any statement, are the single failures, and `IngestMany` has
both beside a second worker; two requests and one abort make a note overtake
another, and be overtaken.

Log parsing has one log of each kind, as they meet in no row, scheduled twice as
two ingestion workers may; two workers without a restart in `JobsView`, with one in
`Pages`. Pushes: three pushes with a window of two make a push
that is too old for a fetch without an id; a reset with one or two pushes before
it and as many after makes the remote regrow past the cached id.

In the pages a bound counts the moves of the user, the requests, and the
failures. Two of a thing are what a handler needs to be stale about (two jobs,
two tests, two tabs, two products; three pushes, since a gap is between two).
The link that leads to a push leads to the one in the middle, which may be listed
already or not, and which a newer push can follow. A page has one push (`MaxFetch`)
when a poll asks, so three pushes that come between two polls are cut to one. What
the user, the server and the interval may do on the push list trades off: `MCBudgets`
lists the combinations that are explored, each enough for a hazard of its own (two
polls under way at once; a link beside a refusal; a job selected before and after
`get next`), as all at their largest are too many. Of the two jobs on the board one
is of a repository that asks for reasons (`StrictJobs`), one is not.
Two requests of a kind overlap in each order; `PushStore` and `AlertsList` have
three, as an answer may overwrite what two others agree on. Three or four moves
reach what has several steps: open, pick, change the list, act; three on the alerts
reach `None`, then `All`, while a change is under way. The log has two lines and one
mark, with the error lines and the link on either of them. The board holds
one job (`MaxSize`) so that it is full; the menu of notifications one, the bug
filer one bug, and one colour is shared by two lines, so that each limit is met.
`MCJobsView` and `MCPages` choose the data where the cases differ: a job that
matches two words, a framework that has only one side of a row, a revision that
is among the recent ones of one project only, a test with one run and one with
two.

Fairness. In `IngestLive` and for the parser of `Pages`, weak fairness of the
listener and of each worker's own steps: Heroku runs the processes of the
`Procfile` and starts again one that exits, celery delivers whatever is queued,
and no step waits for another worker. Failures, restarts and the environment
have no fairness, and nothing says that a push ever arrives. In `Pushes`, weak
fairness of each fetcher: beat schedules them for ever (`CELERY_BEAT_SCHEDULE`).
None of pulse: `PushesStored` says that polling alone is enough, which is what
it is there for. In `JobsView`, weak fairness of the poll and of the answers to
what it asks: `setInterval` goes on for ever (`PushList.jsx`), and a request is
answered or fails; and of Taskcluster's answers, where the wait for credentials
ends after four seconds by a timer of the code. Users owe nothing, in particular
not to close or save anything. Every number of failures is finite, as it must be
for anything to end. `CHECK_DEADLOCK` is off since an instance ends once its
messages, notes or pushes are used up.

## 5. What is proved

All proofs are for every value of the constants under the assumptions the
modules state (the bounds are natural numbers, the null values differ from the
others). No theorem assumes anything of how many workers or requests there are, or
that nothing fails.

| Module | Theorems |
|---|---|
| `JobIngestionProofs` | `TypeCorrect`, `AckedJobsExistCorrect`, `AckedJobsReflectedCorrect`, `LifecycleCorrect`, `AckedJobsHaveMetadataCorrect`, `LogsAccountedForCorrect`, `NoMessageLostCorrect`, `IngestionImplementsVerdicts` |
| `LogParsingProofs` | `ParsingTypeCorrect`, `ParsedLogsStoredCorrect`, `RowsStoredOnceCorrect`, `NoLogForgottenCorrect`, `ParsersImplementVerdicts` |
| `ClassificationProofs` | `NotesTypeCorrect`, `ClassificationCurrentCorrect`, `PinTypesCorrect`, `BoardBoundedCorrect`, `ShownIsStoredCorrect`, `StoredWithReasonCorrect` |
| `PushIngestionProofs` | `PushTypesCorrect`, `NothingSkippedCorrect` |
| `JobsViewProofs` | `ViewImplementsParts`, `ViewBoardBounded`, `ViewShownIsStored`, `ViewStoredWithReason`, `SelectionsAreListedCorrect`, `PanelsAwaitAnswersCorrect`, `TabExistsCorrect`, `PollsUntilDelayedCorrect`, `SentIsSubmittedCorrect`, `UrlSaysAllCorrect`, `CountsCurrentCorrect`, `ListIsWholeCorrect`, `NoRequestDroppedCorrect`, `ViewTypeOKCorrect` |
| `PagesProofs` | `PagesImplementParts`, `MarkIsKeptCorrect`, `PagesAwaitAnswersCorrect`, `LoggedOutIsShownCorrect`, `SavedWasAcceptedCorrect`, `LinksOpenWhatWasSeenCorrect`, `ActsOnWhatIsTickedCorrect`, `TablesShowFilteredCorrect`, `HiddenHasNoColourCorrect`, `NoticesRecalled`, `ShownIsRecentCorrect`, `PagesTypeOKCorrect` |
| `PerfherderProofs` | `CompareAgrees` |

Every invariant and action property that a passing run checks is one of these
theorems, with the exceptions that the property states. The proof modules follow the components: `JobIngestionProofs`, `LogParsingProofs` and
`PushIngestionProofs` one each; `ClassificationProofs` the notes and the pinboard,
which posts them; `JobsViewProofs` the other parts of the jobs view and their
composition; `PerfherderProofs` the parts under `perfherder/` except for what they
share with other pages, and `PagesProofs` the other pages and the composition.
`ListLemmas` has what they all need of numbers, lists and finite sets.

The arguments:

- **A row for every acknowledged job.** `AckedJobsExist` is not inductive: it
  has to know that the row of a job which a worker has passed is there.
  `RowInv` adds, per worker, that once its filter has seen a row, or its
  statement created one, it stays (`RowsFound`), and that a job it has passed
  without one was dropped; rows are never deleted.
- **No message is lost.** What the listener is about to acknowledge has been handed
  on (`MessageInv`). A worker acknowledges, gives up, queues again or keeps what it
  holds (`HolderHands`), and what is queued stays so until a worker takes it
  (`QueuedHanded`). `NoLogForgotten` is the same of the tasks of a log, which end
  with a verdict, another attempt or a final failure (`HolderKeeps`); what a task
  has settled stays settled (`SettledStays`).
- **Verdicts.** To ingestion the parsers are one action, `ParseLog`, and to the
  parsers ingestion is one, `Schedule`. Both specifications are shown to implement
  `LogVerdicts`, which is all that either relies on: every step of a parser works
  on one log, of which a task waits, and leaves the others alone (`StepWorksOn`); a
  worker of ingestion only adds tasks (`WorkerSchedules`); neither takes a verdict
  back.
- **The lifecycle.** What a worker's filter read is still so when its UPDATE is
  executed, or moves the row on (`DecisionHolds`), unless the run is contested: two
  workers decide on one run only if that is recorded (`Alone`), because the second
  one to read finds the first (`AloneStep`). The run before a rerun is closed by
  the time its own message is handled, contested, or dropped (`RerunClosed`). Then
  each UPDATE is an `Advance` or an `Overwrite` of `JobLifecycle`, a read that finds
  another worker a `Contest`, every other action a stutter (`LifecycleCorrect`),
  and the ranks of runs that nobody contested only grow (`RanksGrow`), which keeps
  what was acknowledged reflected.
- **Parsed logs have their rows.** A worker that is about to insert knows
  which rows exist and one at `mark` has stored them (`RowsKnown`, in
  `StoredInv`); rows are never removed.
- **Rows once.** Two workers hold tasks of one log only if that is recorded (`Apart`),
  so what a worker of another log read stays so (`ReadsHold`, in `OnceInv`). A log
  that is not marked has rows only if a worker died or failed in between, and the
  `get_or_create` of the next attempt finds them; a summary is stored and marked by
  one transaction.
- **The note a job shows.** `NotesInv` says that the classification is that of the
  notes, or that some request is still to read them, or to save what they are
  (`WillHeed`), unless the last to save was overtaken, or a request was cut short
  before its save; a request at its save has what the notes say, or is recorded as
  overtaken (`SavesFollow`). The save of a later request makes up for both. That a most recent note exists is by the least number (`LeastNumber`).
- **No push is skipped.** For a cursor of the present numbering, each push up to
  it is settled or still in the fetcher's hands, unless the fetcher has failed to
  store one, in which case it will not write the cache (`CursorInv`, `Reached`);
  no cursor counts in a numbering that is still to come (`GenInv`), so a reset
  makes every claim void at once.
- **Metadata and logs.** `KeptInv` says, of each run that was not cut short, which
  worker at which statement is about to supply what its row or its logs still lack
  (`MetadataComes`, `LogComes`, `ParsingComes`). A restart or an exception takes that
  worker away, and records its run as cut at that moment; `IngestCrash` shows that
  nobody makes up for it.
- **The compositions.** A step of `ViewNext` is a step of one part and `Only`
  leaves the variables of every other part alone (`ViewStep`, and `PageStep` for
  the pages); hence an invariant is proved of a part's own specification and
  carried over by PTL.
- **The board is bounded.** Each way of pinning adds a set no larger than the
  room there is; the rest is that the cardinality of a union is at most the sum.
- **What is stored has a reason.** Each save under way carries a note that has
  one (`SavesHaveReason`), if one of its jobs is neither of Try nor of a project
  repository, whatever happens to the board, or to the repository that is shown, after
  it was posted: only jobs that the list has are posted, and it has those of one
  repository.
- **Spinners are awaited.** Whoever sets the flag has added a request, and
  whoever takes a request away clears the flag, leaves the one it belongs to, or
  records that it threw.
  Three need more: the selections of the details panel are numbered from one, to
  tell their requests for classifications from others (`SelectsNumbered`);
  repositories are asked for only when a health is there (`HealthIsAwaited`); a
  lookup is of one of the two cards (`LookupsAreOfCards`).
- **The list is whole.** A request captures the list before it awaits the server
  and writes what it makes of it afterwards, so the invariant (`ListAgrees`) says
  of each request under way that the list it captured and the answer it will get
  are whole together. An answer is an unbroken range (`PageUnbroken`) that touches
  the captured list: from its newest push on (`PolledPage`) or from its oldest one
  down (`NextPage`). A page after a push may be cut by the server, and then begins
  above a hole: its last push is one of `cutAbove`, and stays one (`WholeStays`,
  `AnswersStay`), for the answers under way as for the list.
- **Ticks.** The tables whose row changed are filled again, with nothing ticked
  (`RefilledAgree`); one that is ticked changes while the rows do not
  (`TableAgrees`); a panel that is cleared without having seen the header box ticked
  leaves it so, and the table is then a stray one.
- **The tab exists.** The tab was last adjusted for the job and the performance
  data that are shown (`TabIsOfJob`).
- **It polls.** A poll under way has not been given up, or the banner is up
  (`PollIsWanted`).
- **The URL says all.** `RoundTrip`: what is written and read back is what it
  was, unless it empties a filter whose default is not empty; every operation of
  the code is shown not to do that, or to be read back as what it then shows.
  Words are any set (`FiltersAgree`).
- **A logout is shown.** A tab that still shows somebody after the session ended
  has, as the last event it will handle, that it ended (`LogoutIsTold`).
- **No request is dropped.** A request that ends leaves a notice of its kind, and
  one that goes on keeps its number (`RequestSettled`).
- **The tables show what is filtered.** Filtered rows, tables and the way each is
  sorted agree after every load, filter, click on a column and change of the URL
  (`TablesAgree`, with `CompareTyped` for what is typed and awaited), whatever order
  a sort leaves equal rows in.
- **A hidden line has no colour.** Objects are shared by several arrays of tests,
  so the invariant (`GraphTyped`) says of each array, also of one that a load or an
  alert under way has captured, that it refers to objects there are. The handler
  that ticks and unticks goes through the objects one after the other: each of its
  steps leaves what is hidden without a colour (`Toggled`), hence all of them do.
- **What is shown is recent.** The lists of a tab and of localStorage are each
  numbered from the newest down (`NewestFirst`, `NoticesAgree`); one that is missing
  from a list was cleared or has been pushed out by as many newer ones as the list
  has room for (`FullWhen`).
- **Types of the pages.** `ViewTypeOK` and `PagesTypeOK` are proved part by part, each
  with what its types rest on: requests are answered with lists of known pushes
  (`StoreTyped`), dialogs and searches are counted (`DialogsCounted`,
  `FuzzyCounted`), windows and requests are numbered (`WindowsNumbered`), every way
  to set filters leaves the statuses known ones (`StatusStep`), what can be typed
  into an input is a revision, short or empty (`RevisionsTyped`). `AlertsTyped`,
  `MenuTyped`, `HealthTyped` and `SimilarLoad` do the same for what a request
  captured. They assume of the data only that the jobs in the order of the push list
  (`ListedJobs`) and those that are like the selected one (`SimilarTo`) are finite
  lists.
- **Lists.** What a fold, a filter or a sort of a list returns is computed by a
  recursive function, and the induction theorems of the library cannot be used (they
  take an operator as a parameter). `ListLemmas` argues by the least
  counterexample instead: a set of positions that a claim fails of has a smallest
  one (`LeastNumber`), so a claim that holds of no positions and survives adding a
  last one holds of all (`PositionInduction`), and the function a fold defines exists
  (`PositionRecursion`). From these follow `KeepMembers` for `Array.filter` (`Keep`
  of `Lists`) and `SortedListing`, that every finite set can be listed by rank.
- **Saved was accepted, links open what was seen.** A valid input of the dialog
  holds a number (`LinkIsChecked`); both the URL and the one that Back returns to
  open a task of the row they name (`UrlsOpenTasks`). The entry of the history that
  the log viewer is at has the marked lines until its reader travels
  (`LinesAreLinked`).

## 6. What the specifications found

Each of these is a run that must fail, and a finding of `PROJECT.json`:

- Two workers can reopen a completed job (`IngestRace`): the UPDATE at
  `etl/jobs.py:260` does not look at the state that the filter read.
- A restart between a job and its logs loses the logs (`IngestCrash`): the
  redelivered message is filtered out at `etl/jobs.py:66`, which late
  acknowledgement was meant to prevent (`config/settings.py:355`).
- Two notes at once leave the classification of the older (`NotesRace`), and a
  note on a job that completes meanwhile takes it back to running
  (`NotesRevert`), as `job.save()` at `model/models.py:781` writes every column.
  `ClassificationCurrent` is what remains of the first: the next request that is
  neither overtaken nor cut short makes up for it.
- A newest push that is obsolete makes each poll end with an IndexError at
  `etl/pushlog.py:115`, before the loop that was written to leave it out
  (`PushObsolete`).
- Refreshing one alert summary splices its answer into the array that was
  captured before the request, and shows that array (`AlertsUpdate`,
  `AlertsView.jsx:286-294`).

Two parsers at once can store error lines twice, since `unique_together` of
`text_log_error` names a column that is always null: `RowsStoredOnce` excepts the
logs of which two workers held tasks at one time (`overlapped`), and fails without
that exception.

### Other differences met while modelling

These are in the models as the code has them. They break no property that is
checked, either because no property claims the contrary, or because the property
states the exception; each is a place where a claim one would like to make is
false. Lines are of the code as modelled.

- *Ingestion.* A job that `ignore_task` lets pass without a push reaches
  `store_job_data`, which then finds no push for it and drops it
  (`job_loader.py:102-113`, `jobs.py:422-464`).
- *Push store.* A poll is answered with the newest `thMaxPushFetchSize` pushes
  at most (`models/push.js:43-51`): when more have come since the newest in the list,
  the next poll goes on from the newest, and those between are never listed, which is what `cutAbove` records. The interval does not wait
  for the answer of the poll before (`PushList.jsx:82-90`). Two answers that captured the same list lose one of their pushes
  (`pushes.js:276-291`, `325-336`), which is why `ListIsWhole` speaks of gaps and
  not of every fetched push; an answer for the old range is listed after the range
  changed, against the comment at 300-301, and the next poll adds the push of the
  new URL above a gap: `ListIsWhole` excludes the pushes that links lead to. Jobs that change just before a new
  push raises the newest `last_modified` are not fetched (79-87). A push adds its
  listener for new jobs after its own fetch, perhaps after it was removed
  (`Push.jsx:114-129`).
- *Details panel.* The `finally` of an aborted selection forgets the controller of
  the one after it, which can then not be cancelled (`DetailsPanel.jsx:284-287`).
- *Pinboard.* A job that is pinned while a save is under way is dropped from the
  board at its end (`PinBoard.jsx:94-102`); bugs that are refused are not
  reported (157-172); a refused classification stays shown (131-155). Saving a job
  that is not in the list any more throws, and the board is not cleared (131-139).
  A change of range dispatches an event to clear the pinboard (`pushes.js:388`) that
  nothing listens to, so the board stays. On Try and in project repositories anything is saved
  without a reason (233-235), also if the jobs were pinned in another repository that
  asks for one; those are not listed any more and are not posted, so that
  `StoredWithReason` holds.
- *Triggering.* A click after the confirmation changes what a waiting trigger
  sends (`Push.jsx:253-264`). A trigger of the finder that succeeds after the
  dialog was closed opens it again (`FuzzyJobFinder.jsx:147-151`).
- *Taskcluster.* A failed cancellation is followed by the notice that it was sent
  (`job.js:189-215`): `SentIsSubmitted` excludes cancellations for this. Expired
  credentials are used after four seconds (`helpers/taskcluster.js:87-95`). The
  trigger of a custom action looks disabled before the actions are loaded and is not:
  it submits an empty action, which `submit` gives to nobody, and says that it was
  sent (`CustomJobActions.jsx:148-177`, `taskcluster.js:40-82`): `SentIsSubmitted`
  excepts it.
- *Filters.* Unticking every result status reads back as the default ones
  (`filter.js:138-160`). `Superseded only` sets a string where there is an array
  otherwise (120), and a status that is toggled next is added to its letters.
- *Bug filer.* Submitting twice files two bugs, and a late success opens the
  dialog again (`BugFiler.jsx:381-516`).
- *Alerts.* Two fetches of the list are shown in the order of their answers, not
  of their requests (`AlertsView.jsx:221-307`); typing in the filter fetches
  twice (112-132). A fetch that throws is caught nowhere and leaves the list loading
  (268-306), as does a refresh with filters that leave its summary out, where the first
  of no results is read (291). An answer to a change clears the box above the rows only
  if the panel saw it ticked: after `None` and then `All` while the change is under way
  it stays ticked above rows that are not (`AlertActionPanel.jsx:79-87`), which
  `ActsOnWhatIsTicked` excepts as `stray`.
- *Graphs.* More than six tests can be shown though `LegendCard.jsx:52` says they
  cannot, since a new time range frees every colour (`GraphsView.jsx:422-446`).
- *Comparison.* A row with only a base is dropped though `helpers.js:223` means
  to show it; `Validation.jsx:44` compares the history with itself.
- *Session.* A renewal that is answered after a logout logs in again
  (`AuthService.js:53-58`); a logout event handled late wipes a new login
  (`Login.jsx:33-39`, `66-79`).
- *Notifications, watched repositories.* Tabs overwrite each other's list in
  localStorage (`notifications.js:56-58`, `SecondaryNavBar.jsx:164-197`).
- *Jobs view.* If the first request for the revision is refused the tab never
  polls (`App.jsx:122-124`): `PollsUntilDelayed` begins when it was answered.
- *Push health.* `Mark selected jobs as investigated` posts undefined names
  (`Test.jsx:100-110`, button at 310); Back changes the URL and not the view. The task
  of a row is compared as an object (`PlatformConfig.jsx:66`): after a poll a click on
  the open one does not close it.
- *Log viewer.* Each mark pushes an entry of the history that nothing reads back
  (`logviewer/App.jsx:233-243`, `helpers/location.js:19-33`): after Back the URL says
  other lines than those that are marked, or none, and error lines that come late then
  replace the mark (179-184). `LinksOpenWhatWasSeen` and `MarkIsKept` hold until the
  reader travels.
- *Every page.* `getData` throws when there is no connection or no JSON
  (`http.js:15`, 32), which no caller catches; a page that waits for it waits for good.

## 7. What is only model-checked, and what is not modelled

Only model-checked: liveness (`EventsSettle`, `EndedRunsShown`, `LogsGetAVerdict`,
`PushesStored`, `PollingShowsNewest`, `RequestReported`), which is beyond the
prover together with everything about ENABLED. Of three of them the safety they rest
on is proved: `NoMessageLost` of `EventsSettle`, `NoLogForgotten` of
`LogsGetAVerdict`, `NoRequestDropped` of `RequestReported`: what is waited for is
still in somebody's hands. `NoLogForgotten`, `NoRequestDropped` and the refinements
of `LogVerdicts` (`VerdictsKept`, `VerdictsLeft`) are in no run; they were checked by
TLC on the instances of `Pages`, `JobsView`, `IngestMany` and `IngestLive` before they
were proved.

Modelled in part: the listener (its bindings are not), push ingestion (GitHub is
not; it stores a push by the same `store_push` and remembers nothing); of the
pages, what `PROJECT.json` says of each component: the text of a bug that is
filed, panes and plots, statistics, zoom, artifacts of a task in push health.

Not modelled, with the reason in `PROJECT.json`: parsers of log lines (text),
read APIs, push health data, intermittents and bug suggestions (reads and text
search), authentication of the server, changelog, extraction, the client; pages
that fetch once and draw (intermittent failures, infra compare, tests view, my
pushes), and components without state. Not modelled yet: classification, data
cycling, performance data and alerts of the backend, backfill, SETA: see the
plan.

Left out of the data everywhere: names, URLs, timestamps other than the order of
notes and pushes, reference data that rows point at, drawing, and the contents of
logs beyond what decides the control flow.

## 8. Plan

In order; the first five and the refinements of 11 are done. A project of this size is kept to a dozen
runs that each ask one question: a new component takes the place of one of the
violation runs once its finding is settled, or shares a run.

1. `JobIngestion`, `JobLifecycle`, their proofs and refinement.
2. `LogParsing` and proofs: inside the task that ingestion schedules.
3. `JobNotes` and proofs: the sheriffs' side of the same row.
4. `PushIngestion` and proofs: where the jobs' pushes come from.
5. The pages: the parts of the jobs view with the stores they share, then one
   module per other page, the two compositions, and proofs of what each shows.
6. `Classification`: `BugJobMap.create`, `ClassifiedFailure.set_bug` and
   `replace_with`, `verify_classification`. Abstract specification: a partition
   of error lines by bug, which merging only coarsens. To prove: one failure per
   bug number; no match of a replaced failure remains.
7. `DataCycling`: the job cycler's chunks, the removal strategies with their
   retries and the run-time limit, the signature remover. Properties: nothing
   younger than its interval goes; a finished run leaves nothing expired that
   its strategies cover. To prove: the first.
8. `PerfAlerts`: data and alert generation, `autodetermine_status` as a function
   of alerts and earlier status, reassignment, concurrent triage.
9. `Backfill`: reports, maturing, freezing, and the limit across restarts.
10. `Seta`: priorities, expiry, and the cache.
11. `LogVerdicts`, between `JobIngestion` and `LogParsing` (done); properties of two
    parts of the jobs view at once, as what is pinned and what is selected.
