---------------------------- MODULE JobIngestion ----------------------------
(***************************************************************************)
(* The path of a Taskcluster message into the `job` table:                 *)
(*                                                                         *)
(*   Taskcluster --pulse--> listener --celery--> workers --SQL--> database *)
(*                                                                         *)
(* The listener (services/pulse/consumers.py) turns each pulse message     *)
(* into a `store-pulse-tasks` celery task.  A worker (etl/tasks,           *)
(* etl/taskcluster_pulse, etl/job_loader.py, etl/jobs.py) runs it as a     *)
(* sequence of autocommitted SQL statements: every statement whose result  *)
(* is used by, or visible to, somebody else is an action here.             *)
(*                                                                         *)
(* The message of run r > 0 makes two jobs of the task: run r-1 closed as  *)
(* a "retry" (stage "rerun"), then run r itself (stage "event").           *)
(***************************************************************************)
EXTENDS Naturals, FiniteSets

CONSTANTS
    Tasks,        \* Taskcluster tasks, each belonging to one push
    MaxRun,       \* bound: a task has the runs 0..MaxRun
    Outcomes,     \* the ways a run may be seen to end in this instance
    Rejected,     \* tasks with no usable route, metadata or repository
    Workers,      \* processes of worker_store_pulse_data
    MaxRetries,   \* max_retries of the celery task
    MaxCrashes,   \* bound: restarts of the listener or of a worker
    MaxErrors,    \* bound: exceptions other than a missing push
    MaxInFlight,  \* bound: events announced and not yet settled
    NoMessage     \* what an idle listener or worker holds

ASSUME BoundsAssumption ==
    /\ MaxRun \in Nat /\ MaxRetries \in Nat
    /\ MaxCrashes \in Nat /\ MaxErrors \in Nat /\ MaxInFlight \in Nat

EventType == {"pending", "running", "completed", "failed", "exception",
              "createdException"}

ASSUME TaskAssumption ==
    /\ Outcomes \subseteq EventType \ {"pending", "running"}
    /\ Rejected \subseteq Tasks

Guid == [task: Tasks, run: 0..MaxRun]
Event == [guid: Guid, type: EventType]
Envelope == [event: Event, retries: 0..MaxRetries]

ASSUME NoMessageAssumption == NoMessage \notin Event /\ NoMessage \notin Envelope

\* The logs a job may have that the log parser knows how to parse.
LogName == {"live_backing_log", "errorsummary_json"}
LogStatus == {"none", "pending", "left", "done"}
ParseTask == [guid: Guid, name: LogName]

VARIABLES
    published,   \* events Taskcluster has announced on its exchanges
    pulse,       \* those not yet acknowledged on the listener's pulse queue
    forwarding,  \* event the listener has queued and not yet acknowledged
    pushed,      \* tasks whose push is in the database
    queue,       \* celery queue store_pulse_tasks: number of each envelope
    pc, held, stage,  \* per worker: next statement, its message, which job
    toParse,     \* per worker: logs it read as PENDING and will schedule
    job,         \* table job
    metadata,    \* table taskcluster_metadata: guids that have a row
    logs,        \* table job_log: status of each log of each job, where
                 \* "left" is PENDING after a parser has had it
    parseQueue,  \* parse tasks waiting in the log_parser* queues
    acked,       \* events of which a message was processed to its end
    exhausted,   \* events of which a message ran out of retries or failed
    crashes, errors,
    \* History, read by the properties only:
    lost,        \* jobs of a message that were skipped or dropped by an exception
    cut,         \* runs whose storing stopped after their row and before the end
    contested    \* runs that two workers were storing at the same time

JL == INSTANCE JobLifecycle

NoJob == JL!NoJob
Rank(s) == JL!Rank(s)

workerVars == <<pc, held, stage, toParse>>
historyVars == <<lost, cut, contested>>
outcomeVars == <<acked, exhausted, historyVars>>
tableVars == <<job, metadata, logs>>
sourceVars == <<published, pulse, forwarding>>
vars == <<sourceVars, pushed, queue, workerVars, tableVars, parseQueue,
          outcomeVars, crashes, errors>>

PC == {"idle", "validate", "filter", "create", "metadata", "update", "logs",
       "schedule"}

Prev(g) == [g EXCEPT !.run = g.run - 1]

----------------------------------------------------------------------------
\* What a message says of a job.

StateFromRun(type) == IF type \in {"failed", "exception"} THEN "completed" ELSE type

ResultFromRun(type) ==
    IF type = "completed" THEN "success"
    ELSE IF type = "failed" THEN "fail"
    ELSE IF type = "exception" THEN "exception" ELSE "unknown"

\* The job each event is about.  A run that was created as an exception
\* (deadline exceeded; always run 0) is not reported.
EventJob(e) == [state |-> StateFromRun(e.type), result |-> ResultFromRun(e.type)]
Reported(e) == e.type # "createdException"

\* The previous run, as the message of a later run presents it.
RerunJob == [state |-> "completed", result |-> "retry"]

Target(w) == IF stage[w] = "rerun" THEN Prev(held[w].event.guid)
             ELSE held[w].event.guid
Incoming(w) == IF stage[w] = "rerun" THEN RerunJob ELSE EventJob(held[w].event)

\* live_backing_log is linked only for completed and failed runs; the
\* errorsummary is linked when the listing of artifacts succeeds and has one.
LogRefs(w) ==
    LET live == IF stage[w] = "event" /\ held[w].event.type \in {"completed", "failed"}
                THEN {"live_backing_log"} ELSE {}
    IN  IF Incoming(w).state = "completed"
        THEN {live, live \cup {"errorsummary_json"}} ELSE {{}}

----------------------------------------------------------------------------
Init ==
    /\ published = {} /\ pulse = {} /\ forwarding = NoMessage
    /\ pushed = {}
    /\ queue = [m \in Envelope |-> 0]
    /\ pc = [w \in Workers |-> "idle"]
    /\ held = [w \in Workers |-> NoMessage]
    /\ stage = [w \in Workers |-> "event"]
    /\ toParse = [w \in Workers |-> {}]
    /\ job = [g \in Guid |-> NoJob]
    /\ metadata = {}
    /\ logs = [g \in Guid |-> [n \in LogName |-> "none"]]
    /\ parseQueue = {}
    /\ acked = {} /\ exhausted = {} /\ lost = {} /\ cut = {} /\ contested = {}
    /\ crashes = 0 /\ errors = 0

----------------------------------------------------------------------------
\* Taskcluster (external).  A run is announced pending, then running, then
\* resolved; it may be resolved without running, or be retried by the next
\* run with no message of its own.  Any resolved task may be rerun.

Announced(g, types) == \E t \in types : [guid |-> g, type |-> t] \in published
Superseded(g) == \E h \in Guid : h.task = g.task /\ h.run > g.run /\ Announced(h, EventType)
Ended(g) == Superseded(g) \/ Announced(g, EventType \ {"pending", "running"})

MayAnnounce(g, type) ==
    \/ /\ type = "pending" /\ ~Announced(g, EventType)
       /\ g.run > 0 => Announced(Prev(g), {"running", "exception"})
    \/ type = "running" /\ Announced(g, {"pending"}) /\ ~Ended(g)
    \/ type \in {"completed", "failed"} /\ Announced(g, {"running"}) /\ ~Ended(g)
    \/ type = "exception" /\ Announced(g, {"pending"}) /\ ~Ended(g)
    \/ type = "createdException" /\ g.run = 0 /\ ~Announced(g, EventType)

Announce(e) ==
    /\ e.type \in {"pending", "running"} \cup Outcomes
    /\ e \notin published
    /\ Cardinality(published \ (acked \cup exhausted)) < MaxInFlight
    /\ MayAnnounce(e.guid, e.type)
    /\ published' = published \cup {e}
    /\ pulse' = pulse \cup {e}
    /\ UNCHANGED <<forwarding, pushed, queue, workerVars, tableVars,
                   parseQueue, outcomeVars, crashes, errors>>

\* The push of a task is stored by the push ingestion, before or after the
\* task's messages arrive.
StorePush(t) ==
    /\ t \notin pushed
    /\ pushed' = pushed \cup {t}
    /\ UNCHANGED <<sourceVars, queue, workerVars, tableVars, parseQueue,
                   outcomeVars, crashes, errors>>

\* parse_logs runs one parse task (see LogParsing).  A log from which nothing
\* can be stored stays PENDING, and ingestion may schedule it again.
ParseLog(p) ==
    /\ p \in parseQueue
    /\ parseQueue' = parseQueue \ {p}
    /\ \E verdict \in IF logs[p.guid][p.name] = "done" THEN {"done"} ELSE {"done", "left"} :
          logs' = [logs EXCEPT ![p.guid][p.name] = verdict]
    /\ UNCHANGED <<sourceVars, pushed, queue, workerVars, job, metadata,
                   outcomeVars, crashes, errors>>

----------------------------------------------------------------------------
\* The listener: queue the celery task, then acknowledge the pulse message.
\* A restart between the two makes pulse deliver the message again.

ListenerForward(e) ==
    /\ forwarding = NoMessage
    /\ e \in pulse
    /\ queue' = [queue EXCEPT ![[event |-> e, retries |-> 0]] = @ + 1]
    /\ forwarding' = e
    /\ UNCHANGED <<published, pulse, pushed, workerVars, tableVars, parseQueue,
                   outcomeVars, crashes, errors>>

ListenerAck ==
    /\ forwarding # NoMessage
    /\ pulse' = pulse \ {forwarding}
    /\ forwarding' = NoMessage
    /\ UNCHANGED <<published, pushed, queue, workerVars, tableVars, parseQueue,
                   outcomeVars, crashes, errors>>

ListenerCrash ==
    /\ forwarding # NoMessage
    /\ crashes < MaxCrashes
    /\ crashes' = crashes + 1
    /\ forwarding' = NoMessage
    /\ UNCHANGED <<published, pulse, pushed, queue, workerVars, tableVars,
                   parseQueue, outcomeVars, errors>>

----------------------------------------------------------------------------
\* A worker.

Goto(w, label) == pc' = [pc EXCEPT ![w] = label]

\* Mutation: the worker goes idle and keeps hold of its message.
ReleaseKeepsMessage(w) ==
    /\ Goto(w, "idle")
    /\ stage' = [stage EXCEPT ![w] = "event"]
    /\ toParse' = [toParse EXCEPT ![w] = {}]
    /\ UNCHANGED held

Release(w) ==
    /\ Goto(w, "idle")
    /\ held' = [held EXCEPT ![w] = NoMessage]
    /\ stage' = [stage EXCEPT ![w] = "event"]
    /\ toParse' = [toParse EXCEPT ![w] = {}]

\* The message is processed to its end and acknowledged (acks_late).
Ack(w) ==
    /\ Release(w)
    /\ acked' = acked \cup {held[w].event}

\* Go on with the next job of the message, or finish it.
NextJob(w) ==
    IF stage[w] = "rerun"
    THEN /\ Goto(w, "validate")
         /\ stage' = [stage EXCEPT ![w] = "event"]
         /\ toParse' = [toParse EXCEPT ![w] = {}]
         /\ UNCHANGED <<held, acked>>
    ELSE Ack(w)

\* Mutation: the number of retries is not passed on.
RetryForever(w) ==
    /\ Release(w)
    /\ queue' = [queue EXCEPT ![held[w]] = @ + 1]
    /\ UNCHANGED exhausted

\* The celery task fails: its message is gone.
GiveUp(w) ==
    /\ Release(w)
    /\ exhausted' = exhausted \cup {held[w].event}
    /\ UNCHANGED queue

\* Mutation: an exception is logged and ends the task, which celery acknowledges.
RetrySwallowed(w) ==
    /\ Release(w)
    /\ UNCHANGED <<queue, exhausted>>

\* retryable_task: queue the message again, or give it up after MaxRetries.
Retry(w) ==
    LET m == held[w]
    IN  IF m.retries < MaxRetries
        THEN /\ Release(w)
             /\ queue' = [queue EXCEPT ![[m EXCEPT !.retries = @ + 1]] = @ + 1]
             /\ UNCHANGED exhausted
        ELSE GiveUp(w)

\* store_pulse_tasks begins: handleMessage computes the jobs of the message.
\* A rejected task, and a run that was created as an exception, have none.
Fetch(w, m) ==
    /\ pc[w] = "idle"
    /\ queue[m] > 0
    /\ queue' = [queue EXCEPT ![m] = @ - 1]
    /\ IF m.event.guid.task \in Rejected \/ ~Reported(m.event)
       THEN acked' = acked \cup {m.event} /\ UNCHANGED workerVars
       ELSE /\ held' = [held EXCEPT ![w] = m]
            /\ stage' = [stage EXCEPT ![w] = IF m.event.guid.run > 0 THEN "rerun" ELSE "event"]
            /\ Goto(w, "validate")
            /\ UNCHANGED <<toParse, acked>>
    /\ UNCHANGED <<sourceVars, pushed, tableVars, parseQueue, exhausted,
                   historyVars, crashes, errors>>

\* validate_revision: without the push, the whole message is retried.
ValidateRevision(w) ==
    /\ pc[w] = "validate"
    /\ IF held[w].event.guid.task \in pushed
       THEN Goto(w, "filter") /\ UNCHANGED <<held, stage, toParse, queue, exhausted>>
       ELSE Retry(w)
    /\ UNCHANGED <<sourceVars, pushed, tableVars, parseQueue, acked, historyVars,
                   crashes, errors>>

\* Mutation: a completed row does not stop a job.
RemoveExistingJobsNotCompleted(w) ==
    /\ pc[w] = "filter"
    /\ IF Incoming(w).state = "pending" /\ job[Target(w)].state = "running"
       THEN NextJob(w)
       ELSE Goto(w, "create") /\ UNCHANGED <<held, stage, toParse, acked>>
    /\ UNCHANGED <<sourceVars, pushed, queue, tableVars, parseQueue, exhausted,
                   historyVars, crashes, errors>>

\* Mutation: a running row does not stop a pending job.
RemoveExistingJobsNotRunning(w) ==
    /\ pc[w] = "filter"
    /\ IF job[Target(w)].state = "completed" THEN NextJob(w)
       ELSE Goto(w, "create") /\ UNCHANGED <<held, stage, toParse, acked>>
    /\ UNCHANGED <<sourceVars, pushed, queue, tableVars, parseQueue, exhausted,
                   historyVars, crashes, errors>>

\* From reading the row's state to the last write that rests on it.
Deciding(w) == pc[w] \in {"create", "metadata", "update"}

\* _remove_existing_jobs reads the state of the row and decides.
RemoveExistingJobs(w) ==
    /\ pc[w] = "filter"
    /\ LET current == job[Target(w)].state
       IN  IF \/ current = "completed"
              \/ Incoming(w).state = "pending" /\ current = "running"
           THEN NextJob(w) /\ UNCHANGED contested
           ELSE /\ Goto(w, "create")
                /\ contested' = contested \cup
                      {g \in {Target(w)} : \E v \in Workers \ {w} : Deciding(v) /\ Target(v) = g}
                /\ UNCHANGED <<held, stage, toParse, acked>>
    /\ UNCHANGED <<sourceVars, pushed, queue, tableVars, parseQueue, exhausted,
                   lost, cut, crashes, errors>>

\* Job.objects.get_or_create: a row that is there is left as it is.
CreateJob(w) ==
    /\ pc[w] = "create"
    /\ job' = IF job[Target(w)].state = "absent"
              THEN [job EXCEPT ![Target(w)] = Incoming(w)] ELSE job
    /\ Goto(w, "metadata")
    /\ UNCHANGED <<sourceVars, pushed, queue, held, stage, toParse, metadata,
                   logs, parseQueue, outcomeVars, crashes, errors>>

\* Mutation: only a job that ended carries its task id.
StoreMetadataEnded(w) ==
    /\ pc[w] = "metadata"
    /\ metadata' = metadata \cup (IF Incoming(w).state = "completed" THEN {Target(w)} ELSE {})
    /\ Goto(w, "update")
    /\ UNCHANGED <<sourceVars, pushed, queue, held, stage, toParse, job, logs,
                   parseQueue, outcomeVars, crashes, errors>>

\* TaskclusterMetadata.objects.create; an IntegrityError is ignored.
StoreMetadata(w) ==
    /\ pc[w] = "metadata"
    /\ metadata' = metadata \cup {Target(w)}
    /\ Goto(w, "update")
    /\ UNCHANGED <<sourceVars, pushed, queue, held, stage, toParse, job, logs,
                   parseQueue, outcomeVars, crashes, errors>>

\* The UPDATE of the row does not look at its current state.
UpdateJob(w) ==
    /\ pc[w] = "update"
    /\ job' = [job EXCEPT ![Target(w)] = Incoming(w)]
    /\ Goto(w, "logs")
    /\ UNCHANGED <<sourceVars, pushed, queue, held, stage, toParse, metadata,
                   logs, parseQueue, outcomeVars, crashes, errors>>

\* JobLog.objects.get_or_create of each reference; those found or created
\* PENDING are to be parsed.
StoreLogs(w) ==
    /\ pc[w] = "logs"
    /\ \E refs \in LogRefs(w) :
          /\ logs' = [logs EXCEPT ![Target(w)] =
                         [n \in LogName |-> IF n \in refs /\ @[n] = "none"
                                            THEN "pending" ELSE @[n]]]
          /\ toParse' = [toParse EXCEPT ![w] =
                            {n \in refs : logs[Target(w)][n] # "done"}]
    /\ Goto(w, "schedule")
    /\ UNCHANGED <<sourceVars, pushed, queue, held, stage, job, metadata,
                   parseQueue, outcomeVars, crashes, errors>>

\* Mutation: errorsummary_json is not among the logs to parse.
ScheduleLogParsingLiveOnly(w) ==
    /\ pc[w] = "schedule"
    /\ parseQueue' = parseQueue
          \cup [guid: {Target(w)}, name: toParse[w] \ {"errorsummary_json"}]
    /\ NextJob(w)
    /\ UNCHANGED <<sourceVars, pushed, queue, tableVars, exhausted,
                   historyVars, crashes, errors>>

\* _schedule_log_parsing queues a parse task for each of them.
ScheduleLogParsing(w) ==
    /\ pc[w] = "schedule"
    /\ parseQueue' = parseQueue \cup [guid: {Target(w)}, name: toParse[w]]
    /\ NextJob(w)
    /\ UNCHANGED <<sourceVars, pushed, queue, tableVars, exhausted,
                   historyVars, crashes, errors>>

\* The row of the job is there and something of its storing is to come.
CutShort(w) == IF pc[w] \in {"metadata", "update", "logs", "schedule"} THEN {Target(w)} ELSE {}

\* One job of a message is dropped, and the message goes on as if it were stored.
DropJob(w) ==
    /\ errors < MaxErrors
    /\ errors' = errors + 1
    /\ lost' = lost \cup {[event |-> held[w].event, guid |-> Target(w)]}
    /\ cut' = cut \cup CutShort(w)
    /\ NextJob(w)
    /\ UNCHANGED <<sourceVars, pushed, queue, tableVars, parseQueue, exhausted,
                   contested, crashes>>

\* Mutation: with one job of a message the rest of it is skipped.
SkipMessage(w) ==
    /\ pc[w] \in {"validate", "filter"}
    /\ errors < MaxErrors
    /\ errors' = errors + 1
    /\ lost' = lost \cup {[event |-> held[w].event, guid |-> Target(w)]}
    /\ Ack(w)
    /\ UNCHANGED <<sourceVars, pushed, queue, tableVars, parseQueue, exhausted,
                   cut, contested, crashes>>

\* process_job skips a job that fails the schema, or that raises an
\* AttributeError on its way to store_job_data.  A job that ignore_task lets
\* pass without a push ends likewise: store_job_data finds no push for it.
SkipJob(w) == pc[w] \in {"validate", "filter"} /\ DropJob(w)

\* store_job_data in production logs any exception of _load_job and goes on.
LoadJobError(w) ==
    pc[w] \in {"create", "metadata", "update", "logs", "schedule"} /\ DropJob(w)

\* An exception outside that handler makes celery retry the message (Taskcluster
\* or the database does not answer), or fails it (NON_RETRYABLE_EXCEPTIONS).
TaskError(w) ==
    /\ pc[w] \in {"validate", "filter"}
    /\ errors < MaxErrors
    /\ errors' = errors + 1
    /\ Retry(w) \/ GiveUp(w)
    /\ UNCHANGED <<sourceVars, pushed, tableVars, parseQueue, acked, historyVars,
                   crashes>>

\* A worker is killed: its message was not acknowledged and is redelivered.
WorkerCrash(w) ==
    /\ pc[w] # "idle"
    /\ crashes < MaxCrashes
    /\ crashes' = crashes + 1
    /\ queue' = [queue EXCEPT ![held[w]] = @ + 1]
    /\ cut' = cut \cup CutShort(w)
    /\ Release(w)
    /\ UNCHANGED <<sourceVars, pushed, tableVars, parseQueue, acked, exhausted,
                   lost, contested, errors>>

----------------------------------------------------------------------------
Environment ==
    \/ \E e \in Event : Announce(e)
    \/ \E t \in Tasks : StorePush(t)
    \/ \E p \in ParseTask : ParseLog(p)

Listener ==
    \/ \E e \in Event : ListenerForward(e)
    \/ ListenerAck
    \/ ListenerCrash

\* What a worker does when nothing fails.
WorkerStep(w) ==
    \/ \E m \in Envelope : Fetch(w, m)
    \/ ValidateRevision(w)
    \/ RemoveExistingJobs(w)
    \/ CreateJob(w)
    \/ StoreMetadata(w)
    \/ UpdateJob(w)
    \/ StoreLogs(w)
    \/ ScheduleLogParsing(w)

Worker(w) == \/ WorkerStep(w)
             \/ SkipJob(w) \/ LoadJobError(w) \/ TaskError(w)
             \/ WorkerCrash(w)

Next == Environment \/ Listener \/ \E w \in Workers : Worker(w)

Spec == Init /\ [][Next]_vars

\* The listener, the celery workers and the log parsers are kept running.
Fairness ==
    /\ WF_vars(\E e \in Event : ListenerForward(e))
    /\ WF_vars(ListenerAck)
    /\ \A w \in Workers : WF_vars(WorkerStep(w))
    /\ WF_vars(\E p \in ParseTask : ParseLog(p))

FairSpec == Spec /\ Fairness

----------------------------------------------------------------------------
(***************************************************************************)
(* Properties                                                              *)
(***************************************************************************)
Row == JL!Job

\* A worker holds a message exactly while it is working, only one that makes
\* jobs, and takes a previous run only from the message of a later one.
HeldOK ==
    \A w \in Workers :
        /\ pc[w] = "idle" => held[w] = NoMessage /\ stage[w] = "event"
        /\ pc[w] # "idle" => held[w] \in Envelope /\ Reported(held[w].event)
        /\ stage[w] = "rerun" => held[w].event.guid.run > 0

\* The types of all variables.
TypeOK ==
    /\ published \subseteq Event /\ pulse \subseteq Event
    /\ forwarding \in Event \cup {NoMessage}
    /\ pushed \subseteq Tasks
    /\ queue \in [Envelope -> Nat]
    /\ pc \in [Workers -> PC]
    /\ held \in [Workers -> Envelope \cup {NoMessage}]
    /\ stage \in [Workers -> {"event", "rerun"}]
    /\ toParse \in [Workers -> SUBSET LogName]
    /\ HeldOK
    /\ job \in [Guid -> Row]
    /\ metadata \subseteq Guid
    /\ logs \in [Guid -> [LogName -> LogStatus]]
    /\ parseQueue \subseteq ParseTask
    /\ acked \subseteq Event /\ exhausted \subseteq Event
    /\ lost \subseteq [event: Event, guid: Guid]
    /\ cut \subseteq Guid /\ contested \subseteq Guid
    /\ crashes \in Nat /\ errors \in Nat

\* The jobs a message stands for: its run, and the run before it.
JobsOf(e) ==
    IF e.guid.task \in Rejected \/ ~Reported(e) THEN {}
    ELSE IF e.guid.run > 0 THEN {e.guid, Prev(e.guid)} ELSE {e.guid}

Lost(e, g) == [event |-> e, guid |-> g] \in lost

\* A message is acknowledged only when each job it stands for has a row, or
\* was itself skipped or dropped: one bad job of a message does not block
\* "storing the remaining jobs" (store_job_data), whatever the number of
\* workers, restarts and duplicates.
AckedJobsExist ==
    \A e \in acked : \A g \in JobsOf(e) : Lost(e, g) \/ job[g].state # "absent"

\* A message that was acknowledged is reflected in the table for good: its run
\* is at least as far as the message said, and the run before it is closed.
\* Excused are the jobs dropped from that message and the runs that two workers
\* once stored at the same time.
AckedJobsReflected ==
    \A e \in acked : \A g \in JobsOf(e) :
        Lost(e, g) \/ g \in contested
        \/ Rank(job[g].state) >=
              Rank(IF g = e.guid THEN StateFromRun(e.type) ELSE "completed")

\* A job that a message stands for has its taskcluster_metadata once no worker
\* is at it, unless it was dropped from the message or a restart or an exception
\* cut its storing short: what happens to other jobs does not matter.
AckedJobsHaveMetadata ==
    \A e \in acked : \A g \in JobsOf(e) :
        (\A w \in Workers : pc[w] # "idle" => Target(w) # g)
        => Lost(e, g) \/ g \in cut \/ g \in metadata

Busy(g) == \E w \in Workers : held[w] # NoMessage /\ g \in JobsOf(held[w].event)

\* A run whose completion is in the table has its log recorded, and the log is
\* parsed or waits to be.
LogAccounted(g) ==
    /\ logs[g]["live_backing_log"] # "none"
    /\ \A n \in LogName : logs[g][n] = "pending" => [guid |-> g, name |-> n] \in parseQueue

Shown(e) ==
    /\ e.type \in {"completed", "failed"} /\ e.guid.task \notin Rejected
    /\ ~Busy(e.guid) /\ job[e.guid] = EventJob(e)

\* That holds of every run whose storing was not cut short, whatever the number
\* of workers and whatever is restarted or fails besides.
LogsAccountedFor == \A e \in acked : Shown(e) /\ e.guid \notin cut => LogAccounted(e.guid)

\* It holds without that exception too, "to prevent data loss in the case of
\* celery master process crashes or infra failures" (config/settings.py).
LogsSurviveRestarts == \A e \in acked : Shown(e) => LogAccounted(e.guid)

\* Each row of the table goes through the lifecycle of JobLifecycle.
Lifecycle == JL!LifecycleSpec

\* "should not transition from running to pending, or completed to any other
\* state" (_remove_existing_jobs).
CompletedIsFinal ==
    [][\A g \in Guid : job[g].state = "completed" => job'[g].state = "completed"]_job

LV == INSTANCE LogVerdicts WITH
          Log <- ParseTask,
          waiting <- parseQueue,
          done <- {p \in ParseTask : logs[p.guid][p.name] = "done"}

\* What ingestion does to logs is what LogVerdicts says of it, so that a parser
\* is to ingestion what LogParsing shows it to be: ingestion gives no verdict,
\* and takes back neither a verdict nor a task.
VerdictsLeft == LV!VerdictsSpec

\* A message of the event is queued, held by a worker, or done with.
Handed(e) ==
    \/ e \in acked \cup exhausted
    \/ \E m \in Envelope : m.event = e /\ queue[m] > 0
    \/ \E w \in Workers : pc[w] # "idle" /\ held[w].event = e

\* No message is lost: an announced event waits at pulse, in the queue or at a
\* worker until it is acknowledged or given up, through restarts of either
\* between any two statements.
NoMessageLost == \A e \in published : e \in pulse \/ Handed(e)

\* Announcements are finitely many in an instance, so "every event is
\* eventually ..." is stated of the state the system comes to rest in.
\* Every announced event is settled: all its jobs handled, or given up after
\* MaxRetries attempts to find its push.
EventsSettle == <>[](published \subseteq acked \cup exhausted)

\* With one worker, a run announced as ended is from some moment on shown as
\* completed, unless its message was given up or its job dropped.
EndedRunsShown ==
    <>[](\A e \in published :
            /\ e.type \in {"completed", "failed", "exception"}
            /\ e.guid.task \notin Rejected /\ e \notin exhausted /\ ~Lost(e, e.guid)
            => job[e.guid].state = "completed")
=============================================================================
