----------------------------- MODULE LogParsing -----------------------------
(***************************************************************************)
(* The log parsers (log_parser/tasks, log_parser/failureline,              *)
(* etl/artifact): workers take the tasks that job ingestion scheduled,     *)
(* fetch a log and store what they find in it.  A job has a raw log        *)
(* (live_backing_log), whose errors go to text_log_error, and an error     *)
(* summary (errorsummary_json), whose lines go to failure_line and         *)
(* group_status.  A task stores the rows of one log, and a task may be     *)
(* scheduled or delivered more than once.                                  *)
(***************************************************************************)
EXTENDS Naturals, FiniteSets

CONSTANTS
    RawLogs,       \* logs named live_backing_log
    Summaries,     \* logs named errorsummary_json
    Workers,       \* processes of the worker_log_parser* pools
    MaxRetries,    \* max_retries of the celery task
    MaxScheduled,  \* bound: times job ingestion schedules one log
    MaxErrors,     \* bound: failing fetches and statements
    MaxCrashes,    \* bound: restarts of a worker
    NoTask         \* what an idle worker holds

ASSUME LogAssumption == RawLogs \cap Summaries = {}

ASSUME ParsingBounds ==
    /\ MaxRetries \in Nat /\ MaxScheduled \in Nat
    /\ MaxErrors \in Nat /\ MaxCrashes \in Nat

Log == RawLogs \cup Summaries
Task == [log: Log, retries: 0..MaxRetries]

ASSUME NoTaskAssumption == NoTask \notin Task

LogStatus == {"pending", "parsed", "failed", "skipped-size"}

\* What a log turns out to be: usable, over MAX_DOWNLOAD_SIZE_IN_BYTES, empty,
\* not JSON, or with a value the database does not take (DataError).
RawContent == {"good", "huge"}
SummaryContent == {"good", "empty", "malformed", "rejected"}
Storable == {"good", "huge"}

PC == {"idle", "fetch", "write", "select", "insert", "mark"}

VARIABLES
    content,    \* what each log holds
    status,     \* table job_log: status of each log
    copies,     \* how often the rows of a log are in text_log_error (raw logs)
                \* or group_status (error summaries)
    scheduled,  \* how often each log was scheduled
    queue,      \* number of each task waiting in the queues
    pc, held,   \* per worker: next statement, its task
    seen,       \* per worker: rows its get_or_create found
    dropped,    \* logs of which a task failed for good
    overlapped, \* history: logs of which two workers held a task at once
    errors, crashes

workerVars == <<pc, held, seen>>
vars == <<content, status, copies, scheduled, queue, workerVars, dropped,
          overlapped, errors, crashes>>

TheLog(w) == held[w].log

----------------------------------------------------------------------------
Init ==
    /\ content \in {c \in [Log -> RawContent \cup SummaryContent] :
                       /\ \A l \in RawLogs : c[l] \in RawContent
                       /\ \A l \in Summaries : c[l] \in SummaryContent}
    /\ status = [l \in Log |-> "pending"]
    /\ copies = [l \in Log |-> 0]
    /\ scheduled = [l \in Log |-> 0]
    /\ queue = [t \in Task |-> 0]
    /\ pc = [w \in Workers |-> "idle"]
    /\ held = [w \in Workers |-> NoTask]
    /\ seen = [w \in Workers |-> 0]
    /\ dropped = {}
    /\ overlapped = {}
    /\ errors = 0 /\ crashes = 0

\* _schedule_log_parsing of job ingestion: a log that was read as PENDING, by two
\* workers that store the same job perhaps, one of which queues its task when the
\* other one's is over.
Schedule(l) ==
    /\ scheduled[l] < MaxScheduled
    /\ scheduled' = [scheduled EXCEPT ![l] = @ + 1]
    /\ queue' = [queue EXCEPT ![[log |-> l, retries |-> 0]] = @ + 1]
    /\ UNCHANGED <<content, status, copies, workerVars, dropped, overlapped, errors,
                   crashes>>

Goto(w, label) == pc' = [pc EXCEPT ![w] = label]

Release(w) ==
    /\ Goto(w, "idle")
    /\ held' = [held EXCEPT ![w] = NoTask]
    /\ seen' = [seen EXCEPT ![w] = 0]

\* JobLog.update_status writes this column only.
UpdateStatus(w, new) == status' = [status EXCEPT ![TheLog(w)] = new]

Finish(w) == Release(w) /\ UNCHANGED <<queue, dropped>>

\* A NON_RETRYABLE exception, or one retry too many.
Drop(w) ==
    /\ Release(w)
    /\ dropped' = dropped \cup {TheLog(w)}
    /\ UNCHANGED queue

\* Mutation: the task is not queued again.
RetryForgets(w) == Finish(w)

\* retryable_task.
Retry(w) ==
    LET t == held[w]
    IN  IF t.retries < MaxRetries
        THEN /\ Release(w)
             /\ queue' = [queue EXCEPT ![[t EXCEPT !.retries = @ + 1]] = @ + 1]
             /\ UNCHANGED dropped
        ELSE Drop(w)

\* Another worker holds a task of the log.
HeldElsewhere(w, l) == \E v \in Workers \ {w} : pc[v] # "idle" /\ TheLog(v) = l

\* A worker takes a task.
Hold(w, t) ==
    /\ held' = [held EXCEPT ![w] = t] /\ Goto(w, "fetch") /\ UNCHANGED seen
    /\ overlapped' = IF HeldElsewhere(w, t.log) THEN overlapped \cup {t.log} ELSE overlapped

\* Mutation: the status of the log is not looked at.
TakeAlways(w, t) ==
    /\ pc[w] = "idle"
    /\ queue[t] > 0
    /\ queue' = [queue EXCEPT ![t] = @ - 1]
    /\ Hold(w, t)
    /\ UNCHANGED <<content, status, copies, scheduled, dropped, errors, crashes>>

\* parse_logs begins: a log that was processed already is skipped.
Take(w, t) ==
    /\ pc[w] = "idle"
    /\ queue[t] > 0
    /\ queue' = [queue EXCEPT ![t] = @ - 1]
    /\ IF status[t.log] \in {"pending", "failed"}
       THEN Hold(w, t)
       ELSE UNCHANGED <<workerVars, overlapped>>
    /\ UNCHANGED <<content, status, copies, scheduled, dropped, errors, crashes>>

----------------------------------------------------------------------------
\* Fetching the log, and parsing it.

\* Mutation: a raw log is marked as parsed before its errors are stored.
FetchRawMarksParsed(w) ==
    /\ pc[w] = "fetch" /\ TheLog(w) \in RawLogs
    /\ UpdateStatus(w, "parsed")
    /\ Goto(w, "select")
    /\ UNCHANGED <<held, seen, queue, dropped, content, copies, scheduled, overlapped,
                   errors, crashes>>

\* A raw log that is too long is skipped.
FetchRaw(w) ==
    /\ pc[w] = "fetch" /\ TheLog(w) \in RawLogs
    /\ IF content[TheLog(w)] = "huge"
       THEN UpdateStatus(w, "skipped-size") /\ Finish(w)
       ELSE Goto(w, "select") /\ UNCHANGED <<status, held, seen, queue, dropped>>
    /\ UNCHANGED <<content, copies, scheduled, overlapped, errors, crashes>>

\* An empty summary is left as it is; one that is not JSON fails the task.
FetchSummary(w) ==
    /\ pc[w] = "fetch" /\ TheLog(w) \in Summaries
    /\ CASE content[TheLog(w)] = "empty" -> Finish(w)
         [] content[TheLog(w)] = "malformed" -> Drop(w)
         [] OTHER -> Goto(w, "write") /\ UNCHANGED <<held, seen, queue, dropped>>
    /\ UNCHANGED <<content, status, copies, scheduled, overlapped, errors, crashes>>

\* A fetch fails.  403 and 404 are final; other HTTP errors mark the log FAILED
\* and are retried.  So does any other failure to fetch or parse a raw log, some
\* of which are not retried; a summary that fails without an HTTP answer is
\* retried as it is.
FetchFails(w) ==
    /\ pc[w] = "fetch"
    /\ errors < MaxErrors
    /\ errors' = errors + 1
    /\ \/ UpdateStatus(w, "failed") /\ Finish(w)
       \/ UpdateStatus(w, "failed") /\ Retry(w)
       \/ TheLog(w) \in RawLogs /\ UpdateStatus(w, "failed") /\ Drop(w)
       \/ TheLog(w) \in Summaries /\ Retry(w) /\ UNCHANGED status
    /\ UNCHANGED <<content, copies, scheduled, overlapped, crashes>>

----------------------------------------------------------------------------
\* Storing the rows.

\* write_failure_lines: one transaction for the groups, the lines and the
\* status.  Lines that are there already are excluded after an IntegrityError,
\* the groups are stored again.  A DataError rolls back and is not reported.
WriteSummary(w) ==
    /\ pc[w] = "write"
    /\ IF content[TheLog(w)] = "rejected"
       THEN UNCHANGED <<status, copies>>
       ELSE /\ copies' = [copies EXCEPT ![TheLog(w)] = @ + 1]
            /\ UpdateStatus(w, "parsed")
    /\ Finish(w)
    /\ UNCHANGED <<content, scheduled, overlapped, errors, crashes>>

\* store_text_log_summary_artifact: get_or_create of each error.  Nothing keeps
\* two transactions from inserting the same row, and a row found twice is an
\* exception (MultipleObjectsReturned).
SelectErrors(w) ==
    /\ pc[w] = "select"
    /\ IF copies[TheLog(w)] > 1
       THEN Retry(w)
       ELSE /\ seen' = [seen EXCEPT ![w] = copies[TheLog(w)]]
            /\ Goto(w, "insert")
            /\ UNCHANGED <<held, queue, dropped>>
    /\ UNCHANGED <<content, status, copies, scheduled, overlapped, errors, crashes>>

\* The transaction of the errors, those it found left alone.  The IntegrityError
\* that post_log_artifacts passes over is that of a job deleted meanwhile (the
\* step of an error is NULL, so its unique key refuses nothing): the deletion has
\* taken the job's logs along, and jobs are not deleted here.
InsertErrors(w) ==
    /\ pc[w] = "insert"
    /\ copies' = IF seen[w] = 0 THEN [copies EXCEPT ![TheLog(w)] = @ + 1] ELSE copies
    /\ Goto(w, "mark")
    /\ UNCHANGED <<content, status, scheduled, queue, held, seen, dropped,
                   overlapped, errors, crashes>>

MarkParsed(w) ==
    /\ pc[w] = "mark"
    /\ UpdateStatus(w, "parsed")
    /\ Finish(w)
    /\ UNCHANGED <<content, copies, scheduled, overlapped, errors, crashes>>

\* A statement fails: its transaction is rolled back and the task retried, or
\* not (performance data that is not valid).
StoreFails(w) ==
    /\ pc[w] \in {"write", "select", "insert", "mark"}
    /\ errors < MaxErrors
    /\ errors' = errors + 1
    /\ Retry(w) \/ Drop(w)
    /\ UNCHANGED <<content, status, copies, scheduled, overlapped, crashes>>

\* A worker is killed: its task was not acknowledged and is redelivered.
Crash(w) ==
    /\ pc[w] # "idle"
    /\ crashes < MaxCrashes
    /\ crashes' = crashes + 1
    /\ queue' = [queue EXCEPT ![held[w]] = @ + 1]
    /\ Release(w)
    /\ UNCHANGED <<content, status, copies, scheduled, dropped, overlapped, errors>>

----------------------------------------------------------------------------
\* What a worker does when nothing fails.
WorkerStep(w) ==
    \/ \E t \in Task : Take(w, t)
    \/ FetchRaw(w)
    \/ FetchSummary(w)
    \/ WriteSummary(w)
    \/ SelectErrors(w)
    \/ InsertErrors(w)
    \/ MarkParsed(w)

Next ==
    \/ \E l \in Log : Schedule(l)
    \/ \E w \in Workers : WorkerStep(w) \/ FetchFails(w) \/ StoreFails(w) \/ Crash(w)

Spec == Init /\ [][Next]_vars

\* The workers are kept running.
FairSpec == Spec /\ \A w \in Workers : WF_vars(WorkerStep(w))

----------------------------------------------------------------------------
(***************************************************************************)
(* Properties                                                              *)
(***************************************************************************)

\* A worker holds a task exactly while it is working, at a statement that
\* belongs to the kind of its log.
HeldOK ==
    \A w \in Workers :
        /\ pc[w] = "idle" => held[w] = NoTask
        /\ pc[w] # "idle" => held[w] \in Task
        /\ pc[w] \in {"select", "insert", "mark"} => TheLog(w) \in RawLogs
        /\ pc[w] = "write" => TheLog(w) \in Summaries

\* The types of all variables.
TypeOK ==
    /\ content \in [Log -> RawContent \cup SummaryContent]
    /\ status \in [Log -> LogStatus]
    /\ copies \in [Log -> Nat]
    /\ scheduled \in [Log -> Nat]
    /\ queue \in [Task -> Nat]
    /\ pc \in [Workers -> PC]
    /\ held \in [Workers -> Task \cup {NoTask}]
    /\ seen \in [Workers -> Nat]
    /\ HeldOK
    /\ dropped \subseteq Log
    /\ overlapped \subseteq Log
    /\ errors \in Nat /\ crashes \in Nat

\* A log shown as parsed has its rows, whatever the number of workers,
\* duplicated tasks, failing statements and restarts.
ParsedLogsStored == \A l \in Log : status[l] = "parsed" => copies[l] > 0

\* A log's rows are stored once, however often its task is scheduled, retried or
\* redelivered, unless two workers held a task of it at once
\* (post_log_artifacts, write_failure_lines).
RowsStoredOnce == \A l \in Log \ overlapped : copies[l] <= 1

\* A task of the log is queued, or a worker holds one.
Waits(l) ==
    \/ \E t \in Task : t.log = l /\ queue[t] > 0
    \/ \E w \in Workers : pc[w] # "idle" /\ TheLog(w) = l

LV == INSTANCE LogVerdicts WITH
          waiting <- {l \in Log : Waits(l)},
          done <- {l \in Log : status[l] # "pending"}

\* Log parsing is what LogVerdicts says of it: only a log that was scheduled gets
\* a verdict, and none is taken back.
VerdictsKept == LV!VerdictsSpec

\* No log is forgotten: one that was scheduled and has no verdict has a task that
\* waits or is worked on, whatever is retried, killed and redelivered, unless its
\* task failed for good or nothing of it can be stored.
NoLogForgotten ==
    \A l \in Log :
        scheduled[l] > 0 => \/ status[l] # "pending"
                            \/ l \in dropped
                            \/ content[l] \notin Storable
                            \/ Waits(l)

\* A log that was scheduled gets a verdict: it is parsed, failed or skipped, or
\* its task failed for good; but a summary from which nothing can be stored may
\* stay pending.
LogsGetAVerdict ==
    \A l \in Log :
        scheduled[l] > 0 ~> \/ status[l] # "pending"
                            \/ l \in dropped
                            \/ content[l] \notin Storable
=============================================================================
