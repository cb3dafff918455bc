-------------------------- MODULE LogParsingProofs --------------------------
(* Theorems about LogParsing, for every value of its constants.            *)
EXTENDS LogParsing, TLAPS

USE LogAssumption, ParsingBounds, NoTaskAssumption

----------------------------------------------------------------------------
(* Type correctness.                                                       *)

\* What a step of a worker relies on: the task it holds.
LEMMA TaskTypes ==
    ASSUME TypeOK, NEW w \in Workers, pc[w] # "idle"
    PROVE  held[w] \in Task /\ TheLog(w) \in Log /\ held[w].retries \in 0..MaxRetries
BY DEF TypeOK, HeldOK, Task, TheLog

\* The part of TypeOK about the workers' own variables and the queue.
WorkersOK ==
    /\ queue \in [Task -> Nat]
    /\ pc \in [Workers -> PC]
    /\ held \in [Workers -> Task \cup {NoTask}]
    /\ seen \in [Workers -> Nat]
    /\ HeldOK
    /\ dropped \subseteq Log

\* The part of TypeOK about the tables and the counters.
TablesOK ==
    /\ content \in [Log -> RawContent \cup SummaryContent]
    /\ status \in [Log -> LogStatus]
    /\ copies \in [Log -> Nat]
    /\ scheduled \in [Log -> Nat]
    /\ overlapped \subseteq Log
    /\ errors \in Nat /\ crashes \in Nat

\* TypeOK is its two parts.
LEMMA TypeOKParts == TypeOK <=> WorkersOK /\ TablesOK
BY DEF TypeOK, WorkersOK, TablesOK

\* The same of the next state.
LEMMA TypeOKPartsNext == WorkersOK' /\ TablesOK' => TypeOK'
BY DEF TypeOK, WorkersOK, TablesOK

\* A worker that lets its task go; the queue is looked at by the caller.
LEMMA ReleaseTypes ==
    ASSUME TypeOK, NEW w \in Workers, Release(w),
           queue' \in [Task -> Nat], dropped' \subseteq Log
    PROVE  WorkersOK'
<1>1. /\ pc' = [pc EXCEPT ![w] = "idle"]
      /\ held' = [held EXCEPT ![w] = NoTask]
      /\ seen' = [seen EXCEPT ![w] = 0]
  BY DEF Release, Goto
<1>2. /\ pc' \in [Workers -> PC]
      /\ held' \in [Workers -> Task \cup {NoTask}]
      /\ seen' \in [Workers -> Nat]
  BY <1>1 DEF TypeOK, PC
<1>3. HeldOK'
  <2>1. \A v \in Workers : v # w => pc'[v] = pc[v] /\ held'[v] = held[v]
    BY <1>1 DEF TypeOK
  <2>2. pc'[w] = "idle" /\ held'[w] = NoTask
    BY <1>1 DEF TypeOK
  <2> QED BY <2>1, <2>2 DEF TypeOK, HeldOK, TheLog
<1> QED BY <1>2, <1>3 DEF WorkersOK

\* A worker whose task is done, given up or queued again.
LEMMA LeaveTypes ==
    ASSUME TypeOK, NEW w \in Workers, pc[w] # "idle", Finish(w) \/ Drop(w) \/ Retry(w)
    PROVE  WorkersOK' /\ Release(w)
<1>1. held[w] \in Task /\ TheLog(w) \in Log /\ held[w].retries \in 0..MaxRetries
  BY TaskTypes
<1>2. CASE Finish(w)
  BY <1>2, ReleaseTypes DEF Finish, TypeOK
<1>3. CASE Drop(w)
  BY <1>1, <1>3, ReleaseTypes DEF Drop, TypeOK
<1>4. CASE Retry(w) /\ ~Drop(w)
  <2> DEFINE again == [held[w] EXCEPT !.retries = held[w].retries + 1]
  <2>1. /\ held[w].retries < MaxRetries /\ Release(w)
        /\ queue' = [queue EXCEPT ![again] = queue[again] + 1] /\ dropped' = dropped
    BY <1>4 DEF Retry
  <2>2. again \in Task
    BY <1>1, <2>1 DEF Task
  <2> QED BY <2>1, <2>2, ReleaseTypes DEF TypeOK
<1> QED BY <1>2, <1>3, <1>4

\* A worker that goes to another statement of the same task.
LEMMA GotoTypes ==
    ASSUME TypeOK, NEW w \in Workers, pc[w] # "idle", NEW label \in PC \ {"idle"},
           Goto(w, label), UNCHANGED <<held, queue, dropped>>, seen' \in [Workers -> Nat],
           label \in {"select", "insert", "mark"} => TheLog(w) \in RawLogs,
           label = "write" => TheLog(w) \in Summaries
    PROVE  WorkersOK'
<1>1. pc' = [pc EXCEPT ![w] = label] /\ held' = held
  BY DEF Goto
<1>2. HeldOK'
  <2>1. \A v \in Workers : v # w => pc'[v] = pc[v]
    BY <1>1 DEF TypeOK
  <2>2. pc'[w] = label
    BY <1>1 DEF TypeOK
  <2> QED BY <1>1, <2>1, <2>2 DEF TypeOK, HeldOK, TheLog
<1> QED BY <1>1, <1>2 DEF TypeOK, WorkersOK

\* Nothing is scheduled or held at the start.
LEMMA InitTypes == Init => TypeOK
BY DEF Init, TypeOK, HeldOK, PC, LogStatus

\* A step of a worker.
Step(w) == WorkerStep(w) \/ FetchFails(w) \/ StoreFails(w) \/ Crash(w)

\* A worker's step keeps the types.
LEMMA StepTypes ==
    ASSUME TypeOK, NEW w \in Workers, Step(w)
    PROVE  TypeOK'
<1>0. TablesOK /\ WorkersOK
  BY TypeOKParts
<1>1. ASSUME NEW t \in Task, Take(w, t) PROVE TypeOK'
  <2>1. TablesOK'
    BY <1>0, <1>1 DEF Take, Hold, Task, TablesOK
  <2>2. queue' \in [Task -> Nat] /\ dropped' = dropped
    BY <1>1 DEF Take, TypeOK
  <2>3. CASE status[t.log] \in {"pending", "failed"}
    <3>1. pc' = [pc EXCEPT ![w] = "fetch"] /\ held' = [held EXCEPT ![w] = t] /\ seen' = seen
      BY <1>1, <2>3 DEF Take, Hold, Goto
    <3>2. \A v \in Workers : v # w => pc'[v] = pc[v] /\ held'[v] = held[v]
      BY <3>1 DEF TypeOK
    <3>3. pc'[w] = "fetch" /\ held'[w] = t
      BY <3>1 DEF TypeOK
    <3>4. HeldOK'
      BY <3>2, <3>3 DEF TypeOK, HeldOK, TheLog
    <3> QED BY <2>1, <2>2, <3>1, <3>4, TypeOKPartsNext DEF TypeOK, WorkersOK, PC
  <2>4. CASE status[t.log] \notin {"pending", "failed"}
    <3>1. UNCHANGED <<pc, held, seen>>
      BY <1>1, <2>4 DEF Take, workerVars
    <3> QED BY <2>1, <2>2, <3>1, TypeOKPartsNext DEF TypeOK, HeldOK, TheLog, WorkersOK
  <2> QED BY <2>3, <2>4
<1>2. CASE FetchRaw(w)
  <2>1. pc[w] # "idle" /\ TheLog(w) \in Log /\ TheLog(w) \in RawLogs
    BY <1>2, TaskTypes DEF FetchRaw
  <2>2. TablesOK'
    BY <1>0, <1>2, <2>1 DEF FetchRaw, UpdateStatus, TablesOK, LogStatus
  <2>3. WorkersOK'
    BY <1>2, <2>1, LeaveTypes, GotoTypes DEF FetchRaw, TypeOK, PC
  <2> QED BY <2>2, <2>3, TypeOKPartsNext
<1>3. CASE FetchSummary(w)
  <2>1. pc[w] # "idle" /\ TheLog(w) \in Summaries
    BY <1>3 DEF FetchSummary
  <2>2. TablesOK'
    BY <1>0, <1>3 DEF FetchSummary, TablesOK
  <2>3. WorkersOK'
    BY <1>3, <2>1, LeaveTypes, GotoTypes DEF FetchSummary, TypeOK, PC
  <2> QED BY <2>2, <2>3, TypeOKPartsNext
<1>4. CASE WriteSummary(w)
  <2>1. pc[w] # "idle" /\ TheLog(w) \in Log
    BY <1>4, TaskTypes DEF WriteSummary
  <2>2. TablesOK'
    BY <1>0, <1>4, <2>1 DEF WriteSummary, UpdateStatus, TablesOK, LogStatus
  <2>3. WorkersOK'
    BY <1>4, <2>1, LeaveTypes DEF WriteSummary
  <2> QED BY <2>2, <2>3, TypeOKPartsNext
<1>5. CASE SelectErrors(w)
  <2>1. pc[w] # "idle" /\ TheLog(w) \in Log /\ TheLog(w) \in RawLogs
    BY <1>5, TaskTypes DEF SelectErrors, TypeOK, HeldOK
  <2>2. TablesOK'
    BY <1>0, <1>5 DEF SelectErrors, TablesOK
  <2>3. WorkersOK'
    BY <1>5, <2>1, LeaveTypes, GotoTypes DEF SelectErrors, TypeOK, PC
  <2> QED BY <2>2, <2>3, TypeOKPartsNext
<1>6. CASE InsertErrors(w)
  <2>1. pc[w] # "idle" /\ TheLog(w) \in Log /\ TheLog(w) \in RawLogs
    BY <1>6, TaskTypes DEF InsertErrors, TypeOK, HeldOK
  <2>2. TablesOK'
    BY <1>0, <1>6, <2>1 DEF InsertErrors, TablesOK
  <2>3. WorkersOK'
    BY <1>6, <2>1, GotoTypes DEF InsertErrors, TypeOK, PC
  <2> QED BY <2>2, <2>3, TypeOKPartsNext
<1>7. CASE MarkParsed(w)
  <2>1. pc[w] # "idle" /\ TheLog(w) \in Log
    BY <1>7, TaskTypes DEF MarkParsed
  <2>2. TablesOK'
    BY <1>0, <1>7, <2>1 DEF MarkParsed, UpdateStatus, TablesOK, LogStatus
  <2>3. WorkersOK'
    BY <1>7, <2>1, LeaveTypes DEF MarkParsed
  <2> QED BY <2>2, <2>3, TypeOKPartsNext
<1>8. CASE FetchFails(w)
  <2>1. pc[w] # "idle" /\ TheLog(w) \in Log
    BY <1>8, TaskTypes DEF FetchFails
  <2>2. TablesOK'
    BY <1>0, <1>8, <2>1 DEF FetchFails, UpdateStatus, TablesOK, LogStatus
  <2>3. WorkersOK'
    BY <1>8, <2>1, LeaveTypes DEF FetchFails
  <2> QED BY <2>2, <2>3, TypeOKPartsNext
<1>9. CASE StoreFails(w)
  <2>1. pc[w] # "idle"
    BY <1>9 DEF StoreFails
  <2>2. TablesOK'
    BY <1>0, <1>9 DEF StoreFails, TablesOK
  <2>3. WorkersOK'
    BY <1>9, <2>1, LeaveTypes DEF StoreFails
  <2> QED BY <2>2, <2>3, TypeOKPartsNext
<1>10. CASE Crash(w)
  <2>1. pc[w] # "idle" /\ held[w] \in Task
    BY <1>10, TaskTypes DEF Crash
  <2>2. TablesOK'
    BY <1>0, <1>10 DEF Crash, TablesOK
  <2>3. queue' \in [Task -> Nat] /\ dropped' = dropped
    BY <1>10, <2>1 DEF Crash, TypeOK
  <2>4. WorkersOK'
    BY <1>10, <2>3, ReleaseTypes DEF Crash, TypeOK
  <2> QED BY <2>2, <2>4, TypeOKPartsNext
<1> QED BY <1>1, <1>2, <1>3, <1>4, <1>5, <1>6, <1>7, <1>8, <1>9, <1>10
        DEF Step, WorkerStep

\* Scheduling a log keeps the types.
LEMMA ScheduleTypes ==
    ASSUME TypeOK, NEW l \in Log, Schedule(l)
    PROVE  TypeOK'
<1>1. [log |-> l, retries |-> 0] \in Task
  BY DEF Task
<1>2. queue' \in [Task -> Nat] /\ scheduled' \in [Log -> Nat]
  BY <1>1 DEF Schedule, TypeOK
<1> QED BY <1>2 DEF Schedule, TypeOK, HeldOK, TheLog, workerVars

\* A step that changes nothing keeps the types.
LEMMA StutterTypes == TypeOK /\ UNCHANGED vars => TypeOK'
BY DEF TypeOK, HeldOK, TheLog, vars, workerVars

\* Every variable keeps its type, whatever the number of logs, workers,
\* retries, failures and restarts.
THEOREM ParsingTypeCorrect == Spec => []TypeOK
<1>1. Init => TypeOK
  BY InitTypes
<1>2. TypeOK /\ [Next]_vars => TypeOK'
  BY StepTypes, ScheduleTypes, StutterTypes DEF Next, Step
<1> QED BY <1>1, <1>2, PTL DEF Spec

----------------------------------------------------------------------------
(* A log shown as parsed has its rows.                                     *)

\* A step of one worker is no step of another one.
LEMMA OnlyThisWorker ==
    ASSUME TypeOK, NEW w \in Workers, Step(w), NEW v \in Workers, v # w
    PROVE  pc'[v] = pc[v] /\ held'[v] = held[v] /\ seen'[v] = seen[v]
<1> USE DEF TypeOK, Goto, Release, Finish, Drop, Retry
<1>1. ASSUME NEW t \in Task, Take(w, t)
      PROVE  pc'[v] = pc[v] /\ held'[v] = held[v] /\ seen'[v] = seen[v]
  BY <1>1 DEF Take, Hold, workerVars
<1>2. FetchRaw(w) \/ FetchSummary(w) => pc'[v] = pc[v] /\ held'[v] = held[v] /\ seen'[v] = seen[v]
  BY DEF FetchRaw, FetchSummary
<1>3. WriteSummary(w) \/ MarkParsed(w) => pc'[v] = pc[v] /\ held'[v] = held[v] /\ seen'[v] = seen[v]
  BY DEF WriteSummary, MarkParsed
<1>4. SelectErrors(w) \/ InsertErrors(w) => pc'[v] = pc[v] /\ held'[v] = held[v] /\ seen'[v] = seen[v]
  BY DEF SelectErrors, InsertErrors
<1>5. FetchFails(w) \/ StoreFails(w) \/ Crash(w)
        => pc'[v] = pc[v] /\ held'[v] = held[v] /\ seen'[v] = seen[v]
  BY DEF FetchFails, StoreFails, Crash
<1> QED BY <1>1, <1>2, <1>3, <1>4, <1>5 DEF Step, WorkerStep

\* Rows are never removed, and a log becomes parsed only with rows or at the
\* last statement of its task.
LEMMA RowsGrow ==
    ASSUME TypeOK, NEW w \in Workers, Step(w), NEW l \in Log
    PROVE  /\ copies'[l] \in Nat /\ copies'[l] >= copies[l]
           /\ \/ status'[l] # "parsed" \/ status[l] = "parsed" \/ copies'[l] > 0
              \/ pc[w] = "mark" /\ TheLog(w) = l
<1> DEFINE Goal == /\ copies'[l] \in Nat /\ copies'[l] >= copies[l]
                   /\ \/ status'[l] # "parsed" \/ status[l] = "parsed" \/ copies'[l] > 0
                      \/ pc[w] = "mark" /\ TheLog(w) = l
<1> USE DEF TypeOK
<1>1. ASSUME NEW t \in Task, Take(w, t) PROVE Goal
  BY <1>1 DEF Take
<1>2. FetchRaw(w) => Goal
  BY TaskTypes DEF FetchRaw, UpdateStatus
<1>3. FetchSummary(w) => Goal
  BY DEF FetchSummary
<1>4. WriteSummary(w) => Goal
  BY TaskTypes DEF WriteSummary, UpdateStatus
<1>5. SelectErrors(w) => Goal
  BY DEF SelectErrors
<1>6. InsertErrors(w) => Goal
  BY TaskTypes DEF InsertErrors
<1>7. MarkParsed(w) => Goal
  BY TaskTypes DEF MarkParsed, UpdateStatus
<1>8. FetchFails(w) => Goal
  BY TaskTypes DEF FetchFails, UpdateStatus
<1>9. StoreFails(w) \/ Crash(w) => Goal
  BY DEF StoreFails, Crash
<1> QED BY <1>1, <1>2, <1>3, <1>4, <1>5, <1>6, <1>7, <1>8, <1>9 DEF Step, WorkerStep

\* What a worker knows of its raw log once it has looked at the errors.
RowsKnown(w) ==
    /\ pc[w] = "insert" /\ seen[w] > 0 => copies[TheLog(w)] > 0
    /\ pc[w] = "mark" => copies[TheLog(w)] > 0

StoredInv == TypeOK /\ ParsedLogsStored /\ \A w \in Workers : RowsKnown(w)

\* A worker's step makes what it knows true.
LEMMA StepKnows ==
    ASSUME TypeOK, NEW w \in Workers, Step(w), RowsKnown(w)
    PROVE  RowsKnown(w)'
<1> USE DEF RowsKnown
<1>1. CASE InsertErrors(w)
  <2>1. /\ pc[w] = "insert" /\ TheLog(w) \in Log /\ held' = held /\ pc'[w] = "mark"
    BY <1>1, TaskTypes DEF InsertErrors, Goto, TypeOK
  <2>2. copies'[TheLog(w)] > 0
    BY <1>1, <2>1 DEF InsertErrors, TypeOK
  <2> QED BY <2>1, <2>2 DEF TheLog
<1>2. CASE SelectErrors(w) /\ copies[TheLog(w)] <= 1
  <2>1. /\ pc'[w] = "insert" /\ held' = held /\ copies' = copies
        /\ seen'[w] = copies[TheLog(w)]
    BY <1>2, TaskTypes DEF SelectErrors, Goto, TypeOK
  <2> QED BY <2>1 DEF TheLog
<1>3. CASE pc'[w] \notin {"insert", "mark"}
  BY <1>3
<1>4. ~InsertErrors(w) /\ ~(SelectErrors(w) /\ copies[TheLog(w)] <= 1)
        => pc'[w] \notin {"insert", "mark"}
  <2> USE DEF TypeOK, Goto
  <2>1. ASSUME NEW t \in Task, Take(w, t) PROVE pc'[w] \notin {"insert", "mark"}
    BY <2>1 DEF Take, Hold, workerVars
  <2>2. Release(w) => pc'[w] \notin {"insert", "mark"}
    BY DEF Release
  <2>3. FetchRaw(w) \/ FetchSummary(w) => pc'[w] \notin {"insert", "mark"}
    BY <2>2, LeaveTypes DEF FetchRaw, FetchSummary
  <2>4. SelectErrors(w) /\ ~(copies[TheLog(w)] <= 1) => pc'[w] \notin {"insert", "mark"}
    BY <2>2, TaskTypes, LeaveTypes DEF SelectErrors
  <2>5. WriteSummary(w) \/ MarkParsed(w) => pc'[w] \notin {"insert", "mark"}
    BY <2>2 DEF WriteSummary, MarkParsed, Finish
  <2>6. FetchFails(w) \/ StoreFails(w) => pc'[w] \notin {"insert", "mark"}
    BY <2>2, LeaveTypes DEF FetchFails, StoreFails
  <2>7. Crash(w) => pc'[w] \notin {"insert", "mark"}
    BY <2>2 DEF Crash
  <2> QED BY <2>1, <2>3, <2>4, <2>5, <2>6, <2>7 DEF Step, WorkerStep
<1> QED BY <1>1, <1>2, <1>3, <1>4

\* No step of a worker makes a log parsed that has no rows.
LEMMA StepStored ==
    ASSUME StoredInv, NEW w \in Workers, Step(w)
    PROVE  StoredInv'
<1> USE DEF StoredInv
<1>1. TypeOK'
  BY StepTypes
<1>2. ParsedLogsStored'
  BY RowsGrow DEF ParsedLogsStored, RowsKnown, TypeOK
<1>3. ASSUME NEW v \in Workers PROVE RowsKnown(v)'
  <2>1. CASE v = w
    BY <2>1, StepKnows
  <2>2. CASE v # w
    <3>1. pc'[v] = pc[v] /\ held'[v] = held[v] /\ seen'[v] = seen[v]
      BY <2>2, OnlyThisWorker
    <3>2. CASE pc[v] \in {"insert", "mark"}
      <4>1. TheLog(v) \in Log
        BY <3>2, TaskTypes
      <4> QED BY <3>1, <4>1, RowsGrow DEF RowsKnown, TheLog, TypeOK
    <3> QED BY <3>1, <3>2 DEF RowsKnown
  <2> QED BY <2>1, <2>2
<1> QED BY <1>1, <1>2, <1>3

\* A log shown as parsed has its rows, for any number of workers, retries,
\* failing statements and restarts.
THEOREM ParsedLogsStoredCorrect == Spec => []ParsedLogsStored
<1>1. Init => StoredInv
  BY InitTypes DEF Init, StoredInv, ParsedLogsStored, RowsKnown
<1>2. StoredInv /\ [Next]_vars => StoredInv'
  <2> SUFFICES ASSUME StoredInv, [Next]_vars PROVE StoredInv'
    OBVIOUS
  <2>1. ASSUME NEW l \in Log, Schedule(l) PROVE StoredInv'
    BY <2>1, ScheduleTypes DEF StoredInv, Schedule, workerVars, ParsedLogsStored, RowsKnown, TheLog
  <2>2. CASE UNCHANGED vars
    BY <2>2, StutterTypes DEF StoredInv, vars, workerVars, ParsedLogsStored, RowsKnown, TheLog
  <2> QED BY <2>1, <2>2, StepStored DEF Next, Step
<1>3. StoredInv => ParsedLogsStored
  BY DEF StoredInv
<1> QED BY <1>1, <1>2, <1>3, PTL DEF Spec

----------------------------------------------------------------------------
(* A log's rows are stored once, unless two workers held a task of it at   *)
(* once: both may look for the errors before either of them inserts them.  *)

\* Two workers hold tasks of one log only if it is recorded.
Apart ==
    \A v, w \in Workers :
        v # w /\ pc[v] # "idle" /\ pc[w] # "idle" /\ TheLog(v) = TheLog(w)
            => TheLog(w) \in overlapped

\* A summary that may still be parsed has no rows.
UnparsedSummariesEmpty ==
    \A l \in Summaries \ overlapped : status[l] \in {"pending", "failed"} => copies[l] = 0

\* What the worker read of its log is still so.
ReadsHold(w) ==
    TheLog(w) \notin overlapped =>
        /\ pc[w] \in {"fetch", "write"} => status[TheLog(w)] \in {"pending", "failed"}
        /\ pc[w] = "insert" => seen[w] = copies[TheLog(w)]

OnceInv ==
    /\ TypeOK
    /\ Apart
    /\ RowsStoredOnce
    /\ UnparsedSummariesEmpty
    /\ \A w \in Workers : ReadsHold(w)

\* What is recorded stays, and only Take adds to it.
LEMMA RecordGrows ==
    ASSUME TypeOK, NEW w \in Workers, Step(w)
    PROVE  overlapped \subseteq overlapped' /\ (pc[w] # "idle" => overlapped' = overlapped)
<1>1. \A t \in Task : Take(w, t) => overlapped \subseteq overlapped' /\ pc[w] = "idle"
  BY DEF Take, Hold
<1>2. ~(\E t \in Task : Take(w, t)) => overlapped' = overlapped
  BY DEF Step, WorkerStep, FetchRaw, FetchSummary, WriteSummary, SelectErrors, InsertErrors,
         MarkParsed, FetchFails, StoreFails, Crash
<1> QED BY <1>1, <1>2

\* A worker holds what it held, lets it go, or takes a task.
LEMMA HoldsOrTakes ==
    ASSUME TypeOK, NEW w \in Workers, Step(w), pc'[w] # "idle"
    PROVE  \/ pc[w] # "idle" /\ held'[w] = held[w]
           \/ \E t \in Task : Take(w, t) /\ Hold(w, t) /\ held'[w] = t
<1>1. ASSUME NEW t \in Task, Take(w, t) PROVE Hold(w, t) /\ held'[w] = t
  <2>1. Hold(w, t)
    BY <1>1 DEF Take, workerVars
  <2> QED BY <2>1 DEF Hold, TypeOK
<1>2. Release(w) => pc'[w] = "idle"
  BY DEF Release, Goto, TypeOK
<1>3. ASSUME pc[w] # "idle" PROVE held'[w] = held[w]
  <2>1. \A t \in Task : ~Take(w, t)
    BY <1>3 DEF Take
  <2>2. ~Finish(w) /\ ~Drop(w) /\ ~Retry(w)
    BY <1>2, <1>3, LeaveTypes
  <2>3. ~Crash(w)
    BY <1>2 DEF Crash
  <2> QED BY <2>1, <2>2, <2>3
          DEF Step, WorkerStep, FetchRaw, FetchSummary, WriteSummary, SelectErrors, InsertErrors,
              MarkParsed, FetchFails, StoreFails
<1>4. CASE pc[w] = "idle"
  <2>1. \E t \in Task : Take(w, t)
    BY <1>4 DEF Step, WorkerStep, FetchRaw, FetchSummary, WriteSummary, SelectErrors, InsertErrors,
                MarkParsed, FetchFails, StoreFails, Crash
  <2> QED BY <1>1, <2>1
<1> QED BY <1>3, <1>4

\* Two workers get hold of one log only in a step that records it.
LEMMA StepApart ==
    ASSUME TypeOK, Apart, NEW w \in Workers, Step(w)
    PROVE  Apart'
<1>1. ASSUME NEW v \in Workers, v # w, pc'[v] # "idle", pc'[w] # "idle", held'[v].log = held'[w].log
      PROVE  held'[w].log \in overlapped'
  <2>1. pc'[v] = pc[v] /\ held'[v] = held[v]
    BY <1>1, OnlyThisWorker
  <2>2. CASE pc[w] # "idle" /\ held'[w] = held[w]
    <3>1. TheLog(w) \in overlapped
      BY <1>1, <2>1, <2>2 DEF Apart, TheLog
    <3> QED BY <2>2, <3>1, RecordGrows DEF TheLog
  <2>3. ASSUME NEW t \in Task, Hold(w, t), held'[w] = t PROVE held'[w].log \in overlapped'
    <3>1. HeldElsewhere(w, t.log)
      BY <1>1, <2>1, <2>3 DEF HeldElsewhere, TheLog
    <3> QED BY <2>3, <3>1 DEF Hold
  <2> QED BY <1>1, <2>2, <2>3, HoldsOrTakes
<1>2. ASSUME NEW u \in Workers, NEW v \in Workers, u # v, u # w, v # w,
             pc'[u] # "idle", pc'[v] # "idle", held'[u].log = held'[v].log
      PROVE  held'[v].log \in overlapped'
  <2>1. pc'[u] = pc[u] /\ held'[u] = held[u] /\ pc'[v] = pc[v] /\ held'[v] = held[v]
    BY <1>2, OnlyThisWorker
  <2> QED BY <1>2, <2>1, RecordGrows DEF Apart, TheLog
<1> QED BY <1>1, <1>2 DEF Apart, TheLog

\* A worker that goes idle has nothing it read.
LEMMA IdleReads ==
    ASSUME TypeOK, NEW w \in Workers, Release(w)
    PROVE  ReadsHold(w)'
BY DEF Release, Goto, ReadsHold, TypeOK

\* A step of a worker whose log nobody else holds.
LEMMA StepOnce ==
    ASSUME OnceInv, NEW w \in Workers, Step(w)
    PROVE  RowsStoredOnce' /\ UnparsedSummariesEmpty' /\ ReadsHold(w)'
<1> DEFINE Goal == RowsStoredOnce' /\ UnparsedSummariesEmpty' /\ ReadsHold(w)'
<1> USE DEF OnceInv
<1>0. overlapped \subseteq overlapped'
  BY RecordGrows
<1>1. ASSUME NEW t \in Task, Take(w, t) PROVE Goal
  <2>1. status' = status /\ copies' = copies
    BY <1>1 DEF Take
  <2>2. RowsStoredOnce' /\ UnparsedSummariesEmpty'
    BY <1>0, <2>1 DEF RowsStoredOnce, UnparsedSummariesEmpty
  <2>3. CASE status[t.log] \in {"pending", "failed"}
    <3>1. pc'[w] = "fetch" /\ held'[w] = t
      BY <1>1, <2>3 DEF Take, Hold, Goto, TypeOK
    <3> QED BY <2>1, <2>2, <2>3, <3>1 DEF ReadsHold, TheLog
  <2>4. CASE status[t.log] \notin {"pending", "failed"}
    <3>1. pc'[w] = "idle"
      BY <1>1, <2>4 DEF Take, workerVars
    <3> QED BY <2>2, <3>1 DEF ReadsHold
  <2> QED BY <2>3, <2>4
<1>2. CASE FetchRaw(w)
  <2>1. TheLog(w) \in RawLogs /\ TheLog(w) \in Log /\ copies' = copies /\ pc[w] # "idle"
    BY <1>2, TaskTypes DEF FetchRaw
  <2>2. RowsStoredOnce' /\ UnparsedSummariesEmpty'
    BY <1>0, <1>2, <2>1
       DEF FetchRaw, UpdateStatus, RowsStoredOnce, UnparsedSummariesEmpty, TypeOK, Log
  <2>3. CASE content[TheLog(w)] = "huge"
    BY <1>2, <2>2, <2>3, IdleReads DEF FetchRaw, Finish
  <2>4. CASE content[TheLog(w)] # "huge"
    <3>1. pc'[w] = "select"
      BY <1>2, <2>4 DEF FetchRaw, Goto, TypeOK
    <3> QED BY <2>2, <3>1 DEF ReadsHold
  <2> QED BY <2>3, <2>4
<1>3. CASE FetchSummary(w)
  <2>1. UNCHANGED <<status, copies, overlapped>> /\ pc[w] = "fetch"
    BY <1>3 DEF FetchSummary
  <2>2. RowsStoredOnce' /\ UnparsedSummariesEmpty'
    BY <2>1 DEF RowsStoredOnce, UnparsedSummariesEmpty
  <2>3. CASE Release(w)
    BY <2>2, <2>3, IdleReads
  <2>4. CASE Goto(w, "write") /\ held' = held
    <3>1. pc'[w] = "write"
      BY <2>4 DEF Goto, TypeOK
    <3> QED BY <2>1, <2>2, <2>4, <3>1 DEF ReadsHold, TheLog
  <2> QED BY <1>3, <2>3, <2>4 DEF FetchSummary, Finish, Drop
<1>4. CASE WriteSummary(w)
  <2>1. /\ pc[w] = "write" /\ TheLog(w) \in Summaries /\ TheLog(w) \in Log
        /\ TheLog(w) \notin overlapped => status[TheLog(w)] \in {"pending", "failed"}
    BY <1>4, TaskTypes DEF WriteSummary, ReadsHold, TypeOK, HeldOK
  <2>2. TheLog(w) \notin overlapped => copies[TheLog(w)] = 0
    BY <2>1 DEF UnparsedSummariesEmpty
  <2>3. RowsStoredOnce' /\ UnparsedSummariesEmpty'
    BY <1>0, <1>4, <2>1, <2>2
       DEF WriteSummary, UpdateStatus, RowsStoredOnce, UnparsedSummariesEmpty, TypeOK, Log
  <2> QED BY <1>4, <2>3, IdleReads DEF WriteSummary, Finish
<1>5. CASE SelectErrors(w)
  <2>1. UNCHANGED <<status, copies, overlapped>> /\ pc[w] = "select" /\ TheLog(w) \in Log
    BY <1>5, TaskTypes DEF SelectErrors
  <2>2. RowsStoredOnce' /\ UnparsedSummariesEmpty'
    BY <2>1 DEF RowsStoredOnce, UnparsedSummariesEmpty
  <2>3. CASE copies[TheLog(w)] > 1
    <3>1. Release(w)
      BY <1>5, <2>1, <2>3, LeaveTypes DEF SelectErrors
    <3> QED BY <2>2, <3>1, IdleReads
  <2>4. CASE ~(copies[TheLog(w)] > 1)
    <3>1. pc'[w] = "insert" /\ held' = held /\ seen'[w] = copies[TheLog(w)]
      BY <1>5, <2>4 DEF SelectErrors, Goto, TypeOK
    <3> QED BY <2>1, <2>2, <3>1 DEF ReadsHold, TheLog
  <2> QED BY <2>3, <2>4
<1>6. CASE InsertErrors(w)
  <2>1. /\ pc[w] = "insert" /\ TheLog(w) \in RawLogs /\ TheLog(w) \in Log
        /\ TheLog(w) \notin overlapped => seen[w] = copies[TheLog(w)]
        /\ status' = status
    BY <1>6, TaskTypes DEF InsertErrors, ReadsHold, TypeOK, HeldOK
  <2>2. RowsStoredOnce' /\ UnparsedSummariesEmpty'
    BY <1>0, <1>6, <2>1 DEF InsertErrors, RowsStoredOnce, UnparsedSummariesEmpty, TypeOK
  <2>3. pc'[w] = "mark"
    BY <1>6 DEF InsertErrors, Goto, TypeOK
  <2> QED BY <2>2, <2>3 DEF ReadsHold
<1>7. CASE MarkParsed(w)
  <2>1. pc[w] = "mark" /\ TheLog(w) \in RawLogs /\ copies' = copies
    BY <1>7 DEF MarkParsed, TypeOK, HeldOK
  <2>2. RowsStoredOnce' /\ UnparsedSummariesEmpty'
    BY <1>0, <1>7, <2>1 DEF MarkParsed, UpdateStatus, RowsStoredOnce, UnparsedSummariesEmpty, TypeOK
  <2> QED BY <1>7, <2>2, IdleReads DEF MarkParsed, Finish
<1>8. CASE FetchFails(w)
  <2>1. /\ pc[w] = "fetch" /\ TheLog(w) \in Log /\ copies' = copies
        /\ TheLog(w) \notin overlapped => status[TheLog(w)] \in {"pending", "failed"}
        /\ status' = status \/ UpdateStatus(w, "failed")
    BY <1>8, TaskTypes DEF FetchFails, ReadsHold
  <2>2. RowsStoredOnce' /\ UnparsedSummariesEmpty'
    BY <1>0, <2>1 DEF UpdateStatus, RowsStoredOnce, UnparsedSummariesEmpty, TypeOK, Log
  <2>3. Release(w)
    BY <1>8, <2>1, LeaveTypes DEF FetchFails
  <2> QED BY <2>2, <2>3, IdleReads
<1>9. CASE StoreFails(w) \/ Crash(w)
  <2>1. UNCHANGED <<status, copies, overlapped>> /\ Release(w)
    BY <1>9, LeaveTypes DEF StoreFails, Crash
  <2> QED BY <2>1, IdleReads DEF RowsStoredOnce, UnparsedSummariesEmpty
<1> QED BY <1>1, <1>2, <1>3, <1>4, <1>5, <1>6, <1>7, <1>8, <1>9 DEF Step, WorkerStep

\* A worker changes the rows and the status of its own log only.
LEMMA OwnRowsOnly ==
    ASSUME TypeOK, NEW w \in Workers, Step(w), NEW l \in Log, pc[w] # "idle" => l # TheLog(w)
    PROVE  status'[l] = status[l] /\ copies'[l] = copies[l]
<1> DEFINE Same == status'[l] = status[l] /\ copies'[l] = copies[l]
<1> USE DEF TypeOK, UpdateStatus
<1>1. \A t \in Task : Take(w, t) => Same
  BY DEF Take
<1>2. FetchRaw(w) \/ FetchSummary(w) => Same
  BY DEF FetchRaw, FetchSummary
<1>3. WriteSummary(w) \/ MarkParsed(w) => Same
  BY DEF WriteSummary, MarkParsed
<1>4. SelectErrors(w) \/ InsertErrors(w) => Same
  BY DEF SelectErrors, InsertErrors
<1>5. FetchFails(w) \/ StoreFails(w) \/ Crash(w) => Same
  BY DEF FetchFails, StoreFails, Crash
<1> QED BY <1>1, <1>2, <1>3, <1>4, <1>5 DEF Step, WorkerStep

\* What a worker read of a log that nobody else holds stays so.
LEMMA OthersOnce ==
    ASSUME OnceInv, NEW w \in Workers, Step(w), NEW v \in Workers, v # w
    PROVE  ReadsHold(v)'
<1> USE DEF OnceInv
<1>1. pc'[v] = pc[v] /\ held'[v] = held[v] /\ seen'[v] = seen[v]
  BY OnlyThisWorker
<1>2. overlapped \subseteq overlapped'
  BY RecordGrows
<1>3. CASE pc[v] = "idle" \/ TheLog(v) \in overlapped
  BY <1>1, <1>2, <1>3 DEF ReadsHold, TheLog
<1>4. CASE pc[v] # "idle" /\ TheLog(v) \notin overlapped
  <2>1. TheLog(v) \in Log
    BY <1>4, TaskTypes
  <2>2. pc[w] # "idle" => TheLog(v) # TheLog(w)
    BY <1>4 DEF Apart
  <2>3. status'[TheLog(v)] = status[TheLog(v)] /\ copies'[TheLog(v)] = copies[TheLog(v)]
    BY <2>1, <2>2, OwnRowsOnly
  <2> QED BY <1>1, <1>4, <2>3 DEF ReadsHold, TheLog
<1> QED BY <1>3, <1>4

\* A log's rows are stored once unless two workers held a task of it at once, for
\* any number of logs, workers, duplicated tasks, retries, failing statements and
\* restarts.
THEOREM RowsStoredOnceCorrect == Spec => []RowsStoredOnce
<1>1. Init => OnceInv
  BY InitTypes DEF Init, OnceInv, Apart, RowsStoredOnce, UnparsedSummariesEmpty, ReadsHold, Log
<1>2. OnceInv /\ [Next]_vars => OnceInv'
  <2> SUFFICES ASSUME OnceInv, [Next]_vars PROVE OnceInv'
    OBVIOUS
  <2> USE DEF OnceInv
  <2>1. ASSUME NEW l \in Log, Schedule(l) PROVE OnceInv'
    BY <2>1, ScheduleTypes
       DEF Schedule, workerVars, Apart, RowsStoredOnce, UnparsedSummariesEmpty, ReadsHold, TheLog
  <2>2. ASSUME NEW w \in Workers, Step(w) PROVE OnceInv'
    <3>1. TypeOK' /\ Apart'
      BY <2>2, StepTypes, StepApart
    <3>2. RowsStoredOnce' /\ UnparsedSummariesEmpty' /\ ReadsHold(w)'
      BY <2>2, StepOnce
    <3>3. ASSUME NEW v \in Workers, v # w PROVE ReadsHold(v)'
      BY <2>2, <3>3, OthersOnce
    <3>4. \A v \in Workers : ReadsHold(v)'
      BY <3>2, <3>3
    <3> QED BY <3>1, <3>2, <3>4
  <2>3. CASE UNCHANGED vars
    BY <2>3, StutterTypes
       DEF vars, workerVars, Apart, RowsStoredOnce, UnparsedSummariesEmpty, ReadsHold, TheLog
  <2> QED BY <2>1, <2>2, <2>3 DEF Next, Step
<1>3. OnceInv => RowsStoredOnce
  BY DEF OnceInv
<1> QED BY <1>1, <1>2, <1>3, PTL DEF Spec

----------------------------------------------------------------------------
(* No log is forgotten.                                                    *)

\* A log stays settled once it is.
Settled(l) == status[l] # "pending" \/ l \in dropped \/ content[l] \notin Storable

\* What a worker that leaves a task behind has settled or queued again.
LEMMA RetriedWaits ==
    ASSUME TypeOK, NEW w \in Workers, pc[w] # "idle", Retry(w)
    PROVE  TheLog(w) \in dropped' \/ \E t \in Task : t.log = TheLog(w) /\ queue'[t] > 0
<1>1. held[w] \in Task /\ held[w].retries \in 0..MaxRetries
  BY TaskTypes
<1>2. CASE held[w].retries < MaxRetries
  <2> DEFINE again == [held[w] EXCEPT !.retries = held[w].retries + 1]
  <2>1. again \in Task /\ again.log = TheLog(w)
    BY <1>1, <1>2 DEF Task, TheLog
  <2>2. queue' = [queue EXCEPT ![again] = queue[again] + 1]
    BY <1>2 DEF Retry
  <2> HIDE DEF again
  <2>3. queue'[again] > 0
    BY <2>1, <2>2 DEF TypeOK
  <2> QED BY <2>1, <2>3
<1>3. CASE ~(held[w].retries < MaxRetries)
  BY <1>3 DEF Retry, Drop
<1> QED BY <1>2, <1>3

\* No step unsettles a log.
LEMMA SettledStays ==
    ASSUME TypeOK, NEW w \in Workers, Step(w), NEW l \in Log, Settled(l)
    PROVE  Settled(l)'
<1> DEFINE Goal == /\ status'[l] # "pending" \/ status'[l] = status[l]
                   /\ dropped \subseteq dropped' /\ content' = content
<1>1. \A v \in Workers : Finish(v) \/ Drop(v) \/ Retry(v) => dropped \subseteq dropped'
  BY DEF Finish, Drop, Retry
<1>2. ASSUME NEW t \in Task, Take(w, t) PROVE Goal
  BY <1>2 DEF Take
<1>3. FetchRaw(w) \/ FetchSummary(w) => Goal
  BY <1>1 DEF FetchRaw, FetchSummary, UpdateStatus, TypeOK
<1>4. WriteSummary(w) \/ MarkParsed(w) => Goal
  BY <1>1 DEF WriteSummary, MarkParsed, UpdateStatus, TypeOK
<1>5. SelectErrors(w) \/ InsertErrors(w) => Goal
  BY <1>1 DEF SelectErrors, InsertErrors
<1>6. FetchFails(w) \/ StoreFails(w) \/ Crash(w) => Goal
  BY <1>1 DEF FetchFails, StoreFails, Crash, UpdateStatus, TypeOK
<1>7. Goal
  BY <1>2, <1>3, <1>4, <1>5, <1>6 DEF Step, WorkerStep
<1> QED BY <1>7 DEF Settled

\* A step of the worker that holds a task of the log keeps the task, queues it
\* again or settles the log.
LEMMA HolderKeeps ==
    ASSUME TypeOK, NEW w \in Workers, Step(w), pc[w] # "idle", NEW l, l = TheLog(w)
    PROVE  Settled(l)' \/ Waits(l)'
<1> DEFINE Goal == Settled(l)' \/ Waits(l)'
<1>0. l \in Log /\ held[w] \in Task
  BY TaskTypes
<1>1. ASSUME pc'[w] # "idle", held' = held PROVE Goal
  BY <1>1 DEF Waits, TheLog
<1>2. ASSUME l \in dropped' \/ \E t \in Task : t.log = l /\ queue'[t] > 0 PROVE Goal
  BY <1>2 DEF Settled, Waits
<1>3. Retry(w) => Goal
  BY <1>2, RetriedWaits
<1>4. Drop(w) => Goal
  BY <1>2 DEF Drop
<1>5. \A label \in PC \ {"idle"} : Goto(w, label) /\ held' = held => Goal
  BY <1>1 DEF Goto, TypeOK
<1>6. ASSUME NEW t \in Task PROVE ~Take(w, t)
  BY DEF Take
<1>7. CASE FetchRaw(w)
  <2>1. CASE content[l] = "huge"
    <3>1. status' = [status EXCEPT ![l] = "skipped-size"]
      BY <1>7, <2>1 DEF FetchRaw, UpdateStatus
    <3> QED BY <1>0, <3>1 DEF Settled, TypeOK
  <2>2. CASE content[l] # "huge"
    <3>1. Goto(w, "select") /\ held' = held
      BY <1>7, <2>2 DEF FetchRaw
    <3> QED BY <1>5, <3>1 DEF PC
  <2> QED BY <2>1, <2>2
<1>8. CASE FetchSummary(w)
  <2>1. CASE content[l] = "empty"
    BY <1>8, <2>1 DEF FetchSummary, Settled, Storable
  <2>2. CASE content[l] = "malformed"
    BY <1>4, <1>8, <2>2 DEF FetchSummary
  <2>3. CASE content[l] \notin {"empty", "malformed"}
    <3>1. Goto(w, "write") /\ held' = held
      BY <1>8, <2>3 DEF FetchSummary
    <3> QED BY <1>5, <3>1 DEF PC
  <2> QED BY <2>1, <2>2, <2>3
<1>9. CASE WriteSummary(w)
  <2>1. CASE content[l] = "rejected"
    BY <1>9, <2>1 DEF WriteSummary, Settled, Storable
  <2>2. CASE content[l] # "rejected"
    <3>1. status' = [status EXCEPT ![l] = "parsed"]
      BY <1>9, <2>2 DEF WriteSummary, UpdateStatus
    <3> QED BY <1>0, <3>1 DEF Settled, TypeOK
  <2> QED BY <2>1, <2>2
<1>10. CASE SelectErrors(w)
  <2>1. Retry(w) \/ (Goto(w, "insert") /\ held' = held)
    BY <1>10 DEF SelectErrors
  <2> QED BY <1>3, <1>5, <2>1 DEF PC
<1>11. CASE InsertErrors(w)
  BY <1>5, <1>11 DEF InsertErrors, PC
<1>12. CASE MarkParsed(w)
  <2>1. status' = [status EXCEPT ![l] = "parsed"]
    BY <1>12 DEF MarkParsed, UpdateStatus
  <2> QED BY <1>0, <2>1 DEF Settled, TypeOK
<1>13. CASE FetchFails(w)
  <2>1. Retry(w) \/ Drop(w) \/ status' = [status EXCEPT ![l] = "failed"]
    BY <1>13 DEF FetchFails, UpdateStatus
  <2>2. ASSUME status' = [status EXCEPT ![l] = "failed"] PROVE Goal
    BY <1>0, <2>2 DEF Settled, TypeOK
  <2> QED BY <1>3, <1>4, <2>1, <2>2
<1>14. CASE StoreFails(w)
  BY <1>3, <1>4, <1>14 DEF StoreFails
<1>15. CASE Crash(w)
  <2>1. queue'[held[w]] > 0 /\ held[w].log = l
    BY <1>0, <1>15 DEF Crash, TypeOK, TheLog
  <2> QED BY <1>0, <1>2, <2>1
<1> QED
  BY <1>6, <1>7, <1>8, <1>9, <1>10, <1>11, <1>12, <1>13, <1>14, <1>15 DEF Step, WorkerStep

\* A queued task stays so, unless a worker takes it.
LEMMA QueuedStays ==
    ASSUME TypeOK, NEW w \in Workers, Step(w), NEW t \in Task, queue[t] > 0
    PROVE  queue'[t] > 0 \/ Settled(t.log) \/ Waits(t.log)'
<1>1. ASSUME NEW u \in Task, Take(w, u)
      PROVE  queue'[t] > 0 \/ Settled(t.log) \/ Waits(t.log)'
  <2>1. queue' = [queue EXCEPT ![u] = queue[u] - 1]
    BY <1>1 DEF Take
  <2>2. CASE u # t
    BY <2>1, <2>2 DEF TypeOK
  <2>3. CASE u = t /\ status[t.log] \in {"pending", "failed"}
    <3>1. held'[w] = t /\ pc'[w] # "idle"
      BY <1>1, <2>3 DEF Take, Hold, Goto, TypeOK
    <3> QED BY <3>1 DEF Waits, TheLog
  <2>4. CASE u = t /\ status[t.log] \notin {"pending", "failed"}
    BY <2>4 DEF Settled
  <2> QED BY <2>2, <2>3, <2>4
<1>2. ASSUME queue' = queue \/ \E u \in Task : queue' = [queue EXCEPT ![u] = queue[u] + 1]
      PROVE  queue'[t] > 0
  BY <1>2 DEF TypeOK
<1>3. ASSUME pc[w] # "idle", Finish(w) \/ Drop(w) \/ Retry(w) PROVE queue'[t] > 0
  <2>1. Finish(w) \/ Drop(w) => queue' = queue
    BY DEF Finish, Drop
  <2>2. CASE Retry(w) /\ ~Drop(w)
    <3>1. held[w] \in Task /\ held[w].retries \in 0..MaxRetries
      BY <1>3, TaskTypes
    <3> DEFINE again == [held[w] EXCEPT !.retries = held[w].retries + 1]
    <3>2. held[w].retries < MaxRetries /\ queue' = [queue EXCEPT ![again] = queue[again] + 1]
      BY <2>2 DEF Retry
    <3>3. again \in Task
      BY <3>1, <3>2 DEF Task
    <3> QED BY <1>2, <3>2, <3>3
  <2> QED BY <1>2, <1>3, <2>1, <2>2
<1>4. FetchRaw(w) \/ FetchSummary(w) => queue'[t] > 0
  BY <1>2, <1>3 DEF FetchRaw, FetchSummary
<1>5. WriteSummary(w) \/ MarkParsed(w) => queue'[t] > 0
  BY <1>3 DEF WriteSummary, MarkParsed
<1>6. SelectErrors(w) \/ InsertErrors(w) => queue'[t] > 0
  BY <1>2, <1>3 DEF SelectErrors, InsertErrors
<1>7. FetchFails(w) \/ StoreFails(w) => queue'[t] > 0
  BY <1>3 DEF FetchFails, StoreFails
<1>8. Crash(w) => queue'[t] > 0
  BY <1>2, TaskTypes DEF Crash
<1> QED BY <1>1, <1>4, <1>5, <1>6, <1>7, <1>8 DEF Step, WorkerStep

\* A log that is scheduled is settled or has a task, for any number of logs,
\* workers, retries, failures and restarts: the safety that LogsGetAVerdict
\* rests on.
THEOREM NoLogForgottenCorrect == Spec => []NoLogForgotten
<1> DEFINE Inv == TypeOK /\ NoLogForgotten
<1>1. Init => Inv
  <2>1. Init => NoLogForgotten
    BY DEF Init, NoLogForgotten
  <2> QED BY <2>1, InitTypes
<1>2. ASSUME Inv, NEW w \in Workers, Step(w) PROVE NoLogForgotten'
  <2>1. scheduled' = scheduled
    BY <1>2 DEF Step, WorkerStep, Take, FetchRaw, FetchSummary, WriteSummary, SelectErrors,
                InsertErrors, MarkParsed, FetchFails, StoreFails, Crash
  <2>2. ASSUME NEW l \in Log, scheduled[l] > 0 PROVE Settled(l)' \/ Waits(l)'
    <3>1. CASE Settled(l)
      BY <1>2, <3>1, SettledStays
    <3>2. ASSUME NEW t \in Task, t.log = l, queue[t] > 0 PROVE Settled(l)' \/ Waits(l)'
      <4>1. queue'[t] > 0 \/ Settled(l) \/ Waits(l)'
        BY <1>2, <3>2, QueuedStays
      <4> QED BY <3>1, <3>2, <4>1 DEF Waits
    <3>3. ASSUME NEW v \in Workers, pc[v] # "idle", TheLog(v) = l PROVE Settled(l)' \/ Waits(l)'
      <4>1. CASE v = w
        BY <1>2, <3>3, <4>1, HolderKeeps
      <4>2. CASE v # w
        <5>1. pc'[v] = pc[v] /\ held'[v] = held[v]
          BY <1>2, <4>2, OnlyThisWorker
        <5> QED BY <3>3, <5>1 DEF Waits, TheLog
      <4> QED BY <4>1, <4>2
    <3>4. Settled(l) \/ Waits(l)
      BY <1>2, <2>2 DEF NoLogForgotten, Settled
    <3> QED BY <3>1, <3>2, <3>3, <3>4 DEF Waits
  <2> QED BY <2>1, <2>2 DEF NoLogForgotten, Settled
<1>3. ASSUME Inv, NEW l \in Log, Schedule(l) PROVE NoLogForgotten'
  <2> DEFINE first == [log |-> l, retries |-> 0]
  <2>1. first \in Task /\ first.log = l
    BY DEF Task
  <2>2. /\ queue' = [queue EXCEPT ![first] = queue[first] + 1]
        /\ scheduled' = [scheduled EXCEPT ![l] = scheduled[l] + 1]
        /\ UNCHANGED <<content, status, dropped, pc, held>>
    BY <1>3 DEF Schedule, workerVars
  <2> HIDE DEF first
  <2>3. queue'[first] > 0 /\ \A t \in Task : queue[t] > 0 => queue'[t] > 0
    BY <1>3, <2>1, <2>2 DEF TypeOK
  <2>4. Waits(l)' /\ \A m \in Log : Waits(m) => Waits(m)'
    BY <2>1, <2>2, <2>3 DEF Waits, TheLog
  <2>5. \A m \in Log : m # l => scheduled'[m] = scheduled[m]
    BY <1>3, <2>2 DEF TypeOK
  <2> QED BY <1>3, <2>2, <2>4, <2>5 DEF NoLogForgotten
<1>4. ASSUME Inv, UNCHANGED vars PROVE NoLogForgotten'
  BY <1>4 DEF NoLogForgotten, Waits, TheLog, vars, workerVars
<1>5. Inv /\ [Next]_vars => Inv'
  BY <1>2, <1>3, <1>4, StepTypes, ScheduleTypes, StutterTypes DEF Next, Step
<1> QED BY <1>1, <1>5, PTL DEF Spec

----------------------------------------------------------------------------
(* What ingestion sees of the parsers.                                     *)

\* A worker that has a task leaves the tasks and the verdicts of other logs alone.
LEMMA OwnLogOnly ==
    ASSUME TypeOK, NEW w \in Workers, Step(w), pc[w] # "idle"
    PROVE  /\ \A u \in Task : u.log # TheLog(w) => queue'[u] = queue[u]
           /\ pc'[w] = "idle" \/ held'[w] = held[w]
           /\ \A k \in Log \ {TheLog(w)} : status'[k] = status[k]
<1> DEFINE Tasks == \A u \in Task : u.log # TheLog(w) => queue'[u] = queue[u]
           Own == pc'[w] = "idle" \/ held'[w] = held[w]
           Verdicts == \A k \in Log \ {TheLog(w)} : status'[k] = status[k]
<1>0. held[w] \in Task /\ TheLog(w) = held[w].log
  BY TaskTypes DEF TheLog
<1>1. Release(w) => Own
  BY DEF Release, Goto, TypeOK
<1>2. ASSUME Finish(w) \/ Drop(w) \/ Retry(w) PROVE Tasks /\ Own
  <2>1. Finish(w) \/ Drop(w) => Tasks /\ Own
    BY <1>1 DEF Finish, Drop
  <2>2. Retry(w) => Tasks /\ Own
    <3> DEFINE again == [held[w] EXCEPT !.retries = held[w].retries + 1]
    <3>1. again.log = TheLog(w)
      BY <1>0 DEF Task
    <3>2. Retry(w) => Drop(w) \/ (Release(w) /\ queue' = [queue EXCEPT ![again] = queue[again] + 1])
      BY DEF Retry
    <3> HIDE DEF again
    <3>3. queue' = [queue EXCEPT ![again] = queue[again] + 1] => Tasks
      BY <3>1 DEF TypeOK
    <3> QED BY <1>1, <2>1, <3>2, <3>3
  <2> QED BY <1>2, <2>1, <2>2
<1>3. \A new : UpdateStatus(w, new) => Verdicts
  BY DEF UpdateStatus, TypeOK
<1>4. \A t \in Task : ~Take(w, t)
  BY DEF Take
<1>5. FetchRaw(w) \/ FetchSummary(w) => Tasks /\ Own /\ Verdicts
  BY <1>2, <1>3 DEF FetchRaw, FetchSummary
<1>6. WriteSummary(w) \/ MarkParsed(w) => Tasks /\ Own /\ Verdicts
  BY <1>2, <1>3 DEF WriteSummary, MarkParsed
<1>7. SelectErrors(w) \/ InsertErrors(w) => Tasks /\ Own /\ Verdicts
  BY <1>2 DEF SelectErrors, InsertErrors
<1>8. FetchFails(w) \/ StoreFails(w) => Tasks /\ Own /\ Verdicts
  BY <1>2, <1>3 DEF FetchFails, StoreFails
<1>9. Crash(w) => Tasks /\ Own /\ Verdicts
  <2>1. Crash(w) => queue' = [queue EXCEPT ![held[w]] = queue[held[w]] + 1] /\ Release(w) /\ status' = status
    BY DEF Crash
  <2>2. queue' = [queue EXCEPT ![held[w]] = queue[held[w]] + 1] => Tasks
    BY <1>0 DEF TypeOK
  <2> QED BY <1>1, <2>1, <2>2
<1> QED BY <1>4, <1>5, <1>6, <1>7, <1>8, <1>9 DEF Step, WorkerStep

\* Whether a task of another log waits does not change.
LEMMA OthersWait ==
    ASSUME NEW w \in Workers, NEW l, NEW k, k # l,
           \A u \in Task : u.log # l => queue'[u] = queue[u],
           \A v \in Workers \ {w} : pc'[v] = pc[v] /\ held'[v] = held[v],
           pc[w] # "idle" => held[w].log = l,
           pc'[w] # "idle" => held'[w].log = l
    PROVE  Waits(k)' <=> Waits(k)
<1>1. (\E t \in Task : t.log = k /\ queue'[t] > 0) <=> (\E t \in Task : t.log = k /\ queue[t] > 0)
  OBVIOUS
<1>2. (\E v \in Workers : pc'[v] # "idle" /\ held'[v].log = k)
      <=> (\E v \in Workers : pc[v] # "idle" /\ held[v].log = k)
  OBVIOUS
<1> QED BY <1>1, <1>2 DEF Waits, TheLog

\* A worker's step is work on one log, of which a task waits.
LEMMA StepWorksOn ==
    ASSUME TypeOK, NEW w \in Workers, Step(w)
    PROVE  \E l \in Log : /\ Waits(l)
                          /\ \A k \in Log \ {l} : (Waits(k)' <=> Waits(k)) /\ status'[k] = status[k]
<1>0. \A v \in Workers \ {w} : pc'[v] = pc[v] /\ held'[v] = held[v]
  BY OnlyThisWorker
<1>1. CASE pc[w] # "idle"
  <2> DEFINE l == held[w].log
  <2>1. l \in Log /\ TheLog(w) = l
    BY <1>1, TaskTypes DEF TheLog
  <2>2. Waits(l)
    BY <1>1, <2>1 DEF Waits
  <2>3. /\ \A u \in Task : u.log # l => queue'[u] = queue[u]
        /\ pc'[w] # "idle" => held'[w].log = l
        /\ \A k \in Log \ {l} : status'[k] = status[k]
    BY <1>1, <2>1, OwnLogOnly
  <2> HIDE DEF l
  <2>4. held[w].log = l
    BY DEF l
  <2>5. \A k \in Log \ {l} : Waits(k)' <=> Waits(k)
    BY <1>0, <2>3, <2>4, OthersWait
  <2> QED BY <2>1, <2>2, <2>3, <2>5
<1>2. CASE pc[w] = "idle"
  <2>1. PICK t \in Task : Take(w, t)
    BY <1>2 DEF Step, WorkerStep, FetchRaw, FetchSummary, WriteSummary, SelectErrors, InsertErrors,
                MarkParsed, FetchFails, StoreFails, Crash
  <2>2. t.log \in Log /\ Waits(t.log)
    BY <2>1 DEF Take, Task, Waits
  <2>3. \A u \in Task : u.log # t.log => queue'[u] = queue[u]
    BY <2>1 DEF Take, TypeOK
  <2>4. pc'[w] # "idle" => held'[w].log = t.log
    <3>1. pc'[w] # pc[w] => held' = [held EXCEPT ![w] = t]
      BY <2>1 DEF Take, Hold, workerVars
    <3> QED BY <1>2, <3>1 DEF TypeOK
  <2>5. \A k \in Log \ {t.log} : Waits(k)' <=> Waits(k)
    BY <1>0, <1>2, <2>3, <2>4, OthersWait
  <2>6. status' = status
    BY <2>1 DEF Take
  <2> QED BY <2>2, <2>5, <2>6
<1> QED BY <1>1, <1>2

\* A verdict is not taken back to PENDING.
LEMMA VerdictStays ==
    ASSUME TypeOK, NEW w \in Workers, Step(w), NEW l \in Log, status[l] # "pending"
    PROVE  status'[l] # "pending"
<1>1. \A new \in LogStatus \ {"pending"} : UpdateStatus(w, new) => status'[l] # "pending"
  BY DEF UpdateStatus, TypeOK
<1>2. \A t \in Task : Take(w, t) => status'[l] # "pending"
  BY DEF Take
<1>3. FetchRaw(w) \/ FetchSummary(w) => status'[l] # "pending"
  BY <1>1 DEF FetchRaw, FetchSummary, LogStatus
<1>4. WriteSummary(w) \/ MarkParsed(w) => status'[l] # "pending"
  BY <1>1 DEF WriteSummary, MarkParsed, LogStatus
<1>5. SelectErrors(w) \/ InsertErrors(w) \/ StoreFails(w) \/ Crash(w) => status'[l] # "pending"
  BY DEF SelectErrors, InsertErrors, StoreFails, Crash
<1>6. FetchFails(w) => status'[l] # "pending"
  BY <1>1 DEF FetchFails, LogStatus
<1> QED BY <1>2, <1>3, <1>4, <1>5, <1>6 DEF Step, WorkerStep

\* Whatever the number of logs, workers, retries, failures and restarts, the
\* parsers implement LogVerdicts: each of their steps works on one log of which a
\* task waits, and leaves a verdict that is there.
THEOREM ParsersImplementVerdicts == Spec => VerdictsKept
<1> DEFINE waiting == {l \in Log : Waits(l)}
           done == {l \in Log : status[l] # "pending"}
<1>1. Init => LV!VerdictsInit
  BY DEF Init, LV!VerdictsInit, Waits
<1>2. ASSUME TypeOK, NEW w \in Workers, Step(w) PROVE LV!VerdictsNext
  <2>1. PICK l \in Log : /\ Waits(l)
                         /\ \A k \in Log \ {l} : (Waits(k)' <=> Waits(k)) /\ status'[k] = status[k]
    BY <1>2, StepWorksOn
  <2>2. l \in waiting
    BY <2>1
  <2>3. waiting' \in {waiting, waiting \ {l}}
    BY <2>1
  <2>4. status[l] # "pending" => status'[l] # "pending"
    BY <1>2, VerdictStays
  <2>5. done' \in {done, done \cup {l}}
    BY <2>1, <2>4
  <2> QED BY <2>2, <2>3, <2>5 DEF LV!VerdictsNext, LV!WorkOn
<1>3. ASSUME TypeOK, NEW l \in Log, Schedule(l) PROVE LV!VerdictsNext
  <2> DEFINE first == [log |-> l, retries |-> 0]
  <2>1. first \in Task /\ first.log = l
    BY DEF Task
  <2>2. queue' = [queue EXCEPT ![first] = queue[first] + 1] /\ UNCHANGED <<status, pc, held>>
    BY <1>3 DEF Schedule, workerVars
  <2> HIDE DEF first
  <2>3. /\ queue'[first] > 0
        /\ \A t \in Task : t.log # l => queue'[t] = queue[t]
        /\ \A t \in Task : queue[t] > 0 => queue'[t] > 0
    BY <1>3, <2>1, <2>2 DEF TypeOK
  <2>4. \A k \in Log : Waits(k)' <=> Waits(k) \/ k = l
    BY <2>1, <2>2, <2>3 DEF Waits, TheLog
  <2>5. waiting' = waiting \cup {l} /\ done' = done
    BY <2>2, <2>4
  <2> QED BY <2>5 DEF LV!VerdictsNext, LV!ScheduleLogs
<1>4. ASSUME UNCHANGED vars PROVE UNCHANGED <<waiting, done>>
  BY <1>4 DEF Waits, TheLog, vars, workerVars
<1>5. TypeOK /\ [Next]_vars => [LV!VerdictsNext]_<<waiting, done>>
  BY <1>2, <1>3, <1>4 DEF Next, Step
<1> QED BY <1>1, <1>5, ParsingTypeCorrect, PTL DEF Spec, VerdictsKept, LV!VerdictsSpec
=============================================================================
