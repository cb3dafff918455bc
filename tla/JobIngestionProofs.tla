------------------------- MODULE JobIngestionProofs -------------------------
(* Theorems about JobIngestion, for every value of its constants.          *)
EXTENDS JobIngestion, TLAPS

USE BoundsAssumption, TaskAssumption, NoMessageAssumption

\* What a step of a worker relies on: the job it is storing.
LEMMA WorkerTypes ==
    ASSUME TypeOK, NEW w \in Workers, pc[w] # "idle"
    PROVE  /\ held[w] \in Envelope
           /\ held[w].event \in Event
           /\ Target(w) \in Guid
           /\ Incoming(w) \in Row
           /\ Incoming(w).state \in {"pending", "running", "completed"}
<1>1. held[w] \in Envelope /\ Reported(held[w].event)
  BY DEF TypeOK, HeldOK
<1>2. held[w].event \in Event
  BY <1>1 DEF Envelope
<1>3. held[w].event.guid \in Guid /\ held[w].event.guid.run \in 0..MaxRun
  BY <1>2 DEF Event, Guid
<1>4. stage[w] = "rerun" => held[w].event.guid.run > 0
  BY DEF TypeOK, HeldOK
<1>5. Target(w) \in Guid
  BY <1>3, <1>4 DEF Target, Prev, Guid
<1>6. held[w].event.type \in EventType \ {"createdException"}
  BY <1>1, <1>2 DEF Event, Reported
<1>7. Incoming(w) \in Row /\ Incoming(w).state \in {"pending", "running", "completed"}
  BY <1>6 DEF Incoming, RerunJob, EventJob, StateFromRun, ResultFromRun, EventType,
     Row, JL!Job, JL!States, JL!Results
<1> QED BY <1>1, <1>2, <1>5, <1>7

----------------------------------------------------------------------------
(* Type correctness.                                                       *)

\* The part of TypeOK about the workers' own variables.
WorkerVarsOK ==
    /\ pc \in [Workers -> PC]
    /\ held \in [Workers -> Envelope \cup {NoMessage}]
    /\ stage \in [Workers -> {"event", "rerun"}]
    /\ toParse \in [Workers -> SUBSET LogName]
    /\ HeldOK

\* TypeOK covers the workers' own variables.
LEMMA WorkerVarsTyped == TypeOK => WorkerVarsOK
BY DEF TypeOK, WorkerVarsOK

\* A worker that goes to another statement of the same job.
LEMMA GotoTypes ==
    ASSUME TypeOK, NEW w \in Workers, pc[w] # "idle",
           NEW label \in PC \ {"idle"}, Goto(w, label),
           UNCHANGED <<held, stage>>, toParse' \in [Workers -> SUBSET LogName]
    PROVE  WorkerVarsOK'
<1>1. pc' \in [Workers -> PC] /\ held' = held /\ stage' = stage
  BY DEF TypeOK, Goto
<1>2. \A v \in Workers : pc'[v] = "idle" <=> pc[v] = "idle"
  BY DEF TypeOK, Goto
<1>3. HeldOK'
  BY <1>1, <1>2 DEF TypeOK, HeldOK
<1> QED BY <1>1, <1>3 DEF TypeOK, WorkerVarsOK

\* A worker that lets its message go.
LEMMA ReleaseTypes ==
    ASSUME TypeOK, NEW w \in Workers, Release(w)
    PROVE  WorkerVarsOK'
<1>1. /\ pc' = [pc EXCEPT ![w] = "idle"]
      /\ held' = [held EXCEPT ![w] = NoMessage]
      /\ stage' = [stage EXCEPT ![w] = "event"]
      /\ toParse' = [toParse EXCEPT ![w] = {}]
  BY DEF Release, Goto
<1>2. /\ pc' \in [Workers -> PC]
      /\ held' \in [Workers -> Envelope \cup {NoMessage}]
      /\ stage' \in [Workers -> {"event", "rerun"}]
      /\ toParse' \in [Workers -> SUBSET LogName]
  BY <1>1 DEF TypeOK, PC
<1>3. HeldOK'
  BY <1>1 DEF TypeOK, HeldOK
<1> QED BY <1>2, <1>3 DEF WorkerVarsOK

\* A worker that has finished with a job.
LEMMA NextJobTypes ==
    ASSUME TypeOK, NEW w \in Workers, pc[w] # "idle", NextJob(w)
    PROVE  WorkerVarsOK' /\ acked' \subseteq Event
<1>1. CASE stage[w] = "rerun"
  <2>1. /\ pc' = [pc EXCEPT ![w] = "validate"]
        /\ stage' = [stage EXCEPT ![w] = "event"]
        /\ toParse' = [toParse EXCEPT ![w] = {}]
        /\ held' = held /\ acked' = acked
    BY <1>1 DEF NextJob, Goto
  <2>2. HeldOK'
    BY <2>1 DEF TypeOK, HeldOK
  <2> QED BY <2>1, <2>2 DEF TypeOK, WorkerVarsOK, PC
<1>2. CASE stage[w] # "rerun"
  <2>1. Release(w) /\ acked' = acked \cup {held[w].event}
    BY <1>2 DEF NextJob, Ack
  <2> QED BY <2>1, ReleaseTypes, WorkerTypes DEF TypeOK
<1> QED BY <1>1, <1>2

\* A worker that gives its message back, or up.
LEMMA RetryTypes ==
    ASSUME TypeOK, NEW w \in Workers, pc[w] # "idle", Retry(w)
    PROVE  /\ WorkerVarsOK'
           /\ queue' \in [Envelope -> Nat]
           /\ exhausted' \subseteq Event
<1>1. Release(w)
  BY DEF Retry, GiveUp
<1>2. held[w] \in Envelope /\ held[w].event \in Event
  BY WorkerTypes
<1>3. CASE held[w].retries < MaxRetries
  <2> DEFINE m == [held[w] EXCEPT !.retries = held[w].retries + 1]
  <2>1. queue' = [queue EXCEPT ![m] = queue[m] + 1] /\ exhausted' = exhausted
    BY <1>3 DEF Retry
  <2>2. m \in Envelope
    BY <1>2, <1>3 DEF Envelope
  <2> QED BY <1>1, <2>1, <2>2, ReleaseTypes DEF TypeOK
<1>4. CASE ~(held[w].retries < MaxRetries)
  BY <1>1, <1>2, <1>4, ReleaseTypes DEF TypeOK, Retry, GiveUp
<1> QED BY <1>3, <1>4

\* A worker whose message failed.
LEMMA GiveUpTypes ==
    ASSUME TypeOK, NEW w \in Workers, pc[w] # "idle", GiveUp(w)
    PROVE  /\ WorkerVarsOK'
           /\ queue' \in [Envelope -> Nat]
           /\ exhausted' \subseteq Event
BY ReleaseTypes, WorkerTypes DEF GiveUp, TypeOK

\* All variables but the workers' own.
SharedOK ==
    /\ published \subseteq Event /\ pulse \subseteq Event
    /\ forwarding \in Event \cup {NoMessage}
    /\ pushed \subseteq Tasks
    /\ queue \in [Envelope -> Nat]
    /\ job \in [Guid -> Row]
    /\ metadata \subseteq Guid
    /\ logs \in [Guid -> [LogName -> LogStatus]]
    /\ parseQueue \subseteq ParseTask
    /\ acked \subseteq Event /\ exhausted \subseteq Event
    /\ lost \subseteq [event: Event, guid: Guid]
    /\ cut \subseteq Guid /\ contested \subseteq Guid
    /\ crashes \in Nat /\ errors \in Nat

\* TypeOK is its two parts.
LEMMA TypeOKParts == TypeOK <=> WorkerVarsOK /\ SharedOK
BY DEF TypeOK, WorkerVarsOK, SharedOK

\* The same of the next state.
LEMMA TypeOKPartsNext == WorkerVarsOK' /\ SharedOK' => TypeOK'
BY DEF TypeOK, WorkerVarsOK, SharedOK

\* The empty system is well typed.
LEMMA InitTypes == Init => TypeOK
<1> SUFFICES ASSUME Init PROVE TypeOK
  OBVIOUS
<1>1. WorkerVarsOK
  BY DEF Init, WorkerVarsOK, HeldOK, PC
<1>2. NoJob \in Row
  BY DEF NoJob, JL!NoJob, Row, JL!Job, JL!States, JL!Results
<1>3. SharedOK
  BY <1>2 DEF Init, SharedOK, LogStatus
<1> QED BY <1>1, <1>3, TypeOKParts

\* Steps in which no worker takes part.
LEMMA OtherStepsTypes ==
    TypeOK /\ (Environment \/ Listener) => TypeOK'
<1> SUFFICES ASSUME TypeOK, Environment \/ Listener PROVE TypeOK'
  OBVIOUS
<1>1. ASSUME NEW e \in Event, Announce(e) PROVE TypeOK'
  BY <1>1 DEF TypeOK, Announce, workerVars, tableVars, outcomeVars, historyVars, HeldOK
<1>2. ASSUME NEW t \in Tasks, StorePush(t) PROVE TypeOK'
  BY <1>2 DEF TypeOK, StorePush, sourceVars, workerVars, tableVars, outcomeVars, historyVars, HeldOK
<1>3. ASSUME NEW p \in ParseTask, ParseLog(p) PROVE TypeOK'
  <2>1. p.guid \in Guid /\ p.name \in LogName
    BY DEF ParseTask
  <2>2. PICK verdict \in {"done", "left"} :
           logs' = [logs EXCEPT ![p.guid] = [logs[p.guid] EXCEPT ![p.name] = verdict]]
    BY <1>3 DEF ParseLog
  <2>3. logs' \in [Guid -> [LogName -> LogStatus]]
    BY <2>1, <2>2 DEF TypeOK, LogStatus
  <2> QED BY <1>3, <2>3 DEF TypeOK, ParseLog, sourceVars, workerVars, outcomeVars, historyVars, HeldOK
<1>4. ASSUME NEW e \in Event, ListenerForward(e) PROVE TypeOK'
  <2>1. [event |-> e, retries |-> 0] \in Envelope
    BY DEF Envelope
  <2>2. queue' \in [Envelope -> Nat]
    BY <1>4, <2>1 DEF TypeOK, ListenerForward
  <2> QED BY <1>4, <2>2 DEF TypeOK, ListenerForward, workerVars, tableVars, outcomeVars, historyVars, HeldOK
<1>5. CASE ListenerAck
  BY <1>5 DEF TypeOK, ListenerAck, workerVars, tableVars, outcomeVars, historyVars, HeldOK
<1>6. CASE ListenerCrash
  BY <1>6 DEF TypeOK, ListenerCrash, workerVars, tableVars, outcomeVars, historyVars, HeldOK
<1> QED BY <1>1, <1>2, <1>3, <1>4, <1>5, <1>6 DEF Environment, Listener

\* Every statement a worker runs, and each way it may fail.
LEMMA WorkerStepTypes ==
    ASSUME TypeOK, NEW w \in Workers, Worker(w)
    PROVE  TypeOK'
<1> USE DEF sourceVars, tableVars, outcomeVars, historyVars
<1>0. TypeOK => SharedOK
  BY TypeOKParts
<1>1. ASSUME NEW m \in Envelope, Fetch(w, m) PROVE TypeOK'
  <2>1. queue' \in [Envelope -> Nat]
    BY <1>1 DEF Fetch, TypeOK
  <2>2. m.event \in Event
    BY DEF Envelope
  <2>3. WorkerVarsOK' /\ acked' \subseteq Event
    <3>1. CASE m.event.guid.task \in Rejected \/ ~Reported(m.event)
      BY <1>1, <2>2, <3>1 DEF Fetch, workerVars, TypeOK, WorkerVarsOK, HeldOK
    <3>2. CASE ~(m.event.guid.task \in Rejected \/ ~Reported(m.event))
      <4>1. /\ held' = [held EXCEPT ![w] = m]
            /\ stage' = [stage EXCEPT ![w] = IF m.event.guid.run > 0 THEN "rerun" ELSE "event"]
            /\ pc' = [pc EXCEPT ![w] = "validate"]
            /\ toParse' = toParse /\ acked' = acked /\ Reported(m.event)
        BY <1>1, <3>2 DEF Fetch, Goto
      <4>2. HeldOK'
        BY <4>1 DEF TypeOK, HeldOK
      <4> QED BY <4>1, <4>2 DEF TypeOK, WorkerVarsOK, PC
    <3> QED BY <3>1, <3>2
  <2>4. SharedOK'
    BY <1>0, <1>1, <2>1, <2>3 DEF Fetch, SharedOK
  <2> QED BY <2>3, <2>4, TypeOKPartsNext
<1>2. CASE ValidateRevision(w)
  <2>1. WorkerVarsOK' /\ queue' \in [Envelope -> Nat] /\ exhausted' \subseteq Event
    <3>1. CASE held[w].event.guid.task \in pushed
      BY <1>2, <3>1, GotoTypes DEF ValidateRevision, TypeOK, PC
    <3>2. CASE held[w].event.guid.task \notin pushed
      BY <1>2, <3>2, RetryTypes DEF ValidateRevision
    <3> QED BY <3>1, <3>2
  <2>9. SharedOK'
    BY <1>0, <1>2, <2>1 DEF ValidateRevision, SharedOK
  <2> QED BY <2>9, <2>1, TypeOKPartsNext
<1>3. CASE RemoveExistingJobs(w)
  <2>1. WorkerVarsOK' /\ acked' \subseteq Event
    <3>1. CASE NextJob(w)
      BY <1>3, <3>1, NextJobTypes DEF RemoveExistingJobs
    <3>2. CASE Goto(w, "create") /\ UNCHANGED <<held, stage, toParse, acked>>
      BY <1>3, <3>2, GotoTypes DEF RemoveExistingJobs, TypeOK, PC
    <3> QED BY <1>3, <3>1, <3>2 DEF RemoveExistingJobs
  <2>2. contested' \subseteq Guid
    BY <1>3, WorkerTypes DEF RemoveExistingJobs, TypeOK
  <2>9. SharedOK'
    BY <1>0, <1>3, <2>1, <2>2 DEF RemoveExistingJobs, SharedOK
  <2> QED BY <2>9, <2>1, TypeOKPartsNext
<1>4. CASE CreateJob(w)
  <2>1. WorkerVarsOK'
    BY <1>4, GotoTypes DEF CreateJob, TypeOK, PC
  <2>2. job' \in [Guid -> Row]
    BY <1>4, WorkerTypes DEF CreateJob, TypeOK
  <2>9. SharedOK'
    BY <1>0, <1>4, <2>1, <2>2 DEF CreateJob, SharedOK
  <2> QED BY <2>9, <2>1, TypeOKPartsNext
<1>5. CASE StoreMetadata(w)
  <2>1. WorkerVarsOK'
    BY <1>5, GotoTypes DEF StoreMetadata, TypeOK, PC
  <2>9. SharedOK'
    BY <1>0, <1>5, <2>1, WorkerTypes DEF StoreMetadata, SharedOK
  <2> QED BY <2>9, <2>1, TypeOKPartsNext
<1>6. CASE UpdateJob(w)
  <2>1. WorkerVarsOK'
    BY <1>6, GotoTypes DEF UpdateJob, TypeOK, PC
  <2>2. job' \in [Guid -> Row]
    BY <1>6, WorkerTypes DEF UpdateJob, TypeOK
  <2>9. SharedOK'
    BY <1>0, <1>6, <2>1, <2>2 DEF UpdateJob, SharedOK
  <2> QED BY <2>9, <2>1, TypeOKPartsNext
<1>7. CASE StoreLogs(w)
  <2>1. PICK refs \in LogRefs(w) :
          /\ logs' = [logs EXCEPT ![Target(w)] =
                         [n \in LogName |-> IF n \in refs /\ logs[Target(w)][n] = "none"
                                            THEN "pending" ELSE logs[Target(w)][n]]]
          /\ toParse' = [toParse EXCEPT ![w] =
                            {n \in refs : logs[Target(w)][n] # "done"}]
    BY <1>7 DEF StoreLogs
  <2>2. refs \subseteq LogName
    BY <2>1 DEF LogRefs, LogName
  <2>3. toParse' \in [Workers -> SUBSET LogName]
    BY <2>1, <2>2 DEF TypeOK
  <2>4. logs' \in [Guid -> [LogName -> LogStatus]]
    BY <1>7, <2>1, WorkerTypes DEF TypeOK, LogStatus, StoreLogs
  <2>5. WorkerVarsOK'
    BY <1>7, <2>3, GotoTypes DEF StoreLogs, PC
  <2>9. SharedOK'
    BY <1>0, <1>7, <2>4, <2>5 DEF StoreLogs, SharedOK
  <2> QED BY <2>9, <2>5, TypeOKPartsNext
<1>8. CASE ScheduleLogParsing(w)
  <2>1. WorkerVarsOK' /\ acked' \subseteq Event
    BY <1>8, NextJobTypes DEF ScheduleLogParsing
  <2>2. Target(w) \in Guid /\ toParse[w] \subseteq LogName
    BY <1>8, WorkerTypes DEF ScheduleLogParsing, TypeOK
  <2>3. parseQueue' \subseteq ParseTask
    BY <1>8, <2>2 DEF ScheduleLogParsing, TypeOK, ParseTask
  <2>9. SharedOK'
    BY <1>0, <1>8, <2>1, <2>3 DEF ScheduleLogParsing, SharedOK
  <2> QED BY <2>9, <2>1, TypeOKPartsNext
<1>9. CASE SkipJob(w) \/ LoadJobError(w)
  <2>0. DropJob(w) /\ pc[w] # "idle"
    BY <1>9 DEF SkipJob, LoadJobError
  <2>1. WorkerVarsOK' /\ acked' \subseteq Event
    BY <2>0, NextJobTypes DEF DropJob
  <2>2. held[w].event \in Event /\ Target(w) \in Guid
    BY <2>0, WorkerTypes
  <2>9. SharedOK'
    BY <1>0, <2>0, <2>1, <2>2 DEF DropJob, SharedOK, CutShort
  <2> QED BY <2>9, <2>1, TypeOKPartsNext
<1>10. CASE TaskError(w)
  <2>1. WorkerVarsOK' /\ queue' \in [Envelope -> Nat] /\ exhausted' \subseteq Event
    BY <1>10, RetryTypes, GiveUpTypes DEF TaskError
  <2>9. SharedOK'
    BY <1>0, <1>10, <2>1 DEF TaskError, SharedOK
  <2> QED BY <2>9, <2>1, TypeOKPartsNext
<1>11. CASE WorkerCrash(w)
  <2>1. WorkerVarsOK'
    BY <1>11, ReleaseTypes DEF WorkerCrash
  <2>2. queue' \in [Envelope -> Nat]
    BY <1>11, WorkerTypes DEF WorkerCrash, TypeOK
  <2>3. CutShort(w) \subseteq Guid
    BY <1>11, WorkerTypes DEF WorkerCrash, CutShort
  <2>9. SharedOK'
    BY <1>0, <1>11, <2>1, <2>2, <2>3 DEF WorkerCrash, SharedOK
  <2> QED BY <2>9, <2>1, TypeOKPartsNext
<1> QED BY <1>1, <1>2, <1>3, <1>4, <1>5, <1>6, <1>7, <1>8, <1>9, <1>10, <1>11
        DEF Worker, WorkerStep

\* Every variable keeps its type, whatever the number of tasks, runs, workers,
\* restarts and errors.
THEOREM TypeCorrect == Spec => []TypeOK
<1>1. Init => TypeOK
  BY InitTypes
<1>2. TypeOK /\ [Next]_vars => TypeOK'
  <2>1. CASE UNCHANGED vars
    BY <2>1 DEF TypeOK, HeldOK, vars, sourceVars, workerVars, tableVars, outcomeVars, historyVars
  <2> QED BY <2>1, OtherStepsTypes, WorkerStepTypes DEF Next
<1> QED BY <1>1, <1>2, PTL DEF Spec

----------------------------------------------------------------------------
(* A message is acknowledged only when all its jobs have a row.            *)

\* What a worker knows: the row it is at is there, and so is the row of the
\* previous run once the worker has gone on to the run itself.
RowsFound(w) ==
    /\ pc[w] \in {"metadata", "update", "logs", "schedule"} => job[Target(w)].state # "absent"
    /\ pc[w] # "idle" /\ stage[w] = "event" /\ held[w].event.guid.run > 0
         => \/ job[Prev(held[w].event.guid)].state # "absent"
            \/ Lost(held[w].event, Prev(held[w].event.guid))

RowInv == TypeOK /\ AckedJobsExist /\ \A w \in Workers : RowsFound(w)

\* A worker's step concerns no other worker.
LEMMA OnlyThisWorker ==
    ASSUME TypeOK, NEW w \in Workers, Worker(w), NEW v \in Workers, v # w
    PROVE  pc'[v] = pc[v] /\ held'[v] = held[v] /\ stage'[v] = stage[v]
<1> USE DEF TypeOK, Goto, Release, Ack, NextJob, Retry, GiveUp
<1>1. ASSUME NEW m \in Envelope, Fetch(w, m) PROVE pc'[v] = pc[v] /\ held'[v] = held[v] /\ stage'[v] = stage[v]
  BY <1>1 DEF Fetch, workerVars
<1>2. ValidateRevision(w) => pc'[v] = pc[v] /\ held'[v] = held[v] /\ stage'[v] = stage[v]
  BY DEF ValidateRevision
<1>3. RemoveExistingJobs(w) => pc'[v] = pc[v] /\ held'[v] = held[v] /\ stage'[v] = stage[v]
  BY DEF RemoveExistingJobs
<1>4. CreateJob(w) \/ StoreMetadata(w) \/ UpdateJob(w) \/ StoreLogs(w)
        => pc'[v] = pc[v] /\ held'[v] = held[v] /\ stage'[v] = stage[v]
  BY DEF CreateJob, StoreMetadata, UpdateJob, StoreLogs
<1>5. ScheduleLogParsing(w) \/ SkipJob(w) \/ LoadJobError(w)
        => pc'[v] = pc[v] /\ held'[v] = held[v] /\ stage'[v] = stage[v]
  BY DEF ScheduleLogParsing, SkipJob, LoadJobError, DropJob
<1>6. TaskError(w) \/ WorkerCrash(w) => pc'[v] = pc[v] /\ held'[v] = held[v] /\ stage'[v] = stage[v]
  BY DEF TaskError, WorkerCrash
<1> QED BY <1>1, <1>2, <1>3, <1>4, <1>5, <1>6 DEF Worker, WorkerStep

\* Only CreateJob and UpdateJob write the table.
LEMMA JobWrites ==
    ASSUME TypeOK, NEW w \in Workers, Worker(w)
    PROVE  \/ job' = job
           \/ CreateJob(w) /\ job[Target(w)].state = "absent"
              /\ job' = [job EXCEPT ![Target(w)] = Incoming(w)]
           \/ UpdateJob(w) /\ job' = [job EXCEPT ![Target(w)] = Incoming(w)]
BY DEF Worker, WorkerStep, tableVars, Fetch, ValidateRevision, RemoveExistingJobs, CreateJob,
       StoreMetadata, UpdateJob, StoreLogs, ScheduleLogParsing, SkipJob, LoadJobError, DropJob, TaskError,
       WorkerCrash

\* No row disappears.
LEMMA RowsStay ==
    ASSUME TypeOK, NEW w \in Workers, Worker(w), NEW g \in Guid, job[g].state # "absent"
    PROVE  job'[g].state # "absent"
<1>1. CASE job' = job
  BY <1>1
<1>2. CASE CreateJob(w) /\ job' = [job EXCEPT ![Target(w)] = Incoming(w)]
  BY <1>2, WorkerTypes DEF CreateJob, TypeOK
<1>3. CASE UpdateJob(w) /\ job' = [job EXCEPT ![Target(w)] = Incoming(w)]
  BY <1>3, WorkerTypes DEF UpdateJob, TypeOK
<1> QED BY <1>1, <1>2, <1>3, JobWrites

\* What is lost, cut short or contested stays so.
LEMMA LostStays ==
    ASSUME NEW w \in Workers, Worker(w)
    PROVE  lost \subseteq lost' /\ cut \subseteq cut' /\ contested \subseteq contested'
BY DEF Worker, WorkerStep, outcomeVars, historyVars, Fetch, ValidateRevision, RemoveExistingJobs, CreateJob,
       StoreMetadata, UpdateJob, StoreLogs, ScheduleLogParsing, SkipJob, LoadJobError, DropJob, TaskError,
       WorkerCrash

\* The jobs of a message are runs of its task: its own, or the one before.
LEMMA JobsOfTypes ==
    ASSUME NEW e \in Event
    PROVE  /\ JobsOf(e) \subseteq {g \in Guid : g.task = e.guid.task}
           /\ JobsOf(e) \subseteq {e.guid, Prev(e.guid)}
           /\ \A g \in JobsOf(e) : g = e.guid \/ e.guid.run > 0
BY DEF JobsOf, Event, Guid, Prev

\* A row that makes _remove_existing_jobs drop the job at hand.
Filtered(w) ==
    \/ job[Target(w)].state = "completed"
    \/ Incoming(w).state = "pending" /\ job[Target(w)].state = "running"

\* An exception drops the job at hand.
LostNext(e, g) == [event |-> e, guid |-> g] \in lost'
Dropped(w) == LostNext(held[w].event, Target(w))

\* How a message comes to be acknowledged.
LEMMA AckStep ==
    ASSUME TypeOK, NEW w \in Workers, Worker(w)
    PROVE  \/ acked' = acked
           \/ \E e \in Event : JobsOf(e) = {} /\ acked' = acked \cup {e}
           \/ /\ pc[w] # "idle" /\ stage[w] = "event" /\ job' = job
              /\ acked' = acked \cup {held[w].event}
              /\ \/ Filtered(w)
                 \/ pc[w] = "schedule"
                 \/ Dropped(w)
<1> DEFINE Goal == \/ acked' = acked
                   \/ \E e \in Event : JobsOf(e) = {} /\ acked' = acked \cup {e}
                   \/ /\ pc[w] # "idle" /\ stage[w] = "event" /\ job' = job
                      /\ acked' = acked \cup {held[w].event}
                      /\ \/ Filtered(w)
                         \/ pc[w] = "schedule"
                         \/ Dropped(w)
<1>1. ASSUME NEW m \in Envelope, Fetch(w, m) PROVE Goal
  <2>1. m.event \in Event
    BY DEF Envelope
  <2>2. CASE m.event.guid.task \in Rejected \/ ~Reported(m.event)
    BY <1>1, <2>1, <2>2 DEF Fetch, JobsOf
  <2>3. CASE ~(m.event.guid.task \in Rejected \/ ~Reported(m.event))
    BY <1>1, <2>3 DEF Fetch
  <2> QED BY <2>2, <2>3
<1>2. ASSUME pc[w] # "idle", NextJob(w)
      PROVE acked' = acked \/ (stage[w] = "event" /\ acked' = acked \cup {held[w].event})
  BY <1>2 DEF NextJob, Ack, TypeOK
<1>3. CASE RemoveExistingJobs(w)
  <2>1. CASE Filtered(w)
    BY <1>2, <1>3, <2>1 DEF RemoveExistingJobs, Filtered, tableVars
  <2>2. CASE ~Filtered(w)
    BY <1>3, <2>2 DEF RemoveExistingJobs, Filtered
  <2> QED BY <2>1, <2>2
<1>4. CASE ScheduleLogParsing(w)
  BY <1>2, <1>4 DEF ScheduleLogParsing, tableVars
<1>5. CASE SkipJob(w) \/ LoadJobError(w)
  <2>1. DropJob(w) /\ pc[w] # "idle"
    BY <1>5 DEF SkipJob, LoadJobError
  <2> QED BY <1>2, <2>1 DEF DropJob, Dropped, LostNext, tableVars
<1>6. CASE ValidateRevision(w) \/ CreateJob(w) \/ StoreMetadata(w) \/ UpdateJob(w)
           \/ StoreLogs(w) \/ TaskError(w) \/ WorkerCrash(w)
  BY <1>6 DEF ValidateRevision, CreateJob, StoreMetadata, UpdateJob, StoreLogs, TaskError,
     WorkerCrash, outcomeVars, historyVars
<1>7. Goal
  BY <1>1, <1>3, <1>4, <1>5, <1>6 DEF Worker, WorkerStep
<1> QED BY <1>7

\* How a worker comes to the statements after CreateJob, and to the run after
\* the previous run.
LEMMA StageStep ==
    ASSUME TypeOK, NEW w \in Workers, Worker(w)
    PROVE  /\ pc'[w] \in {"metadata", "update", "logs", "schedule"} =>
                /\ held'[w] = held[w] /\ stage'[w] = stage[w]
                /\ CreateJob(w) \/ pc[w] \in {"metadata", "update", "logs", "schedule"}
           /\ pc'[w] # "idle" /\ stage'[w] = "event" /\ held'[w].event.guid.run > 0 =>
                /\ pc[w] # "idle" /\ held'[w] = held[w]
                /\ \/ stage[w] = "event"
                   \/ /\ stage[w] = "rerun"
                      /\ \/ Filtered(w)
                         \/ pc[w] = "schedule"
                         \/ Dropped(w)
<1> DEFINE A == pc'[w] \in {"metadata", "update", "logs", "schedule"} =>
                /\ held'[w] = held[w] /\ stage'[w] = stage[w]
                /\ CreateJob(w) \/ pc[w] \in {"metadata", "update", "logs", "schedule"}
           B == pc'[w] # "idle" /\ stage'[w] = "event" /\ held'[w].event.guid.run > 0 =>
                /\ pc[w] # "idle" /\ held'[w] = held[w]
                /\ \/ stage[w] = "event"
                   \/ /\ stage[w] = "rerun"
                      /\ \/ Filtered(w)
                         \/ pc[w] = "schedule"
                         \/ Dropped(w)
<1> USE DEF TypeOK
<1>1. ASSUME NEW m \in Envelope, Fetch(w, m) PROVE A /\ B
  <2>1. CASE m.event.guid.task \in Rejected \/ ~Reported(m.event)
    BY <1>1, <2>1 DEF Fetch, workerVars
  <2>2. CASE ~(m.event.guid.task \in Rejected \/ ~Reported(m.event))
    BY <1>1, <2>2 DEF Fetch, Goto
  <2> QED BY <2>1, <2>2
<1>2. ASSUME NextJob(w) PROVE /\ pc'[w] \in {"idle", "validate"}
                              /\ pc'[w] # "idle" => held'[w] = held[w] /\ stage[w] = "rerun"
  BY <1>2 DEF NextJob, Ack, Release, Goto
<1>3. ASSUME Release(w) PROVE pc'[w] = "idle"
  BY <1>3 DEF Release, Goto
<1>4. CASE ValidateRevision(w)
  BY <1>3, <1>4 DEF ValidateRevision, Retry, GiveUp, Goto
<1>5. CASE RemoveExistingJobs(w)
  <2>1. CASE Filtered(w)
    BY <1>2, <1>5, <2>1 DEF RemoveExistingJobs, Filtered
  <2>2. CASE ~Filtered(w)
    BY <1>5, <2>2 DEF RemoveExistingJobs, Filtered, Goto
  <2> QED BY <2>1, <2>2
<1>6. CASE CreateJob(w) \/ StoreMetadata(w) \/ UpdateJob(w) \/ StoreLogs(w)
  BY <1>6 DEF CreateJob, StoreMetadata, UpdateJob, StoreLogs, Goto
<1>7. CASE ScheduleLogParsing(w)
  BY <1>2, <1>7 DEF ScheduleLogParsing
<1>8. CASE SkipJob(w) \/ LoadJobError(w)
  BY <1>2, <1>8 DEF SkipJob, LoadJobError, DropJob, Dropped, LostNext
<1>9. CASE TaskError(w) \/ WorkerCrash(w)
  BY <1>3, <1>9 DEF TaskError, Retry, GiveUp, WorkerCrash
<1>10. A /\ B
  BY <1>1, <1>4, <1>5, <1>6, <1>7, <1>8, <1>9 DEF Worker, WorkerStep
<1> QED BY <1>10

\* Steps of Taskcluster, the listener and the log parsers leave alone what the
\* invariants are about.
LEMMA OtherStepsFrame ==
    ASSUME Environment \/ Listener \/ UNCHANGED vars
    PROVE  UNCHANGED <<pc, held, stage, job, acked, historyVars>>
BY DEF Environment, Listener, Announce, StorePush, ParseLog, ListenerForward, ListenerAck,
       ListenerCrash, workerVars, tableVars, outcomeVars, historyVars, vars

\* Every step keeps the types.
LEMMA TypeStep == TypeOK /\ [Next]_vars => TypeOK'
<1>1. CASE UNCHANGED vars
  BY <1>1 DEF TypeOK, HeldOK, vars, sourceVars, workerVars, tableVars, outcomeVars, historyVars
<1> QED BY <1>1, OtherStepsTypes, WorkerStepTypes DEF Next

\* A worker's step keeps the rows of what was acknowledged, and of what every
\* worker is at.
LEMMA WorkerRowStep ==
    ASSUME RowInv, NEW w \in Workers, Worker(w)
    PROVE  AckedJobsExist' /\ \A v \in Workers : RowsFound(v)'
<1> USE DEF RowInv
<1>1. \A g \in Guid : job[g].state # "absent" => job'[g].state # "absent"
  BY RowsStay
<1>2. lost \subseteq lost'
  BY LostStays
<1>3. TypeOK'
  BY WorkerStepTypes
<1>4. ASSUME pc[w] # "idle",
             Filtered(w) \/ pc[w] = "schedule" \/ Dropped(w)
      PROVE  job'[Target(w)].state # "absent" \/ Dropped(w)
  <2>1. Filtered(w) => job[Target(w)].state # "absent"
    BY <1>4, WorkerTypes DEF Filtered
  <2>2. pc[w] = "schedule" => job[Target(w)].state # "absent"
    BY DEF RowsFound
  <2> QED BY <1>1, <1>4, <2>1, <2>2, WorkerTypes
<1>5. ASSUME NEW v \in Workers, v # w PROVE RowsFound(v)'
  <2>1. pc'[v] = pc[v] /\ held'[v] = held[v] /\ stage'[v] = stage[v]
    BY <1>5, OnlyThisWorker
  <2>2. Target(v)' = Target(v)
    BY <2>1 DEF Target
  <2>3. pc[v] # "idle" => Target(v) \in Guid /\ held[v].event \in Event
    BY WorkerTypes
  <2>4. pc[v] # "idle" /\ held[v].event.guid.run > 0 => Prev(held[v].event.guid) \in Guid
    BY <2>3 DEF Prev, Event, Guid
  <2> QED BY <1>1, <1>2, <2>1, <2>2, <2>3, <2>4 DEF RowsFound, Lost
<1>6. RowsFound(w)'
  <2>1. ASSUME pc'[w] \in {"metadata", "update", "logs", "schedule"}
        PROVE  job'[Target(w)'].state # "absent"
    <3>1. held'[w] = held[w] /\ stage'[w] = stage[w]
      BY <2>1, StageStep
    <3>2. Target(w)' = Target(w)
      BY <3>1 DEF Target
    <3>3. CASE CreateJob(w)
      <4>1. pc[w] # "idle"
        BY <3>3 DEF CreateJob
      <4>2. CASE job[Target(w)].state = "absent"
        BY <3>2, <3>3, <4>1, <4>2, WorkerTypes DEF CreateJob, TypeOK
      <4>3. CASE job[Target(w)].state # "absent"
        BY <1>1, <3>2, <4>1, <4>3, WorkerTypes
      <4> QED BY <4>2, <4>3
    <3>4. CASE pc[w] \in {"metadata", "update", "logs", "schedule"}
      BY <1>1, <3>2, <3>4, WorkerTypes DEF RowsFound
    <3> QED BY <2>1, <3>3, <3>4, StageStep
  <2>2. ASSUME pc'[w] # "idle", stage'[w] = "event", held'[w].event.guid.run > 0
        PROVE  \/ job'[Prev(held'[w].event.guid)].state # "absent"
               \/ LostNext(held'[w].event, Prev(held'[w].event.guid))
    <3>1. pc[w] # "idle" /\ held'[w] = held[w]
      BY <2>2, StageStep
    <3>2. held[w].event \in Event /\ Prev(held[w].event.guid) \in Guid
      BY <2>2, <3>1, WorkerTypes DEF Event, Guid, Prev
    <3>3. CASE stage[w] = "event"
      BY <1>1, <1>2, <2>2, <3>1, <3>2, <3>3 DEF RowsFound, Lost, LostNext
    <3>4. CASE stage[w] = "rerun"
      <4>1. Target(w) = Prev(held[w].event.guid)
        BY <3>4 DEF Target
      <4> QED BY <1>4, <2>2, <3>1, <3>4, <4>1, StageStep DEF Dropped, LostNext, Lost
    <3> QED BY <2>2, <3>3, <3>4, StageStep
  <2> QED BY <2>1, <2>2 DEF RowsFound, Lost, LostNext, Prev
<1>7. AckedJobsExist'
  <2> SUFFICES ASSUME NEW e \in acked', NEW g \in JobsOf(e), ~Lost(e, g)'
               PROVE  job'[g].state # "absent"
    BY DEF AckedJobsExist, JobsOf, Reported, Prev
  <2>1. e \in Event
    BY <1>3 DEF TypeOK
  <2>2. g \in Guid
    BY <2>1, JobsOfTypes
  <2>3. CASE e \in acked
    BY <1>1, <1>2, <2>2, <2>3 DEF AckedJobsExist, Lost
  <2>4. CASE e \notin acked
    <3>1. pc[w] # "idle" /\ stage[w] = "event" /\ e = held[w].event
      BY <2>4, AckStep
    <3>2. job'[e.guid].state # "absent" \/ Lost(e, e.guid)'
      <4>1. Filtered(w) \/ pc[w] = "schedule" \/ Dropped(w)
        BY <2>4, AckStep
      <4>2. Target(w) = e.guid
        BY <3>1 DEF Target
      <4> QED BY <1>4, <3>1, <4>1, <4>2 DEF Dropped, LostNext, Lost
    <3>3. CASE g = e.guid
      BY <3>2, <3>3
    <3>4. CASE g # e.guid
      <4>1. g = Prev(e.guid) /\ e.guid.run > 0
        BY <2>1, <3>4, JobsOfTypes
      <4> QED BY <1>1, <1>2, <2>2, <3>1, <4>1 DEF RowsFound, Lost
    <3> QED BY <3>3, <3>4
  <2> QED BY <2>3, <2>4
<1> QED BY <1>5, <1>6, <1>7

\* A message is acknowledged only when each job it stands for has a row or was
\* itself dropped: for any number of workers, restarts, duplicates and retries.
THEOREM AckedJobsExistCorrect == Spec => []AckedJobsExist
<1>1. Init => RowInv
  <2> SUFFICES ASSUME Init PROVE RowInv
    OBVIOUS
  <2> QED BY InitTypes DEF Init, RowInv, AckedJobsExist, RowsFound
<1>2. RowInv /\ [Next]_vars => RowInv'
  <2> SUFFICES ASSUME RowInv, [Next]_vars PROVE RowInv'
    OBVIOUS
  <2>1. TypeOK'
    BY TypeStep DEF RowInv
  <2>2. CASE Environment \/ Listener \/ UNCHANGED vars
    BY <2>1, <2>2, OtherStepsFrame
    DEF RowInv, AckedJobsExist, RowsFound, Target, JobsOf, Reported, Prev, Lost, historyVars
  <2>3. CASE \E w \in Workers : Worker(w)
    BY <2>1, <2>3, WorkerRowStep DEF RowInv
  <2> QED BY <2>2, <2>3 DEF Next
<1>3. RowInv => AckedJobsExist
  BY DEF RowInv
<1> QED BY <1>1, <1>2, <1>3, PTL DEF Spec

----------------------------------------------------------------------------
(* What belongs to a job follows its row, unless its storing is cut short.  *)

\* Whose work makes up for what a row still lacks.
MetadataComes(g) ==
    job[g].state # "absent" /\ g \notin metadata
        => \E w \in Workers : pc[w] = "metadata" /\ Target(w) = g
LogComes(g) ==
    job[g].result \in {"success", "fail"} /\ logs[g]["live_backing_log"] = "none"
        => \E w \in Workers : /\ pc[w] \in {"metadata", "update", "logs"} /\ stage[w] = "event"
                              /\ held[w].event.type \in {"completed", "failed"} /\ Target(w) = g
ParsingComes(g) ==
    \A n \in LogName : logs[g][n] = "pending" /\ [guid |-> g, name |-> n] \notin parseQueue
        => \E w \in Workers : pc[w] = "schedule" /\ Target(w) = g /\ n \in toParse[w]

KeptInv ==
    /\ RowInv
    /\ \A w \in Workers : pc[w] # "idle" => held[w].event.guid.task \notin Rejected
    /\ \A g \in Guid \ cut : MetadataComes(g) /\ LogComes(g) /\ ParsingComes(g)

\* A worker is at one of the jobs of its message.
LEMMA TargetIsJob ==
    ASSUME KeptInv, NEW w \in Workers, pc[w] # "idle"
    PROVE  Target(w) \in JobsOf(held[w].event)
<1>1. Reported(held[w].event) /\ (stage[w] = "rerun" => held[w].event.guid.run > 0)
  BY DEF KeptInv, RowInv, TypeOK, HeldOK
<1>2. held[w].event.guid.task \notin Rejected
  BY DEF KeptInv
<1> QED BY <1>1, <1>2 DEF JobsOf, Target

\* Nor do the logs that a worker is to schedule concern another.
LEMMA OthersToParse ==
    ASSUME TypeOK, NEW w \in Workers, Worker(w), NEW v \in Workers, v # w
    PROVE  toParse'[v] = toParse[v]
<1> USE DEF TypeOK, Release, Ack, NextJob, Retry, GiveUp
<1>1. ASSUME NEW m \in Envelope, Fetch(w, m) PROVE toParse'[v] = toParse[v]
  BY <1>1 DEF Fetch, workerVars
<1>2. ValidateRevision(w) \/ RemoveExistingJobs(w) => toParse'[v] = toParse[v]
  BY DEF ValidateRevision, RemoveExistingJobs
<1>3. CreateJob(w) \/ StoreMetadata(w) \/ UpdateJob(w) => toParse'[v] = toParse[v]
  BY DEF CreateJob, StoreMetadata, UpdateJob
<1>4. StoreLogs(w) => toParse'[v] = toParse[v]
  BY DEF StoreLogs
<1>5. ScheduleLogParsing(w) \/ SkipJob(w) \/ LoadJobError(w) => toParse'[v] = toParse[v]
  BY DEF ScheduleLogParsing, SkipJob, LoadJobError, DropJob
<1>6. TaskError(w) \/ WorkerCrash(w) => toParse'[v] = toParse[v]
  BY DEF TaskError, WorkerCrash
<1> QED BY <1>1, <1>2, <1>3, <1>4, <1>5, <1>6 DEF Worker, WorkerStep

\* A worker that is storing a job goes on, or the storing of the job is cut short.
LEMMA StoringStep ==
    ASSUME KeptInv, NEW w \in Workers, Worker(w),
           pc[w] \in {"metadata", "update", "logs", "schedule"}
    PROVE  \/ pc[w] = "metadata" /\ StoreMetadata(w)
           \/ pc[w] = "update" /\ UpdateJob(w)
           \/ pc[w] = "logs" /\ StoreLogs(w)
           \/ pc[w] = "schedule" /\ ScheduleLogParsing(w)
           \/ Target(w) \in cut'
<1>1. CASE LoadJobError(w) \/ WorkerCrash(w)
  BY <1>1 DEF LoadJobError, DropJob, WorkerCrash, CutShort
<1>2. CASE ~(LoadJobError(w) \/ WorkerCrash(w))
  BY <1>2 DEF Worker, WorkerStep, Fetch, ValidateRevision, RemoveExistingJobs, CreateJob,
     StoreMetadata, UpdateJob, StoreLogs, ScheduleLogParsing, SkipJob, TaskError
<1> QED BY <1>1, <1>2

\* What the logs of a job become.
LEMMA LogWrites ==
    ASSUME TypeOK, NEW w \in Workers, Worker(w), NEW g \in Guid, NEW n \in LogName
    PROVE  /\ parseQueue \subseteq parseQueue'
           /\ \/ /\ logs'[g][n] = logs[g][n]
                 /\ StoreLogs(w) /\ g = Target(w) /\ n \in toParse'[w] => logs[g][n] # "none"
              \/ /\ StoreLogs(w) /\ g = Target(w) /\ logs[g][n] = "none"
                 /\ logs'[g][n] = "pending" /\ n \in toParse'[w]
<1> DEFINE Goal == \/ /\ logs'[g][n] = logs[g][n]
                      /\ StoreLogs(w) /\ g = Target(w) /\ n \in toParse'[w] => logs[g][n] # "none"
                   \/ /\ StoreLogs(w) /\ g = Target(w) /\ logs[g][n] = "none"
                      /\ logs'[g][n] = "pending" /\ n \in toParse'[w]
<1>1. parseQueue \subseteq parseQueue'
  BY DEF Worker, WorkerStep, Fetch, ValidateRevision, RemoveExistingJobs, CreateJob, StoreMetadata,
     UpdateJob, StoreLogs, ScheduleLogParsing, SkipJob, LoadJobError, DropJob, TaskError, WorkerCrash
<1>2. ASSUME StoreLogs(w) PROVE Goal
  <2>1. PICK refs \in LogRefs(w) :
          /\ logs' = [logs EXCEPT ![Target(w)] =
                         [k \in LogName |-> IF k \in refs /\ logs[Target(w)][k] = "none"
                                            THEN "pending" ELSE logs[Target(w)][k]]]
          /\ toParse' = [toParse EXCEPT ![w] =
                            {k \in refs : logs[Target(w)][k] # "done"}]
    BY <1>2 DEF StoreLogs
  <2>2. logs'[g] = IF g = Target(w)
                   THEN [k \in LogName |-> IF k \in refs /\ logs[g][k] = "none"
                                           THEN "pending" ELSE logs[g][k]]
                   ELSE logs[g]
    BY <2>1 DEF TypeOK
  <2>3. toParse'[w] = {k \in refs : logs[Target(w)][k] # "done"}
    BY <2>1 DEF TypeOK
  <2>4. Goal
    BY <1>2, <2>2, <2>3
  <2> QED BY <2>4
<1>3. ASSUME ~StoreLogs(w) PROVE Goal
  <2>1. logs' = logs
    BY <1>3 DEF Worker, WorkerStep, Fetch, ValidateRevision, RemoveExistingJobs, CreateJob,
       StoreMetadata, UpdateJob, ScheduleLogParsing, SkipJob, LoadJobError, DropJob, TaskError, WorkerCrash, tableVars
  <2>2. Goal
    BY <1>3, <2>1
  <2> QED BY <2>2
<1>4. Goal
  BY <1>2, <1>3
<1> QED BY <1>1, <1>4

\* A worker takes no message of a rejected task.
LEMMA RejectedStay ==
    ASSUME KeptInv, NEW w \in Workers, Worker(w), pc'[w] # "idle"
    PROVE  held'[w].event.guid.task \notin Rejected
<1> USE DEF KeptInv, RowInv, TypeOK
<1>1. ASSUME NEW m \in Envelope, Fetch(w, m) PROVE held'[w].event.guid.task \notin Rejected
  BY <1>1 DEF Fetch, workerVars
<1>2. ASSUME pc[w] # "idle", held' = held PROVE held'[w].event.guid.task \notin Rejected
  BY <1>2
<1>3. ASSUME Release(w) PROVE pc'[w] = "idle"
  BY <1>3 DEF Release, Goto
<1>4. ASSUME NextJob(w) PROVE held' = held \/ Release(w)
  BY <1>4 DEF NextJob, Ack
<1>5. CASE ValidateRevision(w) \/ TaskError(w) \/ WorkerCrash(w)
  BY <1>2, <1>3, <1>5 DEF ValidateRevision, TaskError, WorkerCrash, Retry, GiveUp
<1>6. CASE RemoveExistingJobs(w) \/ ScheduleLogParsing(w) \/ SkipJob(w) \/ LoadJobError(w)
  BY <1>2, <1>3, <1>4, <1>6 DEF RemoveExistingJobs, ScheduleLogParsing, SkipJob, LoadJobError,
     DropJob
<1>7. CASE CreateJob(w) \/ StoreMetadata(w) \/ UpdateJob(w) \/ StoreLogs(w)
  BY <1>2, <1>7 DEF CreateJob, StoreMetadata, UpdateJob, StoreLogs
<1> QED BY <1>1, <1>5, <1>6, <1>7 DEF Worker, WorkerStep

\* A worker's step keeps what makes up for what each row lacks.
LEMMA WorkerKeptStep ==
    ASSUME KeptInv, NEW w \in Workers, Worker(w), NEW g \in Guid, g \notin cut'
    PROVE  MetadataComes(g)' /\ LogComes(g)' /\ ParsingComes(g)'
<1> USE DEF KeptInv, RowInv
<1>1. MetadataComes(g) /\ LogComes(g) /\ ParsingComes(g)
  BY LostStays
<1>2. ASSUME NEW v \in Workers \ {w}
      PROVE  /\ pc'[v] = pc[v] /\ held'[v] = held[v] /\ stage'[v] = stage[v]
             /\ toParse'[v] = toParse[v] /\ Target(v)' = Target(v)
  <2>1. pc'[v] = pc[v] /\ held'[v] = held[v] /\ stage'[v] = stage[v] /\ toParse'[v] = toParse[v]
    BY <1>2, OnlyThisWorker, OthersToParse
  <2> QED BY <2>1 DEF Target
<1>3. MetadataComes(g)'
  <2> SUFFICES ASSUME job'[g].state # "absent", g \notin metadata'
               PROVE  \E v \in Workers : pc'[v] = "metadata" /\ Target(v)' = g
    BY DEF MetadataComes
  <2>1. CASE job[g].state = "absent"
    <3>1. CreateJob(w) /\ Target(w) = g
      BY <2>1, JobWrites DEF UpdateJob, RowsFound, TypeOK
    <3>2. pc'[w] = "metadata" /\ Target(w)' = Target(w)
      BY <3>1 DEF CreateJob, Goto, TypeOK, Target
    <3> QED BY <3>1, <3>2
  <2>2. CASE job[g].state # "absent"
    <3>1. metadata \subseteq metadata'
      BY DEF Worker, WorkerStep, Fetch, ValidateRevision, RemoveExistingJobs, CreateJob,
         StoreMetadata, UpdateJob, StoreLogs, ScheduleLogParsing, SkipJob, LoadJobError, DropJob, TaskError,
         WorkerCrash, tableVars
    <3>2. PICK v \in Workers : pc[v] = "metadata" /\ Target(v) = g
      BY <1>1, <2>2, <3>1 DEF MetadataComes
    <3>3. v # w
      BY <3>2, StoringStep DEF StoreMetadata
    <3> QED BY <1>2, <3>2, <3>3
  <2> QED BY <2>1, <2>2
<1>4. LogComes(g)'
  <2> DEFINE log == "live_backing_log"
  <2> SUFFICES ASSUME job'[g].result \in {"success", "fail"}, logs'[g][log] = "none"
               PROVE  \E v \in Workers :
                         /\ pc'[v] \in {"metadata", "update", "logs"} /\ stage'[v] = "event"
                         /\ held'[v].event.type \in {"completed", "failed"} /\ Target(v)' = g
    BY DEF LogComes
  <2>1. log \in LogName
    BY DEF LogName
  <2>2. logs[g][log] = "none" /\ ~(StoreLogs(w) /\ g = Target(w) /\ log \in toParse'[w])
    BY <2>1, LogWrites
  <2>3. ASSUME pc[w] # "idle", stage[w] = "event", Target(w) = g,
               held[w].event.type \in {"completed", "failed"},
               CreateJob(w) \/ StoreMetadata(w) \/ UpdateJob(w)
        PROVE  \E v \in Workers :
                  /\ pc'[v] \in {"metadata", "update", "logs"} /\ stage'[v] = "event"
                  /\ held'[v].event.type \in {"completed", "failed"} /\ Target(v)' = g
    <3>1. pc'[w] \in {"metadata", "update", "logs"} /\ held' = held /\ stage' = stage
      BY <2>3 DEF CreateJob, StoreMetadata, UpdateJob, Goto, TypeOK
    <3> QED BY <2>3, <3>1 DEF Target
  <2>4. CASE job[g].result \in {"success", "fail"}
    <3>1. PICK v \in Workers :
             /\ pc[v] \in {"metadata", "update", "logs"} /\ stage[v] = "event"
             /\ held[v].event.type \in {"completed", "failed"} /\ Target(v) = g
      BY <1>1, <2>2, <2>4 DEF LogComes
    <3>2. CASE v # w
      BY <1>2, <3>1, <3>2
    <3>3. CASE v = w /\ pc[w] = "logs"
      <4>1. StoreLogs(w)
        BY <3>1, <3>3, StoringStep
      <4>2. Incoming(w).state = "completed"
        BY <3>1, <3>3 DEF Incoming, EventJob, StateFromRun
      <4>3. \A refs \in LogRefs(w) : log \in refs
        BY <3>1, <3>3, <4>2 DEF LogRefs
      <4>4. log \in toParse'[w]
        BY <2>1, <2>2, <3>1, <3>3, <4>1, <4>3 DEF StoreLogs, TypeOK
      <4> QED BY <2>2, <3>1, <3>3, <4>1, <4>4
    <3>4. CASE v = w /\ pc[w] # "logs"
      BY <2>3, <3>1, <3>4, StoringStep
    <3> QED BY <3>2, <3>3, <3>4
  <2>5. CASE job[g].result \notin {"success", "fail"}
    <3>1. (CreateJob(w) \/ UpdateJob(w)) /\ Target(w) = g /\ job'[g] = Incoming(w)
      BY <2>5, JobWrites DEF TypeOK
    <3>2. pc[w] # "idle"
      BY <3>1 DEF CreateJob, UpdateJob
    <3>3. stage[w] = "event" /\ held[w].event.type \in {"completed", "failed"}
      BY <3>1, <3>2, WorkerTypes DEF Incoming, RerunJob, EventJob, ResultFromRun, TypeOK
    <3> QED BY <2>3, <3>1, <3>2, <3>3
  <2> QED BY <2>4, <2>5
<1>5. ParsingComes(g)'
  <2> SUFFICES ASSUME NEW n \in LogName, logs'[g][n] = "pending",
                      [guid |-> g, name |-> n] \notin parseQueue'
               PROVE  \E v \in Workers : pc'[v] = "schedule" /\ Target(v)' = g /\ n \in toParse'[v]
    BY DEF ParsingComes
  <2>1. CASE logs[g][n] = "pending"
    <3>1. PICK v \in Workers : pc[v] = "schedule" /\ Target(v) = g /\ n \in toParse[v]
      BY <1>1, <2>1, LogWrites DEF ParsingComes
    <3>2. v # w
      BY <3>1, StoringStep DEF ScheduleLogParsing
    <3> QED BY <1>2, <3>1, <3>2
  <2>2. CASE logs[g][n] # "pending"
    <3>1. StoreLogs(w) /\ g = Target(w) /\ n \in toParse'[w]
      BY <2>2, LogWrites
    <3>2. pc'[w] = "schedule" /\ Target(w)' = Target(w)
      BY <3>1 DEF StoreLogs, Goto, TypeOK, Target
    <3> QED BY <3>1, <3>2
  <2> QED BY <2>1, <2>2
<1> QED BY <1>3, <1>4, <1>5

\* Of the other steps only a parser touches what the invariant is about: it takes
\* a log from its queue and gives it a verdict.
LEMMA OtherKeptStep ==
    ASSUME KeptInv, Environment \/ Listener \/ UNCHANGED vars, NEW g \in Guid, g \notin cut'
    PROVE  MetadataComes(g)' /\ LogComes(g)' /\ ParsingComes(g)'
<1>1. UNCHANGED <<pc, held, stage, job, acked, historyVars>>
  BY OtherStepsFrame
<1>2. UNCHANGED <<toParse, metadata>>
  BY DEF Environment, Listener, Announce, StorePush, ParseLog, ListenerForward, ListenerAck,
     ListenerCrash, workerVars, tableVars, vars
<1>3. MetadataComes(g) /\ LogComes(g) /\ ParsingComes(g)
  BY <1>1 DEF KeptInv, historyVars
<1>4. \A w \in Workers : Target(w)' = Target(w)
  BY <1>1 DEF Target
<1>5. MetadataComes(g)'
  BY <1>1, <1>2, <1>3, <1>4 DEF MetadataComes
<1>6. CASE UNCHANGED <<logs, parseQueue>>
  BY <1>1, <1>2, <1>3, <1>4, <1>5, <1>6 DEF LogComes, ParsingComes
<1>7. ASSUME NEW p \in ParseTask, ParseLog(p)
      PROVE  LogComes(g)' /\ ParsingComes(g)'
  <2>1. p.guid \in Guid /\ p.name \in LogName /\ p = [guid |-> p.guid, name |-> p.name]
    BY DEF ParseTask
  <2>2. PICK verdict \in {"done", "left"} :
           logs' = [logs EXCEPT ![p.guid] = [logs[p.guid] EXCEPT ![p.name] = verdict]]
    BY <1>7 DEF ParseLog
  <2>3. \A n \in LogName :
           IF p = [guid |-> g, name |-> n] THEN logs'[g][n] \in {"done", "left"}
                                           ELSE logs'[g][n] = logs[g][n]
    BY <2>1, <2>2 DEF KeptInv, RowInv, TypeOK
  <2>4. \A n \in LogName : /\ logs'[g][n] = "none" => logs[g][n] = "none"
                           /\ logs'[g][n] = "pending" =>
                                 /\ logs[g][n] = "pending"
                                 /\ [guid |-> g, name |-> n] \in parseQueue
                                      => [guid |-> g, name |-> n] \in parseQueue'
    BY <1>7, <2>3 DEF ParseLog
  <2>5. "live_backing_log" \in LogName
    BY DEF LogName
  <2>6. LogComes(g)'
    BY <1>1, <1>3, <1>4, <2>4, <2>5 DEF LogComes
  <2>7. ParsingComes(g)'
    BY <1>1, <1>2, <1>3, <1>4, <2>4 DEF ParsingComes
  <2> QED BY <2>6, <2>7
<1>8. UNCHANGED <<logs, parseQueue>> \/ \E p \in ParseTask : ParseLog(p)
  BY DEF Environment, Listener, Announce, StorePush, ListenerForward, ListenerAck, ListenerCrash,
     tableVars, vars
<1> QED BY <1>5, <1>6, <1>7, <1>8

\* Nothing is left behind of a run whose storing was not cut short.
LEMMA NothingLeftBehind == Spec => []KeptInv
<1>1. Init => KeptInv
  <2> SUFFICES ASSUME Init PROVE KeptInv
    OBVIOUS
  <2>1. RowInv
    BY InitTypes DEF Init, RowInv, AckedJobsExist, RowsFound
  <2>2. \A g \in Guid : job[g].state = "absent" /\ job[g].result = "unknown"
    BY DEF Init, NoJob, JL!NoJob
  <2>3. \A g \in Guid : \A n \in LogName : logs[g][n] = "none"
    BY DEF Init
  <2>4. \A w \in Workers : pc[w] = "idle"
    BY DEF Init
  <2> QED BY <2>1, <2>2, <2>3, <2>4 DEF KeptInv, MetadataComes, LogComes, ParsingComes
<1>2. KeptInv /\ [Next]_vars => KeptInv'
  <2> SUFFICES ASSUME KeptInv, [Next]_vars PROVE KeptInv'
    OBVIOUS
  <2>1. TypeOK'
    BY TypeStep DEF KeptInv, RowInv
  <2>2. CASE Environment \/ Listener \/ UNCHANGED vars
    <3>1. UNCHANGED <<pc, held, stage, job, acked, historyVars>>
      BY <2>2, OtherStepsFrame
    <3>2. RowInv'
      BY <2>1, <3>1 DEF KeptInv, RowInv, AckedJobsExist, RowsFound, Target, JobsOf, Reported,
         Prev, Lost, historyVars
    <3>3. \A w \in Workers : pc'[w] # "idle" => held'[w].event.guid.task \notin Rejected
      BY <3>1 DEF KeptInv
    <3> QED BY <2>2, <3>2, <3>3, OtherKeptStep DEF KeptInv
  <2>3. ASSUME NEW w \in Workers, Worker(w)
        PROVE  KeptInv'
    <3>1. RowInv'
      BY <2>1, <2>3, WorkerRowStep DEF KeptInv, RowInv
    <3>2. ASSUME NEW v \in Workers, pc'[v] # "idle"
          PROVE  held'[v].event.guid.task \notin Rejected
      <4>1. CASE v = w
        BY <2>3, <3>2, <4>1, RejectedStay
      <4>2. CASE v # w
        BY <2>3, <3>2, <4>2, OnlyThisWorker DEF KeptInv, RowInv
      <4> QED BY <4>1, <4>2
    <3> QED BY <2>3, <3>1, <3>2, WorkerKeptStep DEF KeptInv
  <2> QED BY <2>2, <2>3 DEF Next
<1> QED BY <1>1, <1>2, PTL DEF Spec

\* A job that a message stands for has its taskcluster_metadata once no worker
\* is at it, unless it was dropped or its own storing was cut short: for any number
\* of workers, and whatever restarts and exceptions do to other jobs.
THEOREM AckedJobsHaveMetadataCorrect == Spec => []AckedJobsHaveMetadata
<1>1. KeptInv => AckedJobsHaveMetadata
  <2> SUFFICES ASSUME KeptInv, NEW e \in acked, NEW g \in JobsOf(e), ~Lost(e, g), g \notin cut,
                      \A w \in Workers : pc[w] # "idle" => Target(w) # g
               PROVE  g \in metadata
    BY DEF AckedJobsHaveMetadata
  <2>1. e \in Event /\ g \in Guid
    BY JobsOfTypes DEF KeptInv, RowInv, TypeOK
  <2>3. job[g].state # "absent"
    BY DEF KeptInv, RowInv, AckedJobsExist
  <2> QED BY <2>1, <2>3 DEF KeptInv, MetadataComes
<1> QED BY <1>1, NothingLeftBehind, PTL

\* A run whose completion is in the table has its log recorded, and the log is
\* parsed or waits to be, unless the storing of that very run was cut short.
THEOREM LogsAccountedForCorrect == Spec => []LogsAccountedFor
<1>1. KeptInv => LogsAccountedFor
  <2> SUFFICES ASSUME KeptInv, NEW e \in acked, Shown(e), e.guid \notin cut
               PROVE  LogAccounted(e.guid)
    BY DEF LogsAccountedFor
  <2>1. e.guid \in Guid
    BY DEF KeptInv, RowInv, TypeOK, Event
  <2>2. job[e.guid].result \in {"success", "fail"}
    BY DEF Shown, EventJob, ResultFromRun
  <2>3. ASSUME NEW w \in Workers, pc[w] # "idle", Target(w) = e.guid
        PROVE  FALSE
    <3>1. held[w] \in Envelope /\ e.guid \in JobsOf(held[w].event)
      BY <2>3, TargetIsJob, WorkerTypes DEF KeptInv, RowInv
    <3>2. held[w] # NoMessage
      BY <3>1
    <3> QED BY <3>1, <3>2 DEF Shown, Busy
  <2> QED BY <2>1, <2>2, <2>3 DEF KeptInv, LogComes, ParsingComes, LogAccounted
<1> QED BY <1>1, NothingLeftBehind, PTL

-----------------------------------------------------------------------------
(***************************************************************************)
(* For any number of workers on the ingestion queue, the job table         *)
(* implements the lifecycle of JobLifecycle, and what was acknowledged     *)
(* stays reflected in it.  What two workers do to a run that they store at *)
(* the same time is not covered: CompletedIsFinal fails (run IngestRace).  *)
(***************************************************************************)

\* Two workers that decide on the same run have been seen to.
Alone ==
    \A v, w \in Workers :
        v # w /\ Deciding(v) /\ Deciding(w) /\ Target(v) = Target(w) => Target(w) \in contested

\* The decision that _remove_existing_jobs took from its earlier read is still
\* right when the row is written: what is to be written is already there, or
\* moves the row on.  Once it is written, the row does not fall behind it.
DecisionHolds(w) ==
    /\ Deciding(w) /\ Target(w) \notin contested =>
         \/ job[Target(w)] = Incoming(w)
         \/ Rank(job[Target(w)].state) < Rank(Incoming(w).state)
    /\ pc[w] \in {"logs", "schedule"} /\ Target(w) \notin contested =>
         Rank(job[Target(w)].state) >= Rank(Incoming(w).state)

\* The previous run is closed once the worker has gone on to the run itself.
RerunClosed(w) ==
    pc[w] # "idle" /\ stage[w] = "event" /\ held[w].event.guid.run > 0
      => LET g == Prev(held[w].event.guid)
         IN  job[g].state = "completed" \/ Lost(held[w].event, g) \/ g \in contested

\* Only a completed row has a result.
ResultsOfCompleted ==
    \A g \in Guid : job[g].state # "completed" => job[g].result = "unknown"

DecisionInv ==
    /\ TypeOK
    /\ ResultsOfCompleted
    /\ Alone
    /\ \A w \in Workers : DecisionHolds(w) /\ RerunClosed(w)

LifecycleInv == DecisionInv /\ AckedJobsReflected

\* The order of the states, in numbers.
LEMMA RankFacts ==
    /\ Rank("absent") = 0 /\ Rank("pending") = 1 /\ Rank("running") = 2 /\ Rank("completed") = 3
    /\ \A s : Rank(s) \in 0..3
BY DEF Rank, JL!Rank

\* A message that does not end its run brings no result.
LEMMA IncomingResult ==
    ASSUME TypeOK, NEW w \in Workers, pc[w] # "idle", Incoming(w).state # "completed"
    PROVE  Incoming(w).result = "unknown"
<1>1. held[w].event.type \in EventType /\ Reported(held[w].event)
  BY WorkerTypes DEF TypeOK, HeldOK, Event
<1> QED BY <1>1 DEF Incoming, RerunJob, EventJob, StateFromRun, ResultFromRun, EventType, Reported

\* A job that passes the filter moves its row on or repeats it.
LEMMA FilterDecision ==
    ASSUME DecisionInv, NEW w \in Workers, pc[w] # "idle", ~Filtered(w)
    PROVE  \/ job[Target(w)] = Incoming(w)
           \/ Rank(job[Target(w)].state) < Rank(Incoming(w).state)
<1> USE DEF DecisionInv
<1>1. Target(w) \in Guid /\ job[Target(w)] \in Row /\ Incoming(w) \in Row
  BY WorkerTypes DEF TypeOK
<1>2. job[Target(w)].state \in {"absent", "pending", "running"}
  BY <1>1 DEF Filtered, Row, JL!Job, JL!States
<1>3. job[Target(w)].result = "unknown"
  BY <1>1, <1>2 DEF ResultsOfCompleted
<1>4. Incoming(w).state \in {"pending", "running", "completed"}
  BY WorkerTypes
<1>5. CASE job[Target(w)].state = Incoming(w).state
  <2>1. Incoming(w).result = "unknown"
    BY <1>2, <1>5, IncomingResult
  <2> QED BY <1>1, <1>3, <1>5, <2>1 DEF Row, JL!Job
<1>6. CASE job[Target(w)].state # Incoming(w).state
  BY <1>2, <1>4, <1>6, RankFacts DEF Filtered
<1> QED BY <1>5, <1>6

\* A worker's step leaves a row as it is, moves it on, or overwrites a run that
\* two workers have stored at once.
LEMMA RowsAdvance ==
    ASSUME DecisionInv, NEW w \in Workers, Worker(w)
    PROVE  \/ job' = job
           \/ /\ pc[w] \in {"create", "update"}
              /\ \/ Rank(job[Target(w)].state) < Rank(Incoming(w).state)
                 \/ Target(w) \in contested
              /\ job' = [job EXCEPT ![Target(w)] = Incoming(w)]
<1> USE DEF DecisionInv
<1>1. CASE job' = job
  BY <1>1
<1>2. CASE CreateJob(w) /\ job[Target(w)].state = "absent"
           /\ job' = [job EXCEPT ![Target(w)] = Incoming(w)]
  <2>1. pc[w] = "create"
    BY <1>2 DEF CreateJob
  <2>2. Rank(job[Target(w)].state) < Rank(Incoming(w).state)
    BY <1>2, <2>1, WorkerTypes, RankFacts
  <2> QED BY <1>2, <2>1, <2>2
<1>3. CASE UpdateJob(w) /\ job' = [job EXCEPT ![Target(w)] = Incoming(w)]
  <2>1. pc[w] = "update" /\ Target(w) \in Guid
    BY <1>3, WorkerTypes DEF UpdateJob
  <2>2. CASE job[Target(w)] = Incoming(w)
    BY <1>3, <2>1, <2>2 DEF TypeOK
  <2>3. CASE Rank(job[Target(w)].state) < Rank(Incoming(w).state)
    BY <1>3, <2>1, <2>3
  <2>4. CASE Target(w) \in contested
    BY <1>3, <2>1, <2>4
  <2> QED BY <2>1, <2>2, <2>3, <2>4 DEF DecisionHolds, Deciding
<1> QED BY <1>1, <1>2, <1>3, JobWrites

\* No row goes back, and a completed row is left alone, save a contested one.
LEMMA RanksGrow ==
    ASSUME DecisionInv, NEW w \in Workers, Worker(w), NEW g \in Guid, g \notin contested
    PROVE  /\ Rank(job'[g].state) >= Rank(job[g].state)
           /\ job[g].state = "completed" => job'[g] = job[g]
<1>1. CASE job' = job
  BY <1>1, RankFacts
<1>2. CASE /\ pc[w] \in {"create", "update"}
           /\ \/ Rank(job[Target(w)].state) < Rank(Incoming(w).state)
              \/ Target(w) \in contested
           /\ job' = [job EXCEPT ![Target(w)] = Incoming(w)]
  <2>1. Target(w) \in Guid /\ job'[Target(w)] = Incoming(w)
    BY <1>2, WorkerTypes DEF DecisionInv, TypeOK
  <2>2. CASE g = Target(w)
    BY <1>2, <2>1, <2>2, RankFacts
  <2>3. CASE g # Target(w)
    BY <1>2, <2>1, <2>3, RankFacts DEF DecisionInv, TypeOK
  <2> QED BY <2>2, <2>3
<1> QED BY <1>1, <1>2, RowsAdvance

\* Where a worker comes from when it arrives at a statement.
LEMMA ArriveStep ==
    ASSUME TypeOK, NEW w \in Workers, Worker(w),
           pc'[w] \in {"create", "metadata", "update", "logs", "schedule"}
    PROVE  /\ pc[w] # "idle" /\ held'[w] = held[w] /\ stage'[w] = stage[w]
           /\ pc'[w] = "create" =>
                /\ ~Filtered(w) /\ job' = job /\ pc[w] = "filter"
                /\ \A v \in Workers \ {w} :
                      Deciding(v) /\ Target(v) = Target(w) => Target(w) \in contested'
           /\ pc'[w] = "metadata" => CreateJob(w)
           /\ pc'[w] = "update" => StoreMetadata(w)
           /\ pc'[w] = "logs" => UpdateJob(w)
           /\ pc'[w] = "schedule" => StoreLogs(w)
<1> USE DEF TypeOK
<1>1. ASSUME NEW m \in Envelope, Fetch(w, m) PROVE pc'[w] \in {"idle", "validate"}
  BY <1>1 DEF Fetch, Goto, workerVars
<1>2. Release(w) => pc'[w] = "idle"
  BY DEF Release, Goto
<1>3. NextJob(w) => pc'[w] \in {"idle", "validate"}
  BY DEF NextJob, Ack, Release, Goto
<1>4. ScheduleLogParsing(w) \/ SkipJob(w) \/ LoadJobError(w) \/ TaskError(w) \/ WorkerCrash(w)
        => pc'[w] \in {"idle", "validate"}
  BY <1>2, <1>3 DEF ScheduleLogParsing, SkipJob, LoadJobError, DropJob, TaskError, Retry, GiveUp,
     WorkerCrash
<1>5. ValidateRevision(w) => pc'[w] \in {"idle", "filter"}
  BY <1>2 DEF ValidateRevision, Retry, GiveUp, Goto
<1>6. \/ RemoveExistingJobs(w) \/ CreateJob(w) \/ StoreMetadata(w)
      \/ UpdateJob(w) \/ StoreLogs(w)
  BY <1>1, <1>4, <1>5 DEF Worker, WorkerStep
<1>7. CASE RemoveExistingJobs(w)
  <2>1. ~Filtered(w)
    BY <1>3, <1>7 DEF RemoveExistingJobs, Filtered
  <2> QED BY <1>7, <2>1 DEF RemoveExistingJobs, Filtered, Goto, tableVars
<1>8. CASE CreateJob(w) \/ StoreMetadata(w) \/ UpdateJob(w) \/ StoreLogs(w)
  BY <1>8 DEF CreateJob, StoreMetadata, UpdateJob, StoreLogs, Goto
<1> QED BY <1>6, <1>7, <1>8

\* A run that is not the first has a previous one.
LEMMA PrevTypes ==
    ASSUME NEW e \in Event, e.guid.run > 0
    PROVE  e.guid \in Guid /\ Prev(e.guid) \in Guid
<1>1. e.guid \in Guid /\ e.guid.run \in 0..MaxRun
  BY DEF Event, Guid
<1> QED BY <1>1, BoundsAssumption DEF Guid, Prev

\* Once two workers decide on the same run, the run is contested.
LEMMA AloneStep ==
    ASSUME DecisionInv, NEW w \in Workers, Worker(w)
    PROVE  Alone'
<1> USE DEF DecisionInv
<1>1. contested \subseteq contested'
  BY LostStays
<1>2. ASSUME NEW v \in Workers \ {w}
      PROVE  (Deciding(v)' <=> Deciding(v)) /\ Target(v)' = Target(v)
  BY <1>2, OnlyThisWorker DEF Deciding, Target
<1>3. ASSUME NEW v \in Workers \ {w}, Deciding(w)', Deciding(v)', Target(v)' = Target(w)'
      PROVE  Target(w)' \in contested'
  <2>1. pc'[w] \in {"create", "metadata", "update"}
    BY <1>3 DEF Deciding
  <2>2. Target(w)' = Target(w)
    BY <2>1, ArriveStep DEF Target
  <2>3. Deciding(v) /\ Target(v) = Target(w)
    BY <1>2, <1>3, <2>2
  <2>4. CASE pc'[w] = "create"
    BY <2>2, <2>3, <2>4, ArriveStep
  <2>5. CASE pc'[w] # "create"
    <3>1. Deciding(w)
      BY <2>1, <2>5, ArriveStep DEF Deciding, CreateJob, StoreMetadata
    <3> QED BY <1>1, <1>3, <2>2, <2>3, <3>1 DEF Alone
  <2> QED BY <2>4, <2>5
<1>4. ASSUME NEW u \in Workers, NEW v \in Workers, u # v, Deciding(u)', Deciding(v)',
             Target(u)' = Target(v)'
      PROVE  Target(v)' \in contested'
  <2>1. CASE u = w
    BY <1>3, <1>4, <2>1
  <2>2. CASE v = w
    BY <1>3, <1>4, <2>2
  <2>3. CASE u # w /\ v # w
    BY <1>1, <1>2, <1>4, <2>3 DEF Alone
  <2> QED BY <2>1, <2>2, <2>3
<1> QED BY <1>4 DEF Alone

\* A worker's own decision stays right when it takes its next step.
LEMMA OwnDecisionStep ==
    ASSUME DecisionInv, NEW w \in Workers, Worker(w)
    PROVE  DecisionHolds(w)'
<1> USE DEF DecisionInv
<1> SUFFICES ASSUME pc'[w] \in {"create", "metadata", "update", "logs", "schedule"},
                    Target(w)' \notin contested'
             PROVE  DecisionHolds(w)'
  BY DEF DecisionHolds, Deciding
<1>1. /\ pc[w] # "idle" /\ Target(w)' = Target(w) /\ Incoming(w)' = Incoming(w)
      /\ \A s : Rank(s)' = Rank(s)
  BY ArriveStep DEF Target, Incoming, Rank, JL!Rank
<1>2. Target(w) \in Guid /\ Incoming(w) \in Row
  BY <1>1, WorkerTypes
<1>3. Target(w) \notin contested
  BY <1>1, LostStays
<1> DEFINE g == Target(w)
           Ahead(row) == row = Incoming(w) \/ Rank(row.state) < Rank(Incoming(w).state)
<1>4. CASE pc'[w] = "create"
  <2>1. Ahead(job'[g])
    BY <1>1, <1>4, ArriveStep, FilterDecision
  <2> QED BY <1>1, <1>4, <2>1 DEF DecisionHolds, Deciding
<1>5. CASE pc'[w] = "metadata"
  <2>1. CreateJob(w) /\ pc[w] = "create"
    BY <1>5, ArriveStep DEF CreateJob
  <2>2. Ahead(job[g])
    BY <1>3, <2>1 DEF DecisionHolds, Deciding
  <2>3. Ahead(job'[g])
    BY <1>2, <2>1, <2>2 DEF CreateJob, TypeOK
  <2> QED BY <1>1, <1>5, <2>3 DEF DecisionHolds, Deciding
<1>6. CASE pc'[w] = "update"
  <2>1. StoreMetadata(w) /\ pc[w] = "metadata"
    BY <1>6, ArriveStep DEF StoreMetadata
  <2>2. Ahead(job'[g])
    BY <1>3, <2>1 DEF DecisionHolds, Deciding, StoreMetadata
  <2> QED BY <1>1, <1>6, <2>2 DEF DecisionHolds, Deciding
<1>7. CASE pc'[w] = "logs"
  <2>1. job'[g] = Incoming(w)
    BY <1>2, <1>7, ArriveStep DEF UpdateJob, TypeOK
  <2> QED BY <1>1, <1>7, <2>1, RankFacts DEF DecisionHolds, Deciding
<1>8. CASE pc'[w] = "schedule"
  <2>1. StoreLogs(w) /\ pc[w] = "logs" /\ job' = job
    BY <1>8, ArriveStep DEF StoreLogs
  <2>2. Rank(job'[g].state) >= Rank(Incoming(w).state)
    BY <1>3, <2>1 DEF DecisionHolds
  <2> QED BY <1>1, <1>8, <2>2 DEF DecisionHolds, Deciding
<1> QED BY <1>4, <1>5, <1>6, <1>7, <1>8

\* Nor does another worker's step make it wrong: who writes the same row while
\* the decision stands makes the run contested.
LEMMA OthersDecisionStep ==
    ASSUME DecisionInv, NEW w \in Workers, Worker(w), NEW v \in Workers \ {w}
    PROVE  DecisionHolds(v)' /\ RerunClosed(v)'
<1> USE DEF DecisionInv
<1>1. pc'[v] = pc[v] /\ held'[v] = held[v] /\ stage'[v] = stage[v]
  BY OnlyThisWorker
<1>2. /\ Target(v)' = Target(v) /\ Incoming(v)' = Incoming(v)
      /\ (Deciding(v)' <=> Deciding(v)) /\ \A s : Rank(s)' = Rank(s)
  BY <1>1 DEF Target, Incoming, Deciding, Rank, JL!Rank
<1>3. lost \subseteq lost' /\ contested \subseteq contested'
  BY LostStays
<1>4. DecisionHolds(v)'
  <2>1. ASSUME Deciding(v), Target(v) \notin contested
        PROVE  job'[Target(v)] = job[Target(v)]
    <3>1. pc[v] # "idle"
      BY <2>1 DEF Deciding
    <3>2. Target(v) \in Guid
      BY <3>1, WorkerTypes
    <3>3. CASE job' = job
      BY <3>3
    <3>4. CASE pc[w] \in {"create", "update"} /\ job' = [job EXCEPT ![Target(w)] = Incoming(w)]
      <4>1. Target(w) # Target(v)
        BY <2>1, <3>4 DEF Alone, Deciding
      <4> QED BY <3>2, <3>4, <4>1 DEF TypeOK
    <3> QED BY <3>3, <3>4, JobWrites DEF CreateJob, UpdateJob
  <2>2. ASSUME pc[v] \in {"logs", "schedule"}, Target(v) \notin contested
        PROVE  Rank(job'[Target(v)].state) >= Rank(Incoming(v).state)
    <3>1. Target(v) \in Guid
      BY <2>2, WorkerTypes
    <3>2. Rank(job'[Target(v)].state) >= Rank(job[Target(v)].state)
      BY <2>2, <3>1, RanksGrow
    <3>3. Rank(job[Target(v)].state) >= Rank(Incoming(v).state)
      BY <2>2 DEF DecisionHolds
    <3> QED BY <3>2, <3>3, RankFacts
  <2> QED BY <1>1, <1>2, <1>3, <2>1, <2>2 DEF DecisionHolds
<1>5. RerunClosed(v)'
  <2> DEFINE g == Prev(held[v].event.guid)
  <2> SUFFICES ASSUME pc[v] # "idle", stage[v] = "event", held[v].event.guid.run > 0,
                      g \notin contested, ~Lost(held[v].event, g)
               PROVE  job'[g].state = "completed"
    BY <1>1, <1>3 DEF RerunClosed, Lost, Prev
  <2>1. g \in Guid
    BY WorkerTypes, PrevTypes
  <2>2. job[g].state = "completed"
    BY DEF RerunClosed
  <2> QED BY <2>1, <2>2, RanksGrow
<1> QED BY <1>4, <1>5

\* A worker's step keeps the decisions right, for any number of workers.
LEMMA DecisionStep ==
    ASSUME DecisionInv, NEW w \in Workers, Worker(w)
    PROVE  DecisionInv'
<1> USE DEF DecisionInv
<1>1. TypeOK'
  BY WorkerStepTypes
<1>2. ResultsOfCompleted'
  <2> SUFFICES ASSUME NEW g \in Guid, job'[g].state # "completed"
               PROVE  job'[g].result = "unknown"
    BY DEF ResultsOfCompleted
  <2>1. CASE job' = job
    BY <2>1 DEF ResultsOfCompleted
  <2>2. CASE /\ pc[w] \in {"create", "update"}
             /\ job' = [job EXCEPT ![Target(w)] = Incoming(w)]
    <3>1. CASE g = Target(w)
      BY <2>2, <3>1, IncomingResult, WorkerTypes DEF TypeOK
    <3>2. CASE g # Target(w)
      BY <2>2, <3>2, WorkerTypes DEF TypeOK, ResultsOfCompleted
    <3> QED BY <3>1, <3>2
  <2> QED BY <2>1, <2>2, RowsAdvance
<1>3. RerunClosed(w)'
  <2> DEFINE g == Prev(held[w].event.guid)
  <2> SUFFICES ASSUME pc'[w] # "idle", stage'[w] = "event", held'[w].event.guid.run > 0,
                      ~LostNext(held'[w].event, Prev(held'[w].event.guid)),
                      Prev(held'[w].event.guid) \notin contested'
               PROVE  job'[Prev(held'[w].event.guid)].state = "completed"
    BY DEF RerunClosed, Prev, Lost, LostNext
  <2>1. pc[w] # "idle" /\ held'[w] = held[w] /\ lost \subseteq lost' /\ contested \subseteq contested'
    BY StageStep, LostStays
  <2>2. held[w].event \in Event /\ g \in Guid
    BY <2>1, WorkerTypes, PrevTypes
  <2>3. g \notin contested
    BY <2>1
  <2>4. CASE stage[w] = "event"
    BY <2>1, <2>2, <2>3, <2>4, RanksGrow DEF RerunClosed, Lost, LostNext
  <2>5. CASE stage[w] = "rerun"
    <3>1. Target(w) = g /\ Incoming(w).state = "completed"
      BY <2>5 DEF Target, Incoming, RerunJob
    <3>2. Filtered(w) => job[g].state = "completed"
      BY <3>1 DEF Filtered
    <3>3. pc[w] = "schedule" => job[g].state = "completed"
      BY <2>2, <2>3, <3>1, RankFacts DEF DecisionHolds, TypeOK, Row, JL!Job, JL!States
    <3>4. ~Dropped(w)
      BY <2>1, <3>1 DEF Dropped, LostNext, Lost
    <3>5. job[g].state = "completed"
      BY <2>5, <3>2, <3>3, <3>4, StageStep
    <3> QED BY <2>1, <2>2, <2>3, <3>5, RanksGrow
  <2>6. stage[w] \in {"event", "rerun"}
    BY DEF TypeOK
  <2> QED BY <2>4, <2>5, <2>6
<1>4. \A v \in Workers : DecisionHolds(v)' /\ RerunClosed(v)'
  BY <1>3, OwnDecisionStep, OthersDecisionStep
<1> QED BY <1>1, <1>2, <1>4, AloneStep

\* A worker's step keeps what was acknowledged reflected in the table.
LEMMA ReflectedStep ==
    ASSUME LifecycleInv, NEW w \in Workers, Worker(w)
    PROVE  AckedJobsReflected'
<1> USE DEF LifecycleInv
<1> DEFINE Said(e, g) == IF g = e.guid THEN StateFromRun(e.type) ELSE "completed"
<1> SUFFICES ASSUME NEW e \in acked', NEW g \in JobsOf(e), ~Lost(e, g)', g \notin contested'
             PROVE  Rank(job'[g].state) >= Rank(Said(e, g))
  BY DEF AckedJobsReflected, JobsOf, Reported, Prev, StateFromRun, Rank, JL!Rank
<1>1. /\ TypeOK /\ TypeOK' /\ lost \subseteq lost' /\ g \notin contested
  BY WorkerStepTypes, LostStays DEF DecisionInv
<1>2. e \in Event /\ g \in Guid
  BY <1>1, JobsOfTypes DEF TypeOK
<1>3. Rank(job[g].state) \in 0..3 /\ Rank(job'[g].state) \in 0..3 /\ Rank(Said(e, g)) \in 0..3
  BY RankFacts
<1>4. Rank(job'[g].state) >= Rank(job[g].state)
  BY <1>1, <1>2, RanksGrow
<1>5. Rank(job[g].state) >= Rank(Said(e, g))
  <2>1. CASE e \in acked
    BY <1>1, <2>1 DEF AckedJobsReflected, Lost
  <2>2. CASE e \notin acked
    <3>1. pc[w] # "idle" /\ stage[w] = "event" /\ e = held[w].event
      BY <1>1, <2>2, AckStep
    <3>2. Target(w) = e.guid /\ Incoming(w).state = StateFromRun(e.type)
      BY <3>1 DEF Target, Incoming, EventJob
    <3>3. CASE g = e.guid
      <4>1. Filtered(w) \/ pc[w] = "schedule"
        BY <1>1, <2>2, <3>1, <3>2, <3>3, AckStep DEF Dropped, LostNext, Lost
      <4>2. CASE Filtered(w)
        BY <1>3, <3>2, <3>3, <4>2, RankFacts DEF Filtered
      <4>3. CASE pc[w] = "schedule"
        BY <1>1, <3>2, <3>3, <4>3 DEF DecisionInv, DecisionHolds
      <4> QED BY <4>1, <4>2, <4>3
    <3>4. CASE g # e.guid
      <4>1. g = Prev(e.guid) /\ e.guid.run > 0
        BY <1>2, <3>4, JobsOfTypes
      <4>2. job[g].state = "completed"
        BY <1>1, <3>1, <4>1 DEF DecisionInv, RerunClosed, Lost
      <4> QED BY <3>4, <4>2, RankFacts
    <3> QED BY <3>3, <3>4
  <2> QED BY <2>1, <2>2
<1> QED BY <1>3, <1>4, <1>5

\* The invariant holds at first.
LEMMA LifecycleInvInit == Init => LifecycleInv
<1> SUFFICES ASSUME Init PROVE LifecycleInv
  OBVIOUS
<1>1. TypeOK
  BY InitTypes
<1> QED BY <1>1 DEF Init, LifecycleInv, DecisionInv, ResultsOfCompleted, DecisionHolds,
    RerunClosed, AckedJobsReflected, Alone, Deciding, NoJob, JL!NoJob

\* Every step keeps it.
LEMMA LifecycleInvStep ==
    ASSUME LifecycleInv, [Next]_vars
    PROVE  LifecycleInv'
<1>1. TypeOK'
  BY TypeStep DEF LifecycleInv, DecisionInv
<1>2. CASE Environment \/ Listener \/ UNCHANGED vars
  <2>1. UNCHANGED <<pc, held, stage, job, acked, lost, contested>>
    BY <1>2, OtherStepsFrame DEF historyVars
  <2>2. ResultsOfCompleted' /\ AckedJobsReflected'
    BY <2>1 DEF LifecycleInv, DecisionInv, ResultsOfCompleted, AckedJobsReflected,
       JobsOf, Prev, Lost, StateFromRun, Reported, Rank, JL!Rank
  <2>3. \A w \in Workers : /\ Target(w)' = Target(w) /\ Incoming(w)' = Incoming(w)
                           /\ (Deciding(w)' <=> Deciding(w))
    BY <2>1 DEF Target, Incoming, Deciding
  <2>4. ASSUME NEW w \in Workers PROVE DecisionHolds(w)' /\ RerunClosed(w)'
    BY <2>1, <2>3 DEF LifecycleInv, DecisionInv, DecisionHolds, RerunClosed, Lost, Prev,
       Rank, JL!Rank
  <2>5. Alone'
    BY <2>1, <2>3 DEF LifecycleInv, DecisionInv, Alone
  <2> QED BY <1>1, <2>2, <2>4, <2>5 DEF LifecycleInv, DecisionInv
<1>3. CASE \E w \in Workers : Worker(w)
  BY <1>3, DecisionStep, ReflectedStep DEF LifecycleInv
<1> QED BY <1>2, <1>3 DEF Next

\* What was acknowledged is reflected in the table for good, for any number of
\* workers, runs, retries, restarts, duplicates and errors, except of the jobs
\* dropped from that message and of the runs that two workers stored at once.
THEOREM AckedJobsReflectedCorrect == Spec => []AckedJobsReflected
<1>1. LifecycleInv /\ [Next]_vars => LifecycleInv'
  BY LifecycleInvStep
<1>2. LifecycleInv => AckedJobsReflected
  BY DEF LifecycleInv
<1> QED BY <1>1, <1>2, LifecycleInvInit, PTL DEF Spec

\* What a worker's step is in the lifecycle.
LEMMA LifecycleStep ==
    ASSUME DecisionInv, NEW w \in Workers, Worker(w), <<job, contested>>' # <<job, contested>>
    PROVE  JL!LifecycleNext
<1> DEFINE g == Target(w)
<1> USE DEF DecisionInv
<1>1. CASE job' = job
  <2>1. RemoveExistingJobs(w)
    BY <1>1 DEF Worker, WorkerStep, outcomeVars, historyVars, Fetch, ValidateRevision, CreateJob,
       StoreMetadata, UpdateJob, StoreLogs, ScheduleLogParsing, SkipJob, LoadJobError, DropJob,
       TaskError, WorkerCrash
  <2>2. g \in Guid
    BY <2>1, WorkerTypes DEF RemoveExistingJobs
  <2>3. contested' = contested \cup {g}
    BY <1>1, <2>1 DEF RemoveExistingJobs
  <2> QED BY <1>1, <2>2, <2>3 DEF JL!LifecycleNext, JL!Contest
<1>2. CASE job' # job
  <2>1. CreateJob(w) \/ UpdateJob(w)
    BY <1>2, JobWrites
  <2>2. contested' = contested /\ pc[w] # "idle"
    BY <2>1 DEF CreateJob, UpdateJob, outcomeVars, historyVars
  <2>3. g \in Guid /\ Incoming(w) \in JL!Job /\ Incoming(w).state # "absent"
    BY <2>2, WorkerTypes DEF Row
  <2>4. job' = [job EXCEPT ![g] = Incoming(w)]
    BY <1>2, JobWrites
  <2>5. job'[g] = Incoming(w)
    BY <2>3, <2>4 DEF TypeOK
  <2>6. JL!Store(g)
    BY <2>2, <2>3, <2>4, <2>5 DEF JL!Store
  <2>7. Rank(job[g].state) < Rank(job'[g].state) \/ g \in contested
    BY <1>2, <2>5, RowsAdvance
  <2>8. JL!Advance(g) \/ JL!Overwrite(g)
    BY <2>3, <2>5, <2>6, <2>7 DEF JL!Advance, JL!Overwrite, Rank
  <2> QED BY <2>3, <2>8 DEF JL!LifecycleNext
<1> QED BY <1>1, <1>2

\* The job table implements the lifecycle, for any number of workers: a row is
\* only ever moved on and a completed row is never touched again, as long as no
\* two workers have stored that run at the same time.
THEOREM LifecycleCorrect == Spec => Lifecycle
<1>1. LifecycleInv /\ [Next]_vars => LifecycleInv'
  BY LifecycleInvStep
<1>2. Init => JL!LifecycleInit
  BY DEF Init, JL!LifecycleInit, NoJob
<1>3. LifecycleInv /\ [Next]_vars => [JL!LifecycleNext]_<<job, contested>>
  <2> SUFFICES ASSUME LifecycleInv, [Next]_vars
               PROVE  JL!LifecycleNext \/ UNCHANGED <<job, contested>>
    OBVIOUS
  <2>1. CASE Environment \/ Listener \/ UNCHANGED vars
    BY <2>1, OtherStepsFrame DEF historyVars
  <2>2. ASSUME NEW w \in Workers, Worker(w)
        PROVE  JL!LifecycleNext \/ UNCHANGED <<job, contested>>
    BY <2>2, LifecycleStep DEF LifecycleInv
  <2> QED BY <2>1, <2>2 DEF Next
<1> QED BY <1>1, <1>2, <1>3, LifecycleInvInit, PTL DEF Spec, Lifecycle, JL!LifecycleSpec

----------------------------------------------------------------------------
(* No message is lost.                                                     *)

\* What the listener acknowledges has been handed on.
MessageInv ==
    /\ TypeOK /\ NoMessageLost
    /\ forwarding # NoMessage => Handed(forwarding)

\* A message that is retried is queued again or given up.
LEMMA RetriedHanded ==
    ASSUME TypeOK, NEW w \in Workers, pc[w] # "idle", Retry(w)
    PROVE  \/ held[w].event \in exhausted'
           \/ \E m \in Envelope : m.event = held[w].event /\ queue'[m] > 0
<1>1. held[w] \in Envelope /\ held[w].retries \in 0..MaxRetries
  BY WorkerTypes DEF Envelope
<1>2. CASE held[w].retries < MaxRetries
  <2> DEFINE again == [held[w] EXCEPT !.retries = held[w].retries + 1]
  <2>1. again \in Envelope /\ again.event = held[w].event
    BY <1>1, <1>2 DEF Envelope
  <2>2. queue' = [queue EXCEPT ![again] = queue[again] + 1]
    BY <1>2 DEF Retry
  <2> HIDE DEF again
  <2>3. queue'[again] > 0
    BY <2>1, <2>2 DEF TypeOK
  <2> QED BY <2>1, <2>3
<1>3. CASE ~(held[w].retries < MaxRetries)
  BY <1>3 DEF Retry, GiveUp
<1> QED BY <1>2, <1>3

\* A worker keeps its message, queues it again, gives it up or acknowledges it.
LEMMA HolderHands ==
    ASSUME TypeOK, NEW w \in Workers, Worker(w), pc[w] # "idle", NEW e, e = held[w].event
    PROVE  Handed(e)'
<1>0. held[w] \in Envelope
  BY WorkerTypes
<1>1. ASSUME NEW label \in PC \ {"idle"}, Goto(w, label), held' = held PROVE Handed(e)'
  BY <1>1 DEF Handed, Goto, TypeOK
<1>2. ASSUME \/ e \in acked' \cup exhausted'
             \/ \E m \in Envelope : m.event = e /\ queue'[m] > 0
      PROVE  Handed(e)'
  BY <1>2 DEF Handed
<1>3. Retry(w) => Handed(e)'
  BY <1>2, RetriedHanded
<1>4. NextJob(w) => Handed(e)'
  <2>1. CASE stage[w] = "rerun"
    BY <1>1, <2>1 DEF NextJob, PC
  <2>2. CASE stage[w] # "rerun"
    BY <1>2, <2>2 DEF NextJob, Ack
  <2> QED BY <2>1, <2>2
<1>5. ASSUME NEW m \in Envelope PROVE ~Fetch(w, m)
  BY DEF Fetch
<1>6. CASE ValidateRevision(w)
  BY <1>1, <1>3, <1>6 DEF ValidateRevision, PC
<1>7. CASE RemoveExistingJobs(w)
  BY <1>1, <1>4, <1>7 DEF RemoveExistingJobs, PC
<1>8. CASE CreateJob(w) \/ StoreMetadata(w) \/ UpdateJob(w) \/ StoreLogs(w)
  <2>1. held' = held /\ \E label \in PC \ {"idle"} : Goto(w, label)
    BY <1>8 DEF CreateJob, StoreMetadata, UpdateJob, StoreLogs, PC
  <2> QED BY <1>1, <2>1
<1>9. CASE ScheduleLogParsing(w) \/ SkipJob(w) \/ LoadJobError(w)
  BY <1>4, <1>9 DEF ScheduleLogParsing, SkipJob, LoadJobError, DropJob
<1>10. CASE TaskError(w)
  <2>1. GiveUp(w) => e \in exhausted'
    BY DEF GiveUp
  <2> QED BY <1>2, <1>3, <1>10, <2>1 DEF TaskError
<1>11. CASE WorkerCrash(w)
  <2>1. queue'[held[w]] > 0
    BY <1>0, <1>11 DEF WorkerCrash, TypeOK
  <2> QED BY <1>0, <1>2, <2>1
<1> QED BY <1>5, <1>6, <1>7, <1>8, <1>9, <1>10, <1>11 DEF Worker, WorkerStep

\* What is done with stays so.
LEMMA DoneStays ==
    ASSUME NEW w \in Workers, Worker(w)
    PROVE  acked \subseteq acked' /\ exhausted \subseteq exhausted' /\ UNCHANGED sourceVars
<1> DEFINE Goal == acked \subseteq acked' /\ exhausted \subseteq exhausted' /\ UNCHANGED sourceVars
<1>1. Retry(w) \/ GiveUp(w) => exhausted \subseteq exhausted'
  BY DEF Retry, GiveUp
<1>2. NextJob(w) => acked \subseteq acked'
  BY DEF NextJob, Ack
<1>3. ASSUME NEW m \in Envelope, Fetch(w, m) PROVE Goal
  BY <1>3 DEF Fetch
<1>4. ValidateRevision(w) \/ TaskError(w) => Goal
  BY <1>1 DEF ValidateRevision, TaskError
<1>5. RemoveExistingJobs(w) \/ ScheduleLogParsing(w) \/ SkipJob(w) \/ LoadJobError(w) => Goal
  BY <1>2 DEF RemoveExistingJobs, ScheduleLogParsing, SkipJob, LoadJobError, DropJob
<1>6. CreateJob(w) \/ StoreMetadata(w) \/ UpdateJob(w) \/ StoreLogs(w) \/ WorkerCrash(w) => Goal
  BY DEF CreateJob, StoreMetadata, UpdateJob, StoreLogs, WorkerCrash, outcomeVars, historyVars
<1> QED BY <1>3, <1>4, <1>5, <1>6 DEF Worker, WorkerStep

\* A queued message stays so, unless a worker takes it.
LEMMA QueuedHanded ==
    ASSUME TypeOK, NEW w \in Workers, Worker(w), NEW m \in Envelope, queue[m] > 0
    PROVE  Handed(m.event)'
<1>1. ASSUME NEW u \in Envelope, Fetch(w, u) PROVE Handed(m.event)'
  <2>1. queue' = [queue EXCEPT ![u] = queue[u] - 1]
    BY <1>1 DEF Fetch
  <2>2. CASE u # m
    <3>1. queue'[m] > 0
      BY <2>1, <2>2 DEF TypeOK
    <3> QED BY <3>1 DEF Handed
  <2>3. CASE u = m
    <3>1. CASE m.event.guid.task \in Rejected \/ ~Reported(m.event)
      BY <1>1, <2>3, <3>1 DEF Fetch, Handed
    <3>2. CASE ~(m.event.guid.task \in Rejected \/ ~Reported(m.event))
      <4>1. held'[w] = m /\ pc'[w] = "validate"
        BY <1>1, <2>3, <3>2 DEF Fetch, Goto, TypeOK
      <4> QED BY <4>1 DEF Handed
    <3> QED BY <3>1, <3>2
  <2> QED BY <2>2, <2>3
<1>2. ASSUME queue' = queue \/ \E u \in Envelope : queue' = [queue EXCEPT ![u] = queue[u] + 1]
      PROVE  Handed(m.event)'
  <2>1. queue'[m] > 0
    BY <1>2 DEF TypeOK
  <2> QED BY <2>1 DEF Handed
<1>3. ASSUME pc[w] # "idle", Retry(w) PROVE Handed(m.event)'
  <2>1. held[w] \in Envelope /\ held[w].retries \in 0..MaxRetries
    BY <1>3, WorkerTypes DEF Envelope
  <2>2. CASE held[w].retries < MaxRetries
    <3> DEFINE again == [held[w] EXCEPT !.retries = held[w].retries + 1]
    <3>1. again \in Envelope
      BY <2>1, <2>2 DEF Envelope
    <3>2. queue' = [queue EXCEPT ![again] = queue[again] + 1]
      BY <1>3, <2>2 DEF Retry
    <3> QED BY <1>2, <3>1, <3>2
  <2>3. CASE ~(held[w].retries < MaxRetries)
    BY <1>2, <1>3, <2>3 DEF Retry, GiveUp
  <2> QED BY <2>2, <2>3
<1>4. ValidateRevision(w) => Handed(m.event)'
  BY <1>2, <1>3 DEF ValidateRevision
<1>5. TaskError(w) => Handed(m.event)'
  BY <1>2, <1>3 DEF TaskError, GiveUp
<1>6. WorkerCrash(w) => Handed(m.event)'
  BY <1>2, WorkerTypes DEF WorkerCrash
<1>7. RemoveExistingJobs(w) \/ ScheduleLogParsing(w) \/ SkipJob(w) \/ LoadJobError(w) => Handed(m.event)'
  BY <1>2 DEF RemoveExistingJobs, ScheduleLogParsing, SkipJob, LoadJobError, DropJob
<1>8. CreateJob(w) \/ StoreMetadata(w) \/ UpdateJob(w) \/ StoreLogs(w) => Handed(m.event)'
  BY <1>2 DEF CreateJob, StoreMetadata, UpdateJob, StoreLogs
<1> QED BY <1>1, <1>4, <1>5, <1>6, <1>7, <1>8 DEF Worker, WorkerStep

\* What was handed on stays so.
LEMMA HandedStays ==
    ASSUME TypeOK, NEW w \in Workers, Worker(w), NEW e, Handed(e)
    PROVE  Handed(e)'
<1>1. CASE e \in acked \cup exhausted
  BY <1>1, DoneStays DEF Handed
<1>2. ASSUME NEW m \in Envelope, m.event = e, queue[m] > 0 PROVE Handed(e)'
  BY <1>2, QueuedHanded
<1>3. ASSUME NEW v \in Workers, pc[v] # "idle", held[v].event = e PROVE Handed(e)'
  <2>1. CASE v = w
    BY <1>3, <2>1, HolderHands
  <2>2. CASE v # w
    <3>1. pc'[v] = pc[v] /\ held'[v] = held[v]
      BY <2>2, OnlyThisWorker
    <3> QED BY <1>3, <3>1 DEF Handed
  <2> QED BY <2>1, <2>2
<1> QED BY <1>1, <1>2, <1>3 DEF Handed

\* The listener hands a message on before it acknowledges it.
LEMMA ListenerHands ==
    ASSUME MessageInv, Environment \/ Listener \/ UNCHANGED vars
    PROVE  NoMessageLost' /\ (forwarding' # NoMessage => Handed(forwarding)')
<1> DEFINE Goal == NoMessageLost' /\ (forwarding' # NoMessage => Handed(forwarding)')
<1>0. TypeOK /\ NoMessageLost /\ (forwarding # NoMessage => Handed(forwarding))
  BY DEF MessageInv
<1>1. ASSUME UNCHANGED <<acked, exhausted, queue, pc, held>>
      PROVE  \A e : Handed(e) <=> Handed(e)'
  BY <1>1 DEF Handed
<1>2. ASSUME NEW e \in Event, Announce(e) PROVE Goal
  <2>1. /\ published' = published \cup {e} /\ pulse' = pulse \cup {e}
        /\ UNCHANGED <<forwarding, acked, exhausted, queue, pc, held>>
    BY <1>2 DEF Announce, workerVars, outcomeVars, historyVars
  <2> QED BY <1>0, <1>1, <2>1 DEF NoMessageLost
<1>3. CASE (\E t \in Tasks : StorePush(t)) \/ (\E p \in ParseTask : ParseLog(p)) \/ UNCHANGED vars
  <2>1. UNCHANGED <<published, pulse, forwarding, acked, exhausted, queue, pc, held>>
    BY <1>3 DEF StorePush, ParseLog, vars, sourceVars, workerVars, outcomeVars, historyVars
  <2> QED BY <1>0, <1>1, <2>1 DEF NoMessageLost
<1>4. ASSUME NEW e \in Event, ListenerForward(e) PROVE Goal
  <2> DEFINE first == [event |-> e, retries |-> 0]
  <2>1. first \in Envelope /\ first.event = e
    BY DEF Envelope
  <2>2. /\ queue' = [queue EXCEPT ![first] = queue[first] + 1] /\ forwarding' = e
        /\ UNCHANGED <<published, pulse, acked, exhausted, pc, held>>
    BY <1>4 DEF ListenerForward, workerVars, outcomeVars, historyVars
  <2> HIDE DEF first
  <2>3. queue'[first] > 0 /\ \A m \in Envelope : queue[m] > 0 => queue'[m] > 0
    BY <1>0, <2>1, <2>2 DEF TypeOK
  <2>4. Handed(e)' /\ \A f : Handed(f) => Handed(f)'
    BY <2>1, <2>2, <2>3 DEF Handed
  <2> QED BY <1>0, <2>2, <2>4 DEF NoMessageLost
<1>5. CASE ListenerAck \/ ListenerCrash
  <2>1. /\ pulse \ {forwarding} \subseteq pulse' /\ forwarding' = NoMessage /\ forwarding # NoMessage
        /\ UNCHANGED <<published, acked, exhausted, queue, pc, held>>
    BY <1>5 DEF ListenerAck, ListenerCrash, workerVars, outcomeVars, historyVars
  <2> QED BY <1>0, <1>1, <2>1 DEF NoMessageLost
<1> QED BY <1>2, <1>3, <1>4, <1>5 DEF Environment, Listener

\* An announced event is waiting, in somebody's hands, acknowledged or given up,
\* for any number of workers, duplicates, retries and restarts: the safety that
\* EventsSettle rests on.
THEOREM NoMessageLostCorrect == Spec => []NoMessageLost
<1>1. Init => MessageInv
  BY InitTypes DEF Init, MessageInv, NoMessageLost
<1>2. ASSUME MessageInv, NEW w \in Workers, Worker(w)
      PROVE  NoMessageLost' /\ (forwarding' # NoMessage => Handed(forwarding)')
  <2>1. published' = published /\ pulse' = pulse /\ forwarding' = forwarding
    BY <1>2, DoneStays DEF sourceVars
  <2>2. \A e : Handed(e) => Handed(e)'
    BY <1>2, HandedStays DEF MessageInv
  <2>3. forwarding' # NoMessage => Handed(forwarding)'
    <3>1. ASSUME NEW f, f = forwarding, Handed(f) PROVE Handed(forwarding)'
      BY <2>1, <2>2, <3>1 DEF Handed
    <3> QED BY <1>2, <2>1, <3>1 DEF MessageInv
  <2> QED BY <1>2, <2>1, <2>2, <2>3 DEF MessageInv, NoMessageLost
<1>3. MessageInv /\ [Next]_vars => MessageInv'
  BY <1>2, ListenerHands, TypeStep DEF Next, MessageInv
<1>4. MessageInv => NoMessageLost
  BY DEF MessageInv
<1> QED BY <1>1, <1>3, <1>4, PTL DEF Spec

----------------------------------------------------------------------------
(* What ingestion does to logs.                                            *)

\* The logs that have a verdict.
Verdicts == {p \in ParseTask : logs[p.guid][p.name] = "done"}

\* A worker gives no verdict and takes none back, and it takes no task away.
LEMMA WorkerSchedules ==
    ASSUME TypeOK, NEW w \in Workers, Worker(w)
    PROVE  Verdicts' = Verdicts /\ \E some \in SUBSET ParseTask : parseQueue' = parseQueue \cup some
<1> DEFINE Goal == Verdicts' = Verdicts /\ \E some \in SUBSET ParseTask : parseQueue' = parseQueue \cup some
<1>1. UNCHANGED <<logs, parseQueue>> => Goal
  <2>1. UNCHANGED <<logs, parseQueue>> => Verdicts' = Verdicts /\ parseQueue' = parseQueue \cup {}
    BY DEF Verdicts
  <2> QED BY <2>1
<1>2. ASSUME StoreLogs(w) PROVE Goal
  <2>1. pc[w] # "idle" /\ parseQueue' = parseQueue
    BY <1>2 DEF StoreLogs
  <2>2. Target(w) \in Guid /\ logs \in [Guid -> [LogName -> LogStatus]]
    BY <2>1, WorkerTypes DEF TypeOK
  <2>3. PICK refs : logs' = [logs EXCEPT ![Target(w)] =
                                [n \in LogName |-> IF n \in refs /\ logs[Target(w)][n] = "none"
                                                   THEN "pending" ELSE logs[Target(w)][n]]]
    BY <1>2 DEF StoreLogs
  <2>4. ASSUME NEW g \in Guid, NEW n \in LogName
        PROVE  logs'[g][n] = "done" <=> logs[g][n] = "done"
    <3>1. CASE g # Target(w)
      BY <2>2, <2>3, <3>1
    <3>2. CASE g = Target(w)
      <4>1. logs'[g][n] = IF n \in refs /\ logs[g][n] = "none" THEN "pending" ELSE logs[g][n]
        BY <2>2, <2>3, <3>2
      <4> QED BY <4>1
    <3> QED BY <3>1, <3>2
  <2>5. Verdicts' = Verdicts
    BY <2>4 DEF Verdicts, ParseTask
  <2>6. parseQueue' = parseQueue \cup {}
    BY <2>1
  <2> QED BY <2>5, <2>6
<1>3. ASSUME ScheduleLogParsing(w) PROVE Goal
  <2> DEFINE some == [guid: {Target(w)}, name: toParse[w]]
  <2>1. Target(w) \in Guid /\ toParse[w] \subseteq LogName
    BY <1>3, WorkerTypes DEF ScheduleLogParsing, TypeOK
  <2>2. some \in SUBSET ParseTask
    BY <2>1 DEF ParseTask
  <2>3. parseQueue' = parseQueue \cup some /\ logs' = logs
    BY <1>3 DEF ScheduleLogParsing, tableVars
  <2> HIDE DEF some
  <2>4. Verdicts' = Verdicts
    BY <2>3 DEF Verdicts
  <2> QED BY <2>2, <2>3, <2>4
<1>4. ASSUME NEW m \in Envelope, Fetch(w, m) PROVE Goal
  BY <1>1, <1>4 DEF Fetch, tableVars
<1>5. ValidateRevision(w) \/ RemoveExistingJobs(w) => Goal
  BY <1>1 DEF ValidateRevision, RemoveExistingJobs, tableVars
<1>6. CreateJob(w) \/ StoreMetadata(w) \/ UpdateJob(w) => Goal
  BY <1>1 DEF CreateJob, StoreMetadata, UpdateJob
<1>7. SkipJob(w) \/ LoadJobError(w) \/ TaskError(w) \/ WorkerCrash(w) => Goal
  BY <1>1 DEF SkipJob, LoadJobError, DropJob, TaskError, WorkerCrash, tableVars
<1> QED BY <1>2, <1>3, <1>4, <1>5, <1>6, <1>7 DEF Worker, WorkerStep

\* For any number of workers, messages and restarts, ingestion and the parsers it
\* assumes implement LogVerdicts, as the parsers themselves do
\* (LogParsingProofs).
THEOREM IngestionImplementsVerdicts == Spec => VerdictsLeft
<1>1. Init => LV!VerdictsInit
  BY DEF Init, LV!VerdictsInit, ParseTask
<1>2. ASSUME TypeOK, NEW w \in Workers, Worker(w) PROVE LV!VerdictsNext
  BY <1>2, WorkerSchedules DEF Verdicts, LV!VerdictsNext, LV!ScheduleLogs
<1>3. ASSUME TypeOK, NEW p \in ParseTask, ParseLog(p) PROVE LV!VerdictsNext
  <2>1. p.guid \in Guid /\ p.name \in LogName /\ logs \in [Guid -> [LogName -> LogStatus]]
    BY <1>3 DEF ParseTask, TypeOK
  <2>2. /\ p \in parseQueue /\ parseQueue' = parseQueue \ {p}
        /\ \E verdict \in IF logs[p.guid][p.name] = "done" THEN {"done"} ELSE {"done", "left"} :
               logs' = [logs EXCEPT ![p.guid][p.name] = verdict]
    BY <1>3 DEF ParseLog
  <2>3. PICK verdict : /\ logs[p.guid][p.name] = "done" => verdict = "done"
                       /\ logs' = [logs EXCEPT ![p.guid][p.name] = verdict]
    BY <2>2
  <2>4. /\ \A g \in Guid, n \in LogName : g # p.guid \/ n # p.name => logs'[g][n] = logs[g][n]
        /\ logs[p.guid][p.name] = "done" => logs'[p.guid][p.name] = "done"
    BY <2>1, <2>3
  <2>5. \A q \in ParseTask \ {p} : logs'[q.guid][q.name] = logs[q.guid][q.name]
    BY <2>4 DEF ParseTask
  <2>6. Verdicts' \in {Verdicts, Verdicts \cup {p}}
    BY <2>4, <2>5 DEF Verdicts
  <2>7. LV!WorkOn(p)
    BY <2>2, <2>6 DEF LV!WorkOn, Verdicts
  <2> QED BY <2>7 DEF LV!VerdictsNext
<1>4. ASSUME (\E e \in Event : Announce(e)) \/ (\E t \in Tasks : StorePush(t)) \/ Listener \/ UNCHANGED vars
      PROVE  UNCHANGED <<parseQueue, Verdicts>>
  <2>1. UNCHANGED <<parseQueue, logs>>
    BY <1>4 DEF Announce, StorePush, Listener, ListenerForward, ListenerAck, ListenerCrash, tableVars, vars
  <2> QED BY <2>1 DEF Verdicts
<1>5. TypeOK /\ [Next]_vars => [LV!VerdictsNext]_<<parseQueue, Verdicts>>
  BY <1>2, <1>3, <1>4 DEF Next, Environment
<1> QED BY <1>1, <1>5, TypeCorrect, PTL DEF Spec, VerdictsLeft, LV!VerdictsSpec, Verdicts
=============================================================================
