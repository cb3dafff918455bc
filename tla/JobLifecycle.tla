---------------------------- MODULE JobLifecycle ----------------------------
(***************************************************************************)
(* What Treeherder promises about one row of the `job` table, seen from    *)
(* outside: a run of a task is unknown, then pending, running, completed.  *)
(* A row may skip stages but never goes back, and once it is completed     *)
(* neither its state nor its result changes again, as long as no two       *)
(* workers have stored that run at the same time; a row never vanishes.    *)
(* JobIngestion is shown to implement this module.                         *)
(***************************************************************************)
EXTENDS Naturals

CONSTANT Guid          \* the rows' keys: the runs of the tasks

VARIABLES
    job,               \* job[g]: the row of run g, or NoJob
    contested          \* the runs that two workers have stored at once

States == {"absent", "pending", "running", "completed"}
Results == {"unknown", "success", "fail", "exception", "retry"}
Job == [state: States, result: Results]
NoJob == [state |-> "absent", result |-> "unknown"]

\* The order in which a row may pass through its states.
Rank(s) == IF s = "completed" THEN 3
           ELSE IF s = "running" THEN 2
           ELSE IF s = "pending" THEN 1 ELSE 0

LifecycleInit == job = [g \in Guid |-> NoJob] /\ contested = {}

Contest(g) ==
    /\ contested' = contested \cup {g}
    /\ UNCHANGED job

\* Only the row of g changes.
Store(g) ==
    /\ job'[g] \in Job
    /\ job' = [job EXCEPT ![g] = job'[g]]
    /\ UNCHANGED contested

Advance(g) == Store(g) /\ Rank(job[g].state) < Rank(job'[g].state)

Overwrite(g) == Store(g) /\ g \in contested /\ job'[g].state # "absent"

LifecycleNext == \E g \in Guid : Contest(g) \/ Advance(g) \/ Overwrite(g)

LifecycleSpec == LifecycleInit /\ [][LifecycleNext]_<<job, contested>>
=============================================================================
