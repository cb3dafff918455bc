---------------------------- MODULE LogVerdicts ----------------------------
(***************************************************************************)
(* What job ingestion and the log parsers have in common: the logs for     *)
(* which a task waits, at whichever worker or queue, and those that have a *)
(* verdict.  A log gets a verdict only while a task of it waits, keeps     *)
(* one for good, and a task ends only by being worked on.  Both            *)
(* JobIngestion, to which a parser is one step, and LogParsing, to which   *)
(* ingestion is one, are shown to implement this module.                   *)
(***************************************************************************)
CONSTANT Log

VARIABLES waiting, done

VerdictsInit == waiting = {} /\ done = {}

\* Tasks for some logs; they may have a verdict by then.
ScheduleLogs(some) ==
    /\ waiting' = waiting \cup some
    /\ UNCHANGED done

\* Work on the task of a log: there may be another one, and it may be tried again.
WorkOn(l) ==
    /\ l \in waiting
    /\ waiting' \in {waiting, waiting \ {l}}
    /\ done' \in {done, done \cup {l}}

VerdictsNext ==
    \/ \E some \in SUBSET Log : ScheduleLogs(some)
    \/ \E l \in Log : WorkOn(l)

VerdictsSpec == VerdictsInit /\ [][VerdictsNext]_<<waiting, done>>
=============================================================================
