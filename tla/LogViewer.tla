------------------------------ MODULE LogViewer -------------------------------
(***************************************************************************)
(* The log viewer (logviewer/App.jsx): the job, its push and the lines of  *)
(* its errors are asked for side by side, while the reader marks lines and *)
(* the URL says which.  When the error lines come, the first of them is    *)
(* marked unless the URL names others by then.  Each mark is an entry of   *)
(* the browser's history; going back or forward changes the URL and the    *)
(* viewer does not look.                                                   *)
(***************************************************************************)
EXTENDS Integers, Sequences

CONSTANTS
    LogLines,        \* 1..n
    FirstErrors,     \* the first error line that a job may have
    MaxMarks, MaxLogLoads

ASSUME LogParameters ==
    /\ LogLines \subseteq Nat \ {0} /\ FirstErrors \subseteq LogLines
    /\ {MaxMarks, MaxLogLoads} \subseteq Nat

NoLines == <<>>   \* null, and -1 after the mark was taken back: nothing is marked
Ranges == {<<l>> : l \in LogLines} \cup {r \in LogLines \X LogLines : r[1] < r[2]}

VARIABLES
    entries, entry,  \* lineNumber of each URL in the history, and which is the current one
    highlight,
    travelled,       \* history: the reader went back or forward since the last mark
    errorLines,      \* the first error line known, or 0
    job,             \* "none", "shown", "unavailable"
    jobLink,         \* the link to the job is there
    detailsCollapsed, storedCollapsed,
    logLoads,        \* requests under way
    nMarks, nLogLoads

markVars == <<entries, entry, highlight, travelled>>
logVars == <<markVars, errorLines, job, jobLink, detailsCollapsed, storedCollapsed, logLoads,
             nMarks, nLogLoads>>

urlLines == entries[entry]
UpdateQuery(lines) ==
    /\ entries' = Append(SubSeq(entries, 1, entry), lines)
    /\ entry' = entry + 1 /\ travelled' = FALSE
SetSelectedLine(lines) == highlight' = lines /\ UpdateQuery(lines)

Travel(k) ==
    /\ entry' = k /\ k # entry /\ travelled' = TRUE
    /\ UNCHANGED <<entries, highlight, errorLines, job, jobLink, detailsCollapsed, storedCollapsed, logLoads,
                   nMarks, nLogLoads>>

\* Marking lines of the log, or an error of the list; the same line again
\* takes the mark back.
OnHighlight(lines) ==
    /\ job = "shown" /\ nMarks < MaxMarks /\ nMarks' = nMarks + 1
    /\ lines # highlight
    /\ SetSelectedLine(lines)
    /\ UNCHANGED <<errorLines, job, jobLink, detailsCollapsed, storedCollapsed, logLoads, nLogLoads>>
ClickError ==
    /\ job = "shown" /\ ~detailsCollapsed /\ errorLines # 0 /\ nMarks < MaxMarks /\ nMarks' = nMarks + 1
    /\ SetSelectedLine(<<errorLines>>)
    /\ UNCHANGED <<errorLines, job, jobLink, detailsCollapsed, storedCollapsed, logLoads, nLogLoads>>

\* Mutation: the first error is marked whatever is marked by then.
MarkFirst(first) == <<first>>
MarkAtAnswer(first) == IF urlLines # NoLines THEN urlLines ELSE <<first>>
LogErrorsAnswered(first) ==
    /\ "errors" \in logLoads /\ logLoads' = logLoads \ {"errors"}
    /\ errorLines' = first
    /\ SetSelectedLine(MarkAtAnswer(first))
    /\ UNCHANGED <<job, jobLink, detailsCollapsed, storedCollapsed, nMarks, nLogLoads>>
\* None, or refused.
NoErrors ==
    /\ "errors" \in logLoads /\ logLoads' = logLoads \ {"errors"}
    /\ UNCHANGED <<markVars, errorLines, job, jobLink, detailsCollapsed, storedCollapsed, nMarks, nLogLoads>>

JobAnswered ==
    /\ "job" \in logLoads /\ logLoads' = (logLoads \ {"job"}) \cup {"push"}
    /\ job' = "shown"
    /\ UNCHANGED <<markVars, errorLines, jobLink, detailsCollapsed, storedCollapsed, nMarks, nLogLoads>>
\* Refused, or a job without a log.
JobUnavailable ==
    /\ "job" \in logLoads /\ logLoads' = logLoads \ {"job"}
    /\ job' = "unavailable"
    /\ UNCHANGED <<markVars, errorLines, jobLink, detailsCollapsed, storedCollapsed, nMarks, nLogLoads>>
PushAnswered(ok) ==
    /\ "push" \in logLoads /\ logLoads' = logLoads \ {"push"}
    /\ jobLink' = (jobLink \/ ok)
    /\ UNCHANGED <<markVars, errorLines, job, detailsCollapsed, storedCollapsed, nMarks, nLogLoads>>

CollapseJobDetails ==
    /\ detailsCollapsed' = ~detailsCollapsed /\ storedCollapsed' = ~detailsCollapsed
    /\ UNCHANGED <<markVars, errorLines, job, jobLink, logLoads, nMarks, nLogLoads>>

OpenLog ==
    /\ nLogLoads < MaxLogLoads /\ nLogLoads' = nLogLoads + 1
    /\ highlight' = urlLines /\ errorLines' = 0 /\ job' = "none" /\ jobLink' = FALSE
    /\ detailsCollapsed' = storedCollapsed
    /\ logLoads' = {"job", "errors"}
    /\ travelled' = FALSE
    /\ UNCHANGED <<entries, entry, storedCollapsed, nMarks>>

LogInit ==
    /\ highlight \in Ranges \cup {NoLines} /\ entries = <<highlight>> /\ entry = 1 /\ travelled = FALSE
    /\ errorLines = 0 /\ job = "none" /\ jobLink = FALSE
    /\ detailsCollapsed \in BOOLEAN /\ storedCollapsed = detailsCollapsed
    /\ logLoads = {"job", "errors"} /\ nMarks = 0 /\ nLogLoads = 0

LogNext ==
    \/ \E lines \in Ranges \cup {NoLines} : OnHighlight(lines)
    \/ ClickError
    \/ \E first \in FirstErrors : LogErrorsAnswered(first)
    \/ NoErrors \/ JobAnswered \/ JobUnavailable \/ CollapseJobDetails \/ OpenLog
    \/ \E ok \in BOOLEAN : PushAnswered(ok)
    \/ \E k \in DOMAIN entries : Travel(k)

LogSpec == LogInit /\ [][LogNext]_logVars

-----------------------------------------------------------------------------
LogTypeOK ==
    /\ entries \in Seq(Ranges \cup {NoLines}) /\ entry \in DOMAIN entries
    /\ highlight \in Ranges \cup {NoLines} /\ travelled \in BOOLEAN
    /\ errorLines \in FirstErrors \cup {0} /\ job \in {"none", "shown", "unavailable"}
    /\ {jobLink, detailsCollapsed, storedCollapsed} \subseteq BOOLEAN
    /\ logLoads \subseteq {"job", "errors", "push"}

\* A link copied marks the lines that its reader sees marked, but for a reader
\* who went back or forward and marked nothing since: the viewer goes on showing
\* what the URL no longer says.
LinkSaysLines == urlLines = highlight \/ travelled

\* Error lines that come late leave the lines that are marked by then, unless
\* the URL says other lines since the reader went back or forward.
MarkIsKept ==
    [][errorLines = 0 /\ errorLines' # 0 /\ highlight # NoLines /\ ~travelled
        => highlight' = highlight]_logVars
=============================================================================
