------------------------------ MODULE JobNotes ------------------------------
(***************************************************************************)
(* The classification of one job (webapp/api/note, JobNote in              *)
(* model/models).  Sheriffs post and delete notes; each note names a       *)
(* failure classification, and the one that counts is denormalised onto    *)
(* the row of the job.  Requests run in several web processes, and each    *)
(* statement of a request commits on its own.  The row is written back as  *)
(* a whole, beside the job ingestion, which goes on updating it.           *)
(***************************************************************************)
EXTENDS Naturals

CONSTANTS
    Requests,         \* requests the web processes can be busy with at once
    Classifications,  \* the rows of failure_classification
    NotClassified,    \* the one named "not classified"
    MaxNotes,         \* bound: notes posted
    MaxAborts         \* bound: requests that are killed or fail

ASSUME ClassificationAssumption == NotClassified \in Classifications
ASSUME NotesBounds == MaxNotes \in Nat /\ MaxAborts \in Nat

\* The order in which ingestion moves a job on.
States == {"pending", "running", "completed"}
Rank(s) == IF s = "pending" THEN 1 ELSE IF s = "running" THEN 2 ELSE 3

Row == [state: States, classification: Classifications]
Note == [created: 1..MaxNotes, classification: Classifications]
NoNote == [created |-> 0, classification |-> NotClassified]
NewJob == [state |-> "pending", classification |-> NotClassified]

NotesPC == {"idle", "insert", "delete", "read", "latest", "save"}

VARIABLES
    job,          \* the row in table job
    notes,        \* table job_note: the notes of the job
    clock,        \* the time, which moves when a note is made
    notesPc,           \* per request: its next statement
    note,         \* per request: the note it is about
    copy,         \* per request: the job as it has it in memory
    overtaken,    \* history: requests about to save what they read of the notes
                  \* before another request changed them
    behind,       \* history: was a change of the notes cut short, or the last
                  \* save that of a request that was overtaken?
    aborts

localVars == <<notesPc, note, copy>>
noteHistory == <<overtaken, behind>>
notesVars == <<job, notes, clock, localVars, noteHistory, aborts>>

\* The classification a set of notes stands for.
MostRecent(S) == CHOOSE n \in S : \A m \in S : m.created <= n.created
TypeOf(S) == IF S = {} THEN NotClassified ELSE MostRecent(S).classification

----------------------------------------------------------------------------
NotesInit ==
    /\ job = NewJob
    /\ notes = {}
    /\ clock = 0
    /\ notesPc = [r \in Requests |-> "idle"]
    /\ note = [r \in Requests |-> NoNote]
    /\ copy = [r \in Requests |-> NewJob]
    /\ overtaken = {} /\ behind = FALSE
    /\ aborts = 0

\* The UPDATE of job ingestion, which names the columns it writes; messages may
\* come late or again.
IngestionUpdate(s) ==
    /\ Rank(job.state) < Rank(s)
    /\ job' = [job EXCEPT !.state = s]
    /\ UNCHANGED <<notes, clock, localVars, noteHistory, aborts>>

NotesGoto(r, label) == notesPc' = [notesPc EXCEPT ![r] = label]

\* The request is over, and what it had in memory is gone.
Finished(r) ==
    /\ NotesGoto(r, "idle")
    /\ note' = [note EXCEPT ![r] = NoNote]
    /\ copy' = [copy EXCEPT ![r] = NewJob]
    /\ overtaken' = overtaken \ {r}

\* POST: read the job, and make a note of this moment.
Create(r, c) ==
    /\ notesPc[r] = "idle"
    /\ clock < MaxNotes
    /\ clock' = clock + 1
    /\ copy' = [copy EXCEPT ![r] = job]
    /\ note' = [note EXCEPT ![r] = [created |-> clock + 1, classification |-> c]]
    /\ NotesGoto(r, "insert")
    /\ UNCHANGED <<job, notes, noteHistory, aborts>>

\* The requests that are about to save what the notes said before this change.
Overtake == overtaken' = overtaken \cup {q \in Requests : notesPc[q] = "save"}

\* JobNote.save: the note is stored.
InsertNote(r) ==
    /\ notesPc[r] = "insert"
    /\ notes' = notes \cup {note[r]}
    /\ Overtake
    /\ NotesGoto(r, "latest")
    /\ UNCHANGED <<job, clock, note, copy, behind, aborts>>

\* DELETE: look the note up.
Destroy(r, n) ==
    /\ notesPc[r] = "idle"
    /\ n \in notes
    /\ note' = [note EXCEPT ![r] = n]
    /\ NotesGoto(r, "delete")
    /\ UNCHANGED <<job, notes, clock, copy, noteHistory, aborts>>

\* JobNote.delete: the note goes, if no other request took it.
DeleteNote(r) ==
    /\ notesPc[r] = "delete"
    /\ notes' = notes \ {note[r]}
    /\ Overtake
    /\ NotesGoto(r, "read")
    /\ UNCHANGED <<job, clock, note, copy, behind, aborts>>

\* self.job of a note that was looked up: the job is read now.
ReadJob(r) ==
    /\ notesPc[r] = "read"
    /\ copy' = [copy EXCEPT ![r] = job]
    /\ NotesGoto(r, "latest")
    /\ UNCHANGED <<job, notes, clock, note, noteHistory, aborts>>

\* Mutation: the notes are ordered by ascending time.
ReadOldest(r) ==
    /\ notesPc[r] = "latest"
    /\ copy' = [copy EXCEPT ![r].classification =
                    IF notes = {} THEN NotClassified
                    ELSE (CHOOSE n \in notes : \A m \in notes : m.created >= n.created).classification]
    /\ NotesGoto(r, "save")
    /\ UNCHANGED <<job, notes, clock, note, noteHistory, aborts>>

\* _update_failure_type: what the notes say now.
ReadLatest(r) ==
    /\ notesPc[r] = "latest"
    /\ copy' = [copy EXCEPT ![r].classification = TypeOf(notes)]
    /\ NotesGoto(r, "save")
    /\ UNCHANGED <<job, notes, clock, note, noteHistory, aborts>>

\* self.job.save() writes every column of the row.
SaveJob(r) ==
    /\ notesPc[r] = "save"
    /\ job' = copy[r]
    /\ behind' = (r \in overtaken)
    /\ Finished(r)
    /\ UNCHANGED <<notes, clock, aborts>>

\* The request is killed (gunicorn's timeout) or a statement of it fails.
Abort(r) ==
    /\ notesPc[r] # "idle"
    /\ aborts < MaxAborts
    /\ aborts' = aborts + 1
    /\ behind' = \/ behind
                  \/ notesPc[r] \in {"read", "latest"}
                  \/ (notesPc[r] = "save" /\ r \notin overtaken)
    /\ Finished(r)
    /\ UNCHANGED <<job, notes, clock>>

----------------------------------------------------------------------------
RequestStep(r) ==
    \/ \E c \in Classifications : Create(r, c)
    \/ InsertNote(r)
    \/ \E n \in Note : Destroy(r, n)
    \/ DeleteNote(r)
    \/ ReadJob(r)
    \/ ReadLatest(r)
    \/ SaveJob(r)
    \/ Abort(r)

NotesNext ==
    \/ \E s \in States : IngestionUpdate(s)
    \/ \E r \in Requests : RequestStep(r)

NotesSpec == NotesInit /\ [][NotesNext]_notesVars

----------------------------------------------------------------------------
(***************************************************************************)
(* Properties                                                              *)
(***************************************************************************)

\* The types of all variables; a note about to be stored has its time, and only a
\* request that is about to save is overtaken.
NotesTypeOK ==
    /\ job \in Row
    /\ notes \subseteq Note
    /\ clock \in 0..MaxNotes
    /\ notesPc \in [Requests -> NotesPC]
    /\ note \in [Requests -> Note \cup {NoNote}]
    /\ copy \in [Requests -> Row]
    /\ overtaken \subseteq {r \in Requests : notesPc[r] = "save"} /\ behind \in BOOLEAN
    /\ aborts \in Nat
    /\ \A r \in Requests : notesPc[r] = "insert" => note[r] \in Note

\* Whenever no request is under way, the job has the classification of its most
\* recent note, or is not classified when it has none, whatever requests overlapped:
\* a later one makes up for one that was cut short or overtaken
\* (JobNote._update_failure_type).
ClassificationCurrent ==
    (\A r \in Requests : notesPc[r] = "idle") /\ ~behind
        => job.classification = TypeOf(notes)

\* "Updates the failure type of this Note's Job.  Set the linked Job's failure type
\* to that of the most recent JobNote or set to Not Classified if there are no
\* JobNotes" (_update_failure_type): so it is when no request was cut short.
FollowsMostRecentNote ==
    (\A r \in Requests : notesPc[r] = "idle") /\ aborts = 0
        => job.classification = TypeOf(notes)

\* "should not transition from running to pending, or completed to any other
\* state" (_remove_existing_jobs): the notes leave the state of the job alone.
StateNeverReverts == [][Rank(job'.state) >= Rank(job.state)]_job
=============================================================================
