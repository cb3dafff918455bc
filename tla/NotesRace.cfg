\* Two requests at once: the job misses its most recent note.
SPECIFICATION NotesSpec
CONSTANTS
    Requests = {r1, r2}
    Classifications = {none, intermittent, fixed}
    NotClassified = none
    MaxNotes = 2
    MaxAborts = 0
INVARIANT FollowsMostRecentNote
CHECK_DEADLOCK FALSE
