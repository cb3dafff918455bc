\* One request beside the ingestion: the row goes back to an earlier state.
SPECIFICATION NotesSpec
CONSTANTS
    Requests = {r1}
    Classifications = {none, intermittent}
    NotClassified = none
    MaxNotes = 1
    MaxAborts = 0
PROPERTY StateNeverReverts
CHECK_DEADLOCK FALSE
