-------------------------- MODULE AlertSummaryMenu --------------------------
(***************************************************************************)
(* The header of an alert summary (AlertHeader.jsx): its menu with the     *)
(* dialogs that link a bug, file one, edit notes and tags                  *)
(* (StatusDropdown.jsx and the modals), and its assignee (Assignee.jsx).   *)
(* What is typed is validated when typing paused; what is saved is shown   *)
(* when the server answered.                                               *)
(***************************************************************************)
EXTENDS Integers, FiniteSets

CONSTANTS
    Sheriffs,       \* names to assign
    MaxMenuMoves,   \* what the sheriff does
    MaxMenuChanges, \* requests to change the summary
    MaxBugForms     \* bugs to file

ASSUME MenuBounds == {MaxMenuMoves, MaxMenuChanges, MaxBugForms} \subseteq Nat

VARIABLES
    sumServer,   \* the summary: status, bug, notes, assignee
    sumShown,    \* as the menu has it
    changes,     \* changeAlertSummary under way
    dialogs,     \* the dialogs that are open
    linkInput,   \* AlertModal: the text, validated, invalidInput, and a validation that is due
    fileInput,   \* FileBugModal
    notesDraft,  \* NotesModal
    forms,       \* fileBug under way: the text it was called with
    linked,      \* the numbers that were sent as bug_number
    opened,      \* the forms that were opened in Bugzilla
    assignee,    \* Assignee: assigneeUsername, inEditMode, newAssigneeUsername
    assigns,     \* updateAssignee under way
    accepted,    \* the names the server has taken
    menuMoves, nChanges, nForms

sheetVars == <<sumServer, sumShown, changes, nChanges>>
menuModalVars == <<dialogs, linkInput, fileInput, notesDraft>>
fileVars == <<forms, opened, nForms>>
assignVars == <<assignee, assigns, accepted>>
menuVars == <<sheetVars, menuModalVars, fileVars, assignVars, linked, menuMoves>>

Nobody == "nobody"
Texts == {"", "12", "0x"}
IsNumber(text) == text = "12"
Resolved == {"backedout", "fixed", "wontfix"}
SummaryStatuses == Resolved \cup {"untriaged", "investigating"}
MenuMove == menuMoves < MaxMenuMoves /\ menuMoves' = menuMoves + 1
NewInput == [text |-> "", validated |-> FALSE, invalid |-> FALSE, due |-> FALSE]
ToggleDialog(d) == dialogs' = (dialogs \ {d}) \cup ({d} \ dialogs)

-----------------------------------------------------------------------------
\* isValidStatus, of the status that is shown; `Re-open`.
IsValidStatus(to) ==
    \/ to \in Resolved /\ (sumShown.status = "investigating"
                              \/ (sumShown.status \in Resolved /\ sumShown.status # to))
    \/ to = "investigating" /\ sumShown.status \in Resolved

ChangeAlertSummary(field, value) ==
    /\ nChanges < MaxMenuChanges /\ nChanges' = nChanges + 1
    /\ changes' = changes \cup {[id |-> nChanges', field |-> field, value |-> value]}
    /\ UNCHANGED <<sumServer, sumShown>>

SetStatus(to) ==
    /\ MenuMove /\ IsValidStatus(to)
    /\ ChangeAlertSummary("status", to)
    /\ UNCHANGED <<menuModalVars, fileVars, assignVars, linked>>
UnlinkBug ==
    /\ MenuMove /\ sumShown.bug # ""
    /\ ChangeAlertSummary("bug", "")
    /\ UNCHANGED <<menuModalVars, fileVars, assignVars, linked>>

\* The answer has the whole summary.
ChangeSaved(c) ==
    /\ changes' = changes \ {c}
    /\ sumServer' = [sumServer EXCEPT ![c.field] = c.value]
    /\ sumShown' = sumServer'
    /\ UNCHANGED <<nChanges, menuModalVars, fileVars, assignVars, linked, menuMoves>>
ChangeRefused(c) ==
    /\ changes' = changes \ {c}
    /\ UNCHANGED <<sumServer, sumShown, nChanges, menuModalVars, fileVars, assignVars, linked, menuMoves>>
\* Another sheriff, or the alerts of the summary, change its status.
ChangedElsewhere(to) ==
    /\ MenuMove
    /\ sumServer' = [sumServer EXCEPT !.status = to]
    /\ UNCHANGED <<sumShown, changes, nChanges, menuModalVars, fileVars, assignVars, linked>>

-----------------------------------------------------------------------------
(* The dialogs.                                                            *)

MayOpen(d) == d \in {"link", "file"} => sumShown.bug = ""
OpenMenuDialog(d) ==
    /\ MenuMove /\ dialogs = {} /\ MayOpen(d)
    /\ ToggleDialog(d)
    /\ UNCHANGED <<sheetVars, linkInput, fileInput, notesDraft, fileVars, assignVars, linked>>
CloseMenuDialog(d) ==
    /\ MenuMove /\ d \in dialogs
    /\ ToggleDialog(d)
    /\ UNCHANGED <<sheetVars, linkInput, fileInput, notesDraft, fileVars, assignVars, linked>>

\* Mutation: typing leaves the last verdict.
TypedKeepsValidated(in, text) == [in EXCEPT !.text = text, !.due = TRUE]
\* updateInput puts the validation off.
Typed(in, text) == [in EXCEPT !.text = text, !.validated = FALSE, !.due = TRUE]
TypeLink(text) ==
    /\ MenuMove /\ "link" \in dialogs
    /\ linkInput' = Typed(linkInput, text)
    /\ UNCHANGED <<sheetVars, dialogs, fileInput, notesDraft, fileVars, assignVars, linked>>
TypeFile(text) ==
    /\ MenuMove /\ "file" \in dialogs
    /\ fileInput' = Typed(fileInput, text)
    /\ UNCHANGED <<sheetVars, dialogs, linkInput, notesDraft, fileVars, assignVars, linked>>
\* validateInput of each.
LinkValidated ==
    /\ linkInput.due
    /\ linkInput' = IF linkInput.text = "" THEN [linkInput EXCEPT !.due = FALSE]
                    ELSE [linkInput EXCEPT !.due = FALSE, !.validated = TRUE,
                                           !.invalid = ~IsNumber(linkInput.text)]
    /\ UNCHANGED <<sheetVars, dialogs, fileInput, notesDraft, fileVars, assignVars, linked, menuMoves>>
FileValidated ==
    /\ fileInput.due
    /\ fileInput' = [fileInput EXCEPT !.due = FALSE, !.validated = fileInput.text = "",
                                      !.invalid = ~IsNumber(fileInput.text)]
    /\ UNCHANGED <<sheetVars, dialogs, linkInput, notesDraft, fileVars, assignVars, linked, menuMoves>>

\* `Assign`: saves and closes at once.
AssignBug ==
    /\ "link" \in dialogs
    /\ ~linkInput.invalid /\ linkInput.text # "" /\ linkInput.validated
    /\ linked' = linked \cup {linkInput.text}
    /\ ChangeAlertSummary("bug", linkInput.text)
    /\ ToggleDialog("link")
    /\ UNCHANGED <<linkInput, fileInput, notesDraft, fileVars, assignVars, menuMoves>>
EditNotes ==
    /\ MenuMove /\ "notes" \in dialogs
    /\ notesDraft' = ~notesDraft
    /\ UNCHANGED <<sheetVars, dialogs, linkInput, fileInput, fileVars, assignVars, linked>>
SaveNotes ==
    /\ "notes" \in dialogs /\ notesDraft # sumShown.notes
    /\ ChangeAlertSummary("notes", notesDraft)
    /\ ToggleDialog("notes")
    /\ UNCHANGED <<linkInput, fileInput, notesDraft, fileVars, assignVars, linked, menuMoves>>

\* fileBugAndClose: the template, the alerts with videos and the culprit are
\* fetched; then a form opens in Bugzilla and the dialog is toggled.
FileRegression ==
    /\ "file" \in dialogs /\ ~(fileInput.invalid /\ ~fileInput.validated)
    /\ nForms < MaxBugForms /\ nForms' = nForms + 1
    /\ forms' = forms \cup {[id |-> nForms', culprit |-> fileInput.text]}
    /\ UNCHANGED <<opened, sheetVars, menuModalVars, assignVars, linked, menuMoves>>
FormOpened(f) ==
    /\ forms' = forms \ {f}
    /\ opened' = opened \cup {f.culprit}
    /\ ToggleDialog("file")
    /\ fileInput' = [fileInput EXCEPT !.text = ""]
    /\ UNCHANGED <<nForms, sheetVars, linkInput, notesDraft, assignVars, linked, menuMoves>>
\* Without a template there is no text to fill in: an error nobody catches.
NoTemplate(f) ==
    /\ forms' = forms \ {f}
    /\ UNCHANGED <<nForms, opened, sheetVars, menuModalVars, assignVars, linked, menuMoves>>

-----------------------------------------------------------------------------
(* The assignee.                                                           *)

Edit(a) == assignee' = a /\ UNCHANGED <<assigns, accepted, sheetVars, menuModalVars, fileVars, linked>>
GoToEditMode ==
    MenuMove /\ ~assignee.editing /\ Edit([assignee EXCEPT !.editing = TRUE, !.draft = assignee.shown])
\* `Take`
PrefillWithLoggedInUsername(me) ==
    /\ MenuMove /\ ~assignee.editing /\ assignee.shown = Nobody
    /\ Edit([assignee EXCEPT !.editing = TRUE, !.draft = me])
EditUsername(name) == MenuMove /\ assignee.editing /\ Edit([assignee EXCEPT !.draft = name])
EscapeKey == MenuMove /\ assignee.editing /\ Edit([assignee EXCEPT !.editing = FALSE])

PressedEnter ==
    /\ assignee.editing /\ nChanges < MaxMenuChanges
    /\ nChanges' = nChanges + 1
    /\ assigns' = assigns \cup {[id |-> nChanges', name |-> assignee.draft]}
    /\ UNCHANGED <<assignee, accepted, sumServer, sumShown, changes, menuModalVars, fileVars, linked,
                   menuMoves>>
\* The summary is fetched again as well; the name that was sent is shown.
AssigneeSaved(r) ==
    /\ assigns' = assigns \ {r}
    /\ accepted' = accepted \cup {r.name}
    /\ assignee' = [assignee EXCEPT !.shown = r.name, !.editing = FALSE]
    /\ sumServer' = [sumServer EXCEPT !.assignee = r.name]
    /\ sumShown' = sumServer'
    /\ UNCHANGED <<changes, nChanges, menuModalVars, fileVars, linked, menuMoves>>
AssigneeRefused(r) ==
    /\ assigns' = assigns \ {r}
    /\ UNCHANGED <<assignee, accepted, sheetVars, menuModalVars, fileVars, linked, menuMoves>>

-----------------------------------------------------------------------------
MenuInit ==
    /\ sumServer \in [status : {"untriaged", "investigating"}, bug : {""}, notes : {FALSE},
                      assignee : {Nobody}]
    /\ sumShown = sumServer /\ changes = {}
    /\ dialogs = {} /\ linkInput = NewInput /\ fileInput = NewInput /\ notesDraft = FALSE
    /\ forms = {} /\ linked = {} /\ opened = {}
    /\ assignee = [shown |-> Nobody, editing |-> FALSE, draft |-> Nobody]
    /\ assigns = {} /\ accepted = {}
    /\ menuMoves = 0 /\ nChanges = 0 /\ nForms = 0

MenuNext ==
    \/ \E to \in SummaryStatuses : SetStatus(to) \/ ChangedElsewhere(to)
    \/ UnlinkBug
    \/ \E c \in changes : ChangeSaved(c) \/ ChangeRefused(c)
    \/ \E d \in {"link", "file", "notes"} : OpenMenuDialog(d) \/ CloseMenuDialog(d)
    \/ \E t \in Texts : TypeLink(t) \/ TypeFile(t)
    \/ LinkValidated \/ FileValidated \/ AssignBug \/ EditNotes \/ SaveNotes
    \/ FileRegression \/ \E f \in forms : FormOpened(f) \/ NoTemplate(f)
    \/ GoToEditMode \/ EscapeKey \/ PressedEnter
    \/ \E n \in Sheriffs : PrefillWithLoggedInUsername(n) \/ EditUsername(n)
    \/ \E r \in assigns : AssigneeSaved(r) \/ AssigneeRefused(r)

MenuSpec == MenuInit /\ [][MenuNext]_menuVars

-----------------------------------------------------------------------------
MenuTypeOK ==
    /\ {sumServer.status, sumShown.status} \subseteq SummaryStatuses
    /\ {sumServer.bug, sumShown.bug, linkInput.text, fileInput.text} \subseteq Texts
    /\ dialogs \subseteq {"link", "file", "notes"}
    /\ {assignee.shown, assignee.draft} \subseteq Sheriffs \cup {Nobody}
    /\ \A r \in assigns \cup changes : r.id \in 1 .. MaxMenuChanges

\* A summary is linked to a bug by a number only, however fast what was
\* validated is replaced.
LinkedByNumber == \A n \in linked : IsNumber(n)

\* The name beside a summary is one the server has taken.
AssigneeWasAccepted == assignee.shown \in accepted \cup {Nobody}
=============================================================================
