------------------------------ MODULE PinBoard ------------------------------
(***************************************************************************)
(* The pinboard: jobs a sheriff collects to classify them together, with   *)
(* bugs (redux/stores/pinnedJobs.js and PinBoard.jsx).  Saving posts a     *)
(* classification of every pinned job and a mapping of every pinned job to *)
(* every bug, shows the jobs as classified at once, and clears the board   *)
(* when the classifications are answered; the board can be changed in the  *)
(* meantime, and so can the repository and the range of pushes on show,    *)
(* which leave the board as it is: the event that is to clear it           *)
(* (clearPinboard) has no listener.  addBug writes into the store's        *)
(* object, so the save that follows it at once sees the bug.               *)
(***************************************************************************)
EXTENDS Integers, FiniteSets

CONSTANTS
    PinJobs,        \* jobs that can be pinned
    StrictJobs,     \* those of a repository that is neither try nor one of the
                    \* `project repositories'
    PinBugs,        \* bug numbers
    MaxSize,        \* MAX_SIZE, the room of the board
    MaxSaves,       \* saves
    MaxPinMoves,    \* what else the user does with the board
    MaxPinErrors    \* posts that fail

ASSUME PinBounds ==
    /\ {MaxSize, MaxSaves, MaxPinMoves, MaxPinErrors} \subseteq Nat
    /\ IsFiniteSet(PinJobs) /\ StrictJobs \subseteq PinJobs

VARIABLES
    atTry,          \* is currentRepo try or a project repository?
    inList,         \* the jobs in jobMap, those of the pushes on show
    pinned,         \* pinnedJobs
    pinnedBugs,     \* pinnedJobBugs
    classification, \* failureClassificationId
    comment,        \* the length of failureClassificationComment
    entering,       \* enteringBugNumber
    newBug,         \* newBugNumber, NoBug for an empty field
    shown,          \* failure_classification_id of a job in the push list
    saves,          \* saves under way
    posts,          \* mappings of bugs under way
    stored, mapped, \* classifications and mappings of each job, on the server
    notified,       \* jobs whose post failed, with a notification
    nSaves, pinMoves, pinErrors

pinVars == <<atTry, inList, pinned, pinnedBugs, classification, comment, entering, newBug, shown, saves,
             posts, stored, mapped, notified, nSaves, pinMoves, pinErrors>>
inListVars == <<atTry, inList>>
boardVars == <<pinned, pinnedBugs, classification, comment>>
inputVars == <<entering, newBug>>
pinServerVars == <<shown, saves, posts, stored, mapped, notified, pinErrors>>
\* What only SaveAll and the server's answers change.
aroundVars == <<inListVars, pinServerVars>>

NoClassification == 1
FixedByCommit == 2
Intermittent == 4
BoardClassifications == {NoClassification, FixedByCommit, Intermittent}
\* A comment is empty, shorter than a revision, or long enough for one.
Comments == {0, 7, 8}
NoBug == "none"
NotANumber == "letters"

PinMove == pinMoves < MaxPinMoves /\ pinMoves' = pinMoves + 1

-----------------------------------------------------------------------------
(* The store.                                                              *)

\* pinJob, of the space bar, the thumbtack and the bug filer; also of a job
\* that is pinned already.
PinJob(j) ==
    /\ PinMove
    /\ pinned' = IF MaxSize - Cardinality(pinned) > 0 THEN pinned \cup {j} ELSE pinned
    /\ UNCHANGED <<pinnedBugs, classification, comment, inputVars, aroundVars, nSaves>>

\* Mutation: the jobs are pinned after the error all the same.
PinJobsOfAnyway(S) ==
    /\ PinMove
    /\ pinned' = IF MaxSize - Cardinality(pinned) = 0 THEN pinned ELSE pinned \cup S
    /\ UNCHANGED <<pinnedBugs, classification, comment, inputVars, aroundVars, nSaves>>
\* pinJobs, of all the jobs shown of a push: all or none.
PinJobsOf(S) ==
    LET spaceRemaining == MaxSize - Cardinality(pinned) IN
    /\ PinMove
    /\ pinned' = IF spaceRemaining = 0 \/ Cardinality(S) > spaceRemaining
                 THEN pinned ELSE pinned \cup S
    /\ UNCHANGED <<pinnedBugs, classification, comment, inputVars, aroundVars, nSaves>>

UnPinJob(j) ==
    /\ PinMove
    /\ pinned' = pinned \ {j}
    /\ UNCHANGED <<pinnedBugs, classification, comment, inputVars, aroundVars, nSaves>>

\* addBug with the job it was suggested for.
AddBug(b, j) ==
    /\ PinMove
    /\ pinnedBugs' = pinnedBugs \cup {b}
    /\ pinned' = IF MaxSize - Cardinality(pinned) > 0 THEN pinned \cup {j} ELSE pinned
    /\ UNCHANGED <<classification, comment, inputVars, aroundVars, nSaves>>

RemoveBug(b) ==
    /\ PinMove
    /\ b \in pinnedBugs
    /\ pinnedBugs' = pinnedBugs \ {b}
    /\ UNCHANGED <<pinned, classification, comment, inputVars, aroundVars, nSaves>>

\* Another classification, or a pasted revision that selects one; a comment.
Classify(c, n) ==
    /\ PinMove
    /\ classification' = c /\ comment' = n
    /\ UNCHANGED <<pinned, pinnedBugs, inputVars, aroundVars, nSaves>>

\* `Clear all` (ctrl+shift+u clears the store only), and what a save and the
\* cancelling of all jobs end with.
ClearBoard ==
    /\ pinned' = {} /\ pinnedBugs' = {}
    /\ classification' = Intermittent /\ comment' = 0
UnPinAll ==
    /\ PinMove
    /\ ClearBoard
    /\ entering' = FALSE /\ newBug' = NoBug
    /\ UNCHANGED <<aroundVars, nSaves>>

-----------------------------------------------------------------------------
(* The list of jobs.                                                       *)

\* The jobs of the current repository, and what the server says of one.
Here == IF atTry THEN PinJobs \ StrictJobs ELSE StrictJobs
Known(j) == IF stored[j] = {} THEN {NoClassification} ELSE {n.c : n \in stored[j]}

\* updateRange: another repository or range of pushes is chosen, and the list of
\* jobs is fetched from nothing.
ListRange ==
    /\ PinMove
    /\ atTry' \in BOOLEAN
    /\ inList' = {}
    /\ shown' = [j \in PinJobs |-> NoClassification]
    /\ UNCHANGED <<boardVars, inputVars, saves, posts, stored, mapped, notified, pinErrors, nSaves>>

\* The jobs come, as the server knows them.
JobsListed ==
    /\ inList # Here
    /\ inList' = Here
    /\ shown' \in {f \in [PinJobs -> BoardClassifications] :
                      \A j \in PinJobs : f[j] \in IF j \in Here \ inList THEN Known(j) ELSE {shown[j]}}
    /\ UNCHANGED <<atTry, boardVars, inputVars, saves, posts, stored, mapped, notified, pinErrors,
                   nSaves, pinMoves>>

-----------------------------------------------------------------------------
(* The field for a bug number.                                             *)

\* toggleEnterBugNumber: the field opens empty and closes, and what was typed
\* into it last is kept.
ToggleEnterBugNumber ==
    /\ PinMove
    /\ entering' = ~entering
    /\ UNCHANGED <<boardVars, newBug, aroundVars, nSaves>>

TypeBug(b) ==
    /\ entering /\ PinMove
    /\ newBug' = b
    /\ UNCHANGED <<boardVars, entering, aroundVars, nSaves>>

\* The cross beside the field forgets it.
ClearBugField ==
    /\ entering /\ PinMove
    /\ entering' = FALSE /\ newBug' = NoBug
    /\ UNCHANGED <<boardVars, aroundVars, nSaves>>

\* saveEnteredBugNumber, by Enter, a click outside, or a save.
Enters == entering /\ newBug \in PinBugs
EnteredBugs == IF Enters THEN pinnedBugs \cup {newBug} ELSE pinnedBugs
StillEntering == entering /\ newBug = NotANumber
EnterBug ==
    /\ entering /\ PinMove
    /\ pinnedBugs' = EnteredBugs
    /\ entering' = StillEntering
    /\ UNCHANGED <<pinned, classification, comment, newBug, aroundVars, nSaves>>

-----------------------------------------------------------------------------
(* Saving.                                                                 *)

\* canSaveClassifications: anything goes on try and in project repositories.
CanSave(bugs) ==
    /\ pinned # {}
    /\ \/ bugs # {}
       \/ classification \notin {Intermittent, FixedByCommit}
       \/ atTry
       \/ classification = Intermittent /\ comment > 0
       \/ classification = FixedByCommit /\ comment > 7

\* save: the bug in the field first; an invalid one, or an empty field, refuses
\* the save.  saveClassification looks the job up in jobMap, shows it as classified
\* and posts; one that is not listed is an exception, after which nothing is
\* posted for it and the board is not cleared.  saveBugs posts for every job
\* without anyone waiting.
SaveWith(Posted) ==
    /\ nSaves < MaxSaves
    /\ nSaves' = nSaves + 1
    /\ pinnedBugs' = EnteredBugs
    /\ entering' = StillEntering
    /\ IF (entering => Enters) /\ CanSave(EnteredBugs)
       THEN /\ shown' = [j \in PinJobs |-> IF j \in Posted THEN classification ELSE shown[j]]
            /\ saves' = saves \cup {[id |-> nSaves', waits |-> Posted, all |-> Posted = pinned,
                                     note |-> [c |-> classification, length |-> comment,
                                               bugs |-> EnteredBugs # {}]]}
            /\ posts' = posts \cup (pinned \X EnteredBugs)
       ELSE UNCHANGED <<shown, saves, posts>>
    /\ UNCHANGED <<inListVars, pinned, classification, comment, newBug, stored, mapped,
                   notified, pinMoves, pinErrors>>
\* Mutation: a job is classified as it was pinned, listed or not.
SaveAllPinned == SaveWith(pinned)
SaveAll == SaveWith(pinned \cap inList)

\* A classification is stored, or refused with a notification: the job stays
\* shown as classified either way.
Waited(s, j) == saves' = (saves \ {s}) \cup {[s EXCEPT !.waits = @ \ {j}]}
ClassificationStored(s, j) ==
    /\ stored' = [stored EXCEPT ![j] = @ \cup {s.note}]
    /\ Waited(s, j)
    /\ UNCHANGED <<inListVars, boardVars, inputVars, shown, posts, mapped, notified, nSaves, pinMoves,
                   pinErrors>>
\* Mutation: a refusal is not told.
ClassificationRefusedQuietly(s, j) ==
    /\ pinErrors < MaxPinErrors
    /\ pinErrors' = pinErrors + 1
    /\ Waited(s, j)
    /\ UNCHANGED <<inListVars, boardVars, inputVars, shown, posts, stored, mapped, notified, nSaves,
                   pinMoves>>
ClassificationRefused(s, j) ==
    /\ pinErrors < MaxPinErrors
    /\ pinErrors' = pinErrors + 1
    /\ notified' = notified \cup {j}
    /\ Waited(s, j)
    /\ UNCHANGED <<inListVars, boardVars, inputVars, shown, posts, stored, mapped, nSaves, pinMoves>>

\* All classifications of a save are answered: the board is cleared, with what
\* was pinned since, unless a job of it was not listed.
SaveDone(s) ==
    /\ s.waits = {}
    /\ saves' = saves \ {s}
    /\ IF s.all
       THEN ClearBoard /\ entering' = FALSE /\ newBug' = NoBug
       ELSE UNCHANGED <<boardVars, inputVars>>
    /\ UNCHANGED <<inListVars, shown, posts, stored, mapped, notified, nSaves, pinMoves, pinErrors>>

\* A mapping is stored; a refusal is not an exception, and nobody is told.
BugStored(p) ==
    /\ posts' = posts \ {p}
    /\ mapped' = [mapped EXCEPT ![p[1]] = @ \cup {p[2]}]
    /\ UNCHANGED <<inListVars, boardVars, inputVars, shown, saves, stored, notified, nSaves, pinMoves,
                   pinErrors>>
BugRefused(p) ==
    /\ pinErrors < MaxPinErrors
    /\ pinErrors' = pinErrors + 1
    /\ posts' = posts \ {p}
    /\ UNCHANGED <<inListVars, boardVars, inputVars, shown, saves, stored, mapped, notified, nSaves,
                   pinMoves>>

-----------------------------------------------------------------------------
PinInit ==
    /\ atTry \in BOOLEAN /\ inList = Here
    /\ pinned = {} /\ pinnedBugs = {}
    /\ classification = Intermittent /\ comment = 0
    /\ entering = FALSE /\ newBug = NoBug
    /\ shown = [j \in PinJobs |-> NoClassification]
    /\ saves = {} /\ posts = {} /\ notified = {}
    /\ stored = [j \in PinJobs |-> {}] /\ mapped = [j \in PinJobs |-> {}]
    /\ nSaves = 0 /\ pinMoves = 0 /\ pinErrors = 0

SaveAnswered(s) ==
    \/ \E j \in s.waits : ClassificationStored(s, j) \/ ClassificationRefused(s, j)
    \/ SaveDone(s)

PinNext ==
    \/ \E j \in PinJobs : PinJob(j) \/ UnPinJob(j) \/ \E b \in PinBugs : AddBug(b, j)
    \/ \E S \in SUBSET PinJobs : PinJobsOf(S)
    \/ \E b \in PinBugs : RemoveBug(b)
    \/ \E c \in BoardClassifications, n \in Comments : Classify(c, n)
    \/ UnPinAll
    \/ ListRange \/ JobsListed
    \/ ToggleEnterBugNumber \/ ClearBugField \/ EnterBug
    \/ \E b \in PinBugs \cup {NotANumber} : TypeBug(b)
    \/ SaveAll
    \/ \E s \in saves : SaveAnswered(s)
    \/ \E p \in posts : BugStored(p) \/ BugRefused(p)

PinSpec == PinInit /\ [][PinNext]_pinVars

-----------------------------------------------------------------------------
PinNotes == [c : BoardClassifications, length : Comments, bugs : BOOLEAN]
PinTypeOK ==
    /\ atTry \in BOOLEAN /\ inList \subseteq Here
    /\ pinned \subseteq PinJobs /\ pinnedBugs \subseteq PinBugs /\ notified \subseteq PinJobs
    /\ classification \in BoardClassifications /\ comment \in Comments
    /\ entering \in BOOLEAN /\ newBug \in PinBugs \cup {NoBug, NotANumber}
    /\ shown \in [PinJobs -> BoardClassifications]
    /\ posts \subseteq PinJobs \X PinBugs
    /\ saves \subseteq [id : Nat, waits : SUBSET PinJobs, all : BOOLEAN, note : PinNotes]
    /\ stored \in [PinJobs -> SUBSET PinNotes]
    /\ mapped \in [PinJobs -> SUBSET PinBugs]
    /\ {nSaves, pinMoves, pinErrors} \subseteq Nat

\* The board never holds more jobs than it has room for, whichever way, in
\* whichever order, and how many at a time they are pinned.
BoardBounded == Cardinality(pinned) <= MaxSize

\* A job that is shown as classified has its classification stored, or on the
\* way, or its sheriff was told that it failed: also when two saves of it
\* overlap and answers come in any order.
ShownIsStored ==
    \A j \in PinJobs : shown[j] # NoClassification =>
        \/ \E n \in stored[j] : n.c # NoClassification
        \/ \E s \in saves : j \in s.waits /\ s.note.c # NoClassification
        \/ j \in notified

\* No job is stored as intermittent or fixed by a commit without a bug, a
\* comment, or the revision that fixed it, whatever was typed, removed or
\* cleared before and during the save (canSaveClassifications).  Try and the
\* project repositories are exempt, but not a job of another repository that is
\* still pinned while one of those is on show.
HasReason(n) == n.c = NoClassification \/ n.bugs \/ n.length > IF n.c = FixedByCommit THEN 7 ELSE 0
StoredWithReason == \A j \in StrictJobs : \A n \in stored[j] : HasReason(n)
=============================================================================
