---------------------------- MODULE CompareChooser ----------------------------
(***************************************************************************)
(* Choosing what to compare (CompareSelectorView.jsx): two cards           *)
(* (SelectorCard.jsx), each with a project, its recent revisions and a     *)
(* revision that is typed or picked; a typed one that is not among the     *)
(* recent ones is looked up.  The cards share one button.                  *)
(***************************************************************************)
EXTENDS Integers, FiniteSets

CONSTANTS
    ChooserProjects,
    RecentOf,        \* the recent revisions of each project
    PushedTo,        \* all revisions of each project
    MaxChooserMoves, MaxRecentLoads

ChooserRevisions == UNION {PushedTo[p] : p \in ChooserProjects}
ASSUME ChooserParameters ==
    /\ \A p \in ChooserProjects : RecentOf[p] \subseteq PushedTo[p]
    /\ {MaxChooserMoves, MaxRecentLoads} \subseteq Nat

VARIABLES
    project, revision,   \* of each card, kept by the page
    cards,               \* state of each card
    disableButton, missingRevision, chooserError, chosenFramework,
    recentLoads, lookups, \* requests under way
    lookupThrown, \* history: the cards of which a look-up threw since the last was sent
    comparing, chooserMoves, nRecentLoads

pageVars == <<project, revision, disableButton, missingRevision, chooserError, chosenFramework>>
chooserReqVars == <<recentLoads, lookups, lookupThrown, nRecentLoads>>
chooserVars == <<pageVars, cards, chooserReqVars, comparing, chooserMoves>>

Cards == {"base", "new"}
NoRecent == "none"
ShortRevision == "short"   \* text that is not forty characters
ChooserMove == chooserMoves < MaxChooserMoves /\ chooserMoves' = chooserMoves + 1 /\ comparing = {}

-----------------------------------------------------------------------------
\* fetchRevisions has the revision the card had, to validate it again later.
FetchRevisions(c, p) ==
    /\ nRecentLoads < MaxRecentLoads /\ nRecentLoads' = nRecentLoads + 1
    /\ cards' = [cards EXCEPT ![c].disabled = TRUE]
    /\ recentLoads' = recentLoads \cup {[id |-> nRecentLoads', card |-> c, project |-> p, revision |-> revision[c]]}
UpdateRevisions(c, p) ==
    /\ ChooserMove
    /\ FetchRevisions(c, p)
    /\ project' = [project EXCEPT ![c] = p]
    /\ UNCHANGED <<revision, disableButton, missingRevision, chooserError, chosenFramework, lookups,
                   lookupThrown, comparing>>

SelectRevision(c, r) ==
    /\ ChooserMove /\ ~cards[c].disabled
    /\ cards[c].recent # NoRecent /\ r \in RecentOf[cards[c].recent]
    /\ revision' = [revision EXCEPT ![c] = r]
    /\ cards' = [cards EXCEPT ![c].invalid = FALSE]
    /\ disableButton' = FALSE /\ missingRevision' = FALSE
    /\ UNCHANGED <<project, chooserError, chosenFramework, chooserReqVars, comparing>>

\* validateInput: the outcome at once, unless the revision is looked up.  A long
\* one, before the first list has come, fails.
RevisionAccepted(cs, c) == [cs EXCEPT ![c].invalid = FALSE, ![c].validating = FALSE, ![c].validated = TRUE]
Rejected(cs, c) == [cs EXCEPT ![c].invalid = TRUE, ![c].validating = FALSE, ![c].validated = TRUE]
ValidateInput(c, value, cs) ==
    LET known == IF cs[c].recent = NoRecent THEN {} ELSE RecentOf[cs[c].recent] IN
    /\ revision' = [revision EXCEPT ![c] = value]
    /\ CASE value = "" ->
              cards' = [cs EXCEPT ![c].validated = FALSE] /\ disableButton' = TRUE
                /\ UNCHANGED <<missingRevision, lookups, lookupThrown>>
         [] value = ShortRevision ->
              cards' = [cs EXCEPT ![c].invalid = TRUE] /\ disableButton' = TRUE
                /\ UNCHANGED <<missingRevision, lookups, lookupThrown>>
         [] value \in ChooserRevisions /\ cs[c].recent = NoRecent ->
              cards' = cs /\ disableButton' = TRUE /\ UNCHANGED <<missingRevision, lookups, lookupThrown>>
         [] value \in known ->
              cards' = RevisionAccepted(cs, c) /\ disableButton' = FALSE /\ missingRevision' = FALSE
                /\ UNCHANGED <<lookups, lookupThrown>>
         [] OTHER ->
              cards' = [cs EXCEPT ![c].validating = TRUE] /\ disableButton' = TRUE
                /\ lookups' = lookups \cup {[id |-> <<chooserMoves, Cardinality(recentLoads)>>, card |-> c,
                                             project |-> project[c], revision |-> value]}
                /\ lookupThrown' = lookupThrown \ {c}
                /\ UNCHANGED missingRevision
TypeRevision(c, value) ==
    /\ ChooserMove /\ value # revision[c]
    /\ ValidateInput(c, value, cards)
    /\ UNCHANGED <<project, chooserError, chosenFramework, recentLoads, nRecentLoads, comparing>>
FocusRevision(c) ==
    /\ ChooserMove
    /\ cards' = [cards EXCEPT ![c].invalid = FALSE, ![c].validated = FALSE]
    /\ UNCHANGED <<pageVars, chooserReqVars, comparing>>

RecentAnswered(q) ==
    LET cs == [cards EXCEPT ![q.card].recent = q.project, ![q.card].disabled = FALSE] IN
    /\ recentLoads' = recentLoads \ {q}
    /\ IF q.revision # "" THEN ValidateInput(q.card, q.revision, cs)
       ELSE cards' = cs /\ UNCHANGED <<revision, disableButton, missingRevision, lookups, lookupThrown>>
    /\ UNCHANGED <<project, chooserError, chosenFramework, nRecentLoads, comparing, chooserMoves>>
RecentRefused(q) ==
    /\ recentLoads' = recentLoads \ {q}
    /\ chooserError' = TRUE
    /\ UNCHANGED <<project, revision, disableButton, missingRevision, chosenFramework, cards, lookups,
                   lookupThrown, nRecentLoads, comparing, chooserMoves>>
\* A fetch that throws is caught nowhere: the list of the card stays disabled.
RecentThrows(q) ==
    /\ recentLoads' = recentLoads \ {q}
    /\ UNCHANGED <<pageVars, cards, lookups, lookupThrown, nRecentLoads, comparing, chooserMoves>>

LookupAnswered(q) ==
    /\ lookups' = lookups \ {q}
    /\ IF q.revision \in PushedTo[q.project]
       THEN cards' = RevisionAccepted(cards, q.card) /\ disableButton' = FALSE /\ missingRevision' = FALSE
       ELSE cards' = Rejected(cards, q.card) /\ UNCHANGED <<disableButton, missingRevision>>
    /\ UNCHANGED <<project, revision, chooserError, chosenFramework, recentLoads, lookupThrown, nRecentLoads,
                   comparing, chooserMoves>>
LookupRefused(q) ==
    /\ lookups' = lookups \ {q}
    /\ cards' = Rejected(cards, q.card)
    /\ UNCHANGED <<pageVars, recentLoads, lookupThrown, nRecentLoads, comparing, chooserMoves>>
\* And the card goes on validating.
LookupThrows(q) ==
    /\ lookups' = lookups \ {q}
    /\ lookupThrown' = lookupThrown \cup {q.card}
    /\ UNCHANGED <<pageVars, cards, recentLoads, nRecentLoads, comparing, chooserMoves>>

ChooseFramework(f) ==
    /\ ChooserMove
    /\ chosenFramework' = f
    /\ UNCHANGED <<project, revision, disableButton, missingRevision, chooserError, cards, chooserReqVars,
                   comparing>>
\* The comparison is one page, that of the infrastructure (framework 0) another.
SubmitData ==
    /\ ChooserMove /\ ~(revision["new"] # "" /\ disableButton)
    /\ IF revision["new"] = ""
       THEN missingRevision' = TRUE /\ UNCHANGED comparing
       ELSE /\ comparing' = {[base |-> revision["base"], new |-> revision["new"], infra |-> chosenFramework = 0,
                              range |-> revision["base"] = ""]}
            /\ UNCHANGED missingRevision
    /\ UNCHANGED <<project, revision, disableButton, chooserError, chosenFramework, cards, chooserReqVars>>

-----------------------------------------------------------------------------
\* Each card fetches the revisions of the project the URL names.
ChooserInit ==
    /\ project \in [Cards -> ChooserProjects]
    /\ revision \in {[c \in Cards |-> ""]} \cup [Cards -> ChooserRevisions]
    /\ disableButton = TRUE /\ missingRevision = FALSE /\ chooserError = FALSE /\ chosenFramework = 1
    /\ cards = [c \in Cards |-> [recent |-> NoRecent, disabled |-> TRUE, invalid |-> FALSE,
                                 validating |-> FALSE, validated |-> FALSE]]
    /\ recentLoads = {[id |-> 0, card |-> c, project |-> project[c], revision |-> revision[c]] : c \in Cards}
    /\ lookups = {} /\ lookupThrown = {} /\ comparing = {} /\ chooserMoves = 0 /\ nRecentLoads = 0

ChooserNext ==
    \/ \E c \in Cards :
        \/ \E p \in ChooserProjects : UpdateRevisions(c, p)
        \/ \E r \in ChooserRevisions : SelectRevision(c, r)
        \/ \E r \in ChooserRevisions \cup {"", ShortRevision} : TypeRevision(c, r)
        \/ FocusRevision(c)
    \/ \E q \in recentLoads : RecentAnswered(q) \/ RecentRefused(q) \/ RecentThrows(q)
    \/ \E q \in lookups : LookupAnswered(q) \/ LookupRefused(q) \/ LookupThrows(q)
    \/ \E f \in {0, 1} : ChooseFramework(f)
    \/ SubmitData

ChooserSpec == ChooserInit /\ [][ChooserNext]_chooserVars

-----------------------------------------------------------------------------
ChooserTypeOK ==
    /\ project \in [Cards -> ChooserProjects]
    /\ revision \in [Cards -> ChooserRevisions \cup {"", ShortRevision}]
    /\ {disableButton, missingRevision, chooserError} \subseteq BOOLEAN

\* A card says "Validating..." only while an answer about one of its revisions
\* is awaited, whatever was typed, picked or fetched meanwhile, or a fetch about
\* one threw since the last one was sent.
ValidatingIsAwaited ==
    \A c \in Cards : cards[c].validating => c \in lookupThrown \/ \E q \in lookups : q.card = c
=============================================================================
