----------------------------- MODULE SimilarJobs -----------------------------
(***************************************************************************)
(* The tab of similar jobs (SimilarJobsTab.jsx): pages of the jobs that    *)
(* are like the selected one, on the same platform and with the same       *)
(* options unless those boxes are unticked, and one of them in detail.  An *)
(* answer appends to the list its request began with.                      *)
(***************************************************************************)
EXTENDS Integers, SequencesExt

CONSTANTS
    SimilarTo,       \* the similar jobs by the boxes that are ticked, newest first
    PageSize,
    MaxSimilarMoves, MaxSimilarLoads

Boxes == {"platform", "options"}
ASSUME SimilarParameters ==
    /\ DOMAIN SimilarTo = SUBSET Boxes
    /\ \A b \in SUBSET Boxes : SimilarTo[b] \in Seq(ToSet(SimilarTo[b]))
    /\ PageSize \in Nat \ {0} /\ {MaxSimilarMoves, MaxSimilarLoads} \subseteq Nat

VARIABLES
    ticked, page, similarJobs, hasNextPage, similarLoading, selectedSimilar,
    similarLoads,  \* getSimilarJobs under way, of the jobs and then of their pushes
    infoLoads,     \* showJobInfo under way
    similarThrown, \* history: the connection of a load broke, and none began since
    similarMoves, nSimilarLoads

listOfSimilar == <<ticked, page, similarJobs, hasNextPage, similarLoading>>
loadsOfSimilar == <<similarLoads, similarThrown>>
similarVars == <<listOfSimilar, selectedSimilar, loadsOfSimilar, infoLoads, similarMoves, nSimilarLoads>>

NoSimilar == "none"
SimilarMove == similarMoves < MaxSimilarMoves /\ similarMoves' = similarMoves + 1
SimilarJobIds == UNION {ToSet(SimilarTo[b]) : b \in SUBSET Boxes}

GetSimilarJobs ==
    /\ nSimilarLoads < MaxSimilarLoads /\ nSimilarLoads' = nSimilarLoads + 1
    /\ similarLoads' = similarLoads \cup
        {[id |-> nSimilarLoads', boxes |-> ticked', offset |-> (page' - 1) * PageSize, before |-> similarJobs',
          first |-> selectedSimilar = NoSimilar, jobs |-> <<>>, stage |-> "jobs"]}
    /\ similarLoading' = TRUE /\ similarThrown' = FALSE

\* One more than a page tells whether there is another page.
JobsAnswered(l) ==
    LET all == SimilarTo[l.boxes]
        rest == SubSeq(all, l.offset + 1, Min({Len(all), l.offset + PageSize + 1}))
        found == IF Len(rest) > PageSize THEN Front(rest) ELSE rest
    IN
    /\ l.stage = "jobs"
    /\ hasNextPage' = (Len(rest) > PageSize)
    /\ similarLoads' = (similarLoads \ {l}) \cup {[l EXCEPT !.stage = "pushes", !.jobs = found]}
    /\ UNCHANGED <<ticked, page, similarJobs, similarLoading, selectedSimilar, infoLoads, similarMoves,
                   similarThrown, nSimilarLoads>>
PushesAnswered(l) ==
    /\ l.stage = "pushes"
    /\ similarLoads' = similarLoads \ {l}
    /\ similarJobs' = l.before \o l.jobs
    /\ infoLoads' = IF l.first /\ l.jobs # <<>> THEN infoLoads \cup {Head(l.jobs)} ELSE infoLoads
    /\ similarLoading' = FALSE
    /\ UNCHANGED <<ticked, page, hasNextPage, selectedSimilar, similarMoves, similarThrown,
                   nSimilarLoads>>
SimilarRefused(l) ==
    /\ similarLoads' = similarLoads \ {l}
    /\ similarLoading' = FALSE
    /\ UNCHANGED <<ticked, page, similarJobs, hasNextPage, selectedSimilar, infoLoads, similarMoves,
                   similarThrown, nSimilarLoads>>
\* No answer at all: nothing catches what getData throws.
SimilarThrows(l) ==
    /\ similarLoads' = similarLoads \ {l} /\ similarThrown' = TRUE
    /\ UNCHANGED <<listOfSimilar, selectedSimilar, infoLoads, similarMoves, nSimilarLoads>>

\* The overlay keeps the mouse off, not the keyboard.
ShowNext ==
    /\ SimilarMove /\ hasNextPage
    /\ page' = page + 1
    /\ UNCHANGED <<ticked, similarJobs, hasNextPage, selectedSimilar, infoLoads>>
    /\ GetSimilarJobs
ToggleFilter(b) ==
    /\ SimilarMove
    /\ ticked' = IF b \in ticked THEN ticked \ {b} ELSE ticked \cup {b}
    /\ similarJobs' = <<>>
    /\ UNCHANGED <<page, hasNextPage, selectedSimilar, infoLoads>>
    /\ GetSimilarJobs

ShowJobInfo(j) ==
    /\ SimilarMove /\ Contains(similarJobs, j)
    /\ infoLoads' = infoLoads \cup {j}
    /\ UNCHANGED <<listOfSimilar, selectedSimilar, loadsOfSimilar, nSimilarLoads>>
InfoAnswered(j) ==
    /\ infoLoads' = infoLoads \ {j}
    /\ selectedSimilar' = j
    /\ UNCHANGED <<listOfSimilar, loadsOfSimilar, similarMoves, nSimilarLoads>>

SimilarInit ==
    /\ ticked = Boxes /\ page = 1 /\ similarJobs = <<>> /\ hasNextPage = FALSE /\ similarLoading = TRUE
    /\ selectedSimilar = NoSimilar /\ infoLoads = {}
    /\ similarThrown = FALSE
    /\ similarLoads = {[id |-> 0, boxes |-> Boxes, offset |-> 0, before |-> <<>>, first |-> TRUE,
                        jobs |-> <<>>, stage |-> "jobs"]}
    /\ similarMoves = 0 /\ nSimilarLoads = 0

SimilarNext ==
    \/ \E l \in similarLoads : JobsAnswered(l) \/ PushesAnswered(l) \/ SimilarRefused(l)
                             \/ SimilarThrows(l)
    \/ ShowNext
    \/ \E b \in Boxes : ToggleFilter(b)
    \/ \E j \in SimilarJobIds : ShowJobInfo(j)
    \/ \E j \in infoLoads : InfoAnswered(j)

SimilarSpec == SimilarInit /\ [][SimilarNext]_similarVars

-----------------------------------------------------------------------------
SimilarTypeOK ==
    /\ ticked \subseteq Boxes /\ page \in Nat \ {0}
    /\ ToSet(similarJobs) \subseteq SimilarJobIds
    /\ selectedSimilar \in SimilarJobIds \cup {NoSimilar} /\ infoLoads \subseteq SimilarJobIds
    /\ {hasNextPage, similarLoading, similarThrown} \subseteq BOOLEAN

\* The overlay is there only while a list is awaited, whatever was unticked,
\* paged or refused meanwhile; but it stays when a connection broke.
OverlayIsAwaited == similarLoading => similarLoads # {} \/ similarThrown
=============================================================================
