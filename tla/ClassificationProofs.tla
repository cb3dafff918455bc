------------------------ MODULE ClassificationProofs ------------------------
(***************************************************************************)
(* How jobs are classified: the pinboard, which saves classifications, and *)
(* the notes, which store them.  The pinboard keeps to its size, what is   *)
(* shown as classified is stored, on the way or reported, and nothing is   *)
(* stored without the reason it needs, which is inductive only together    *)
(* with what the saves under way carry.  The classification of a job is    *)
(* that of its most recent note, whatever requests overlap and the         *)
(* ingestion does beside them, unless the last save was overtaken by       *)
(* another request (run NotesRace) or a request was cut short.             *)
(***************************************************************************)
EXTENDS PinBoard, JobNotes, ListLemmas

USE DEF NoClassification, FixedByCommit, Intermittent

\* Every save under way of a job that needs a reason carries one.
SavesHaveReason == \A s \in saves : s.waits \cap StrictJobs # {} => HasReason(s.note)

-----------------------------------------------------------------------------
(* Types.                                                                  *)

\* Every variable of the board keeps its type, however moves, saves and
\* answers alternate.
THEOREM PinTypesCorrect == PinSpec => []PinTypeOK
<1>1. PinInit => PinTypeOK
  <2> SUFFICES ASSUME PinInit PROVE PinTypeOK
    OBVIOUS
  <2>1. /\ entering \in BOOLEAN /\ newBug \in PinBugs \cup {NoBug, NotANumber}
        /\ classification \in BoardClassifications /\ comment \in Comments
    BY DEF PinInit, BoardClassifications, Comments
  <2>2. /\ shown \in [PinJobs -> BoardClassifications]
        /\ stored \in [PinJobs -> SUBSET PinNotes] /\ mapped \in [PinJobs -> SUBSET PinBugs]
    BY DEF PinInit, BoardClassifications
  <2>4. atTry \in BOOLEAN /\ inList \subseteq Here
    BY DEF PinInit
  <2>3. {nSaves, pinMoves, pinErrors} \subseteq Nat
    BY DEF PinInit
  <2> QED BY <2>1, <2>2, <2>3, <2>4 DEF PinInit, PinTypeOK
<1>2. ASSUME PinTypeOK, [PinNext]_pinVars
      PROVE  PinTypeOK'
  <2> USE <1>2 DEF PinTypeOK, Here, PinMove, inListVars, boardVars, inputVars, pinServerVars, aroundVars
  <2>1. ASSUME NEW j \in PinJobs, PinJob(j) \/ UnPinJob(j) \/ \E b \in PinBugs : AddBug(b, j)
        PROVE  PinTypeOK'
    BY <2>1 DEF PinJob, UnPinJob, AddBug
  <2>2. ASSUME NEW S \in SUBSET PinJobs, PinJobsOf(S)
        PROVE  PinTypeOK'
    BY <2>2 DEF PinJobsOf
  <2>3. ASSUME NEW b \in PinBugs, RemoveBug(b)
        PROVE  PinTypeOK'
    BY <2>3 DEF RemoveBug
  <2>4. ASSUME NEW c \in BoardClassifications, NEW n \in Comments, Classify(c, n)
        PROVE  PinTypeOK'
    BY <2>4 DEF Classify
  <2>5. CASE UnPinAll
    <3>1. /\ classification' \in BoardClassifications /\ comment' \in Comments
          /\ entering' \in BOOLEAN /\ newBug' \in PinBugs \cup {NoBug, NotANumber}
          /\ pinned' = {} /\ pinnedBugs' = {}
      BY <2>5 DEF UnPinAll, ClearBoard, BoardClassifications, Comments
    <3> QED BY <2>5, <3>1 DEF UnPinAll
  <2>6. CASE ToggleEnterBugNumber \/ ClearBugField
    <3>1. entering' \in BOOLEAN /\ newBug' \in PinBugs \cup {NoBug, NotANumber}
      BY <2>6 DEF ToggleEnterBugNumber, ClearBugField
    <3> QED BY <2>6, <3>1 DEF ToggleEnterBugNumber, ClearBugField
  <2>7. CASE EnterBug
    <3>1. EnteredBugs \subseteq PinBugs /\ StillEntering \in BOOLEAN
      BY DEF EnteredBugs, Enters, StillEntering
    <3> QED BY <2>7, <3>1 DEF EnterBug
  <2>8. ASSUME NEW b \in PinBugs \cup {NotANumber}, TypeBug(b)
        PROVE  PinTypeOK'
    BY <2>8 DEF TypeBug
  <2>9. CASE SaveAll
    <3>1. EnteredBugs \subseteq PinBugs /\ StillEntering \in BOOLEAN
      BY DEF EnteredBugs, Enters, StillEntering
    <3>2. CASE (entering => Enters) /\ CanSave(EnteredBugs)
      <4> DEFINE saved == [c |-> classification, length |-> comment, bugs |-> EnteredBugs # {}]
                 posted == pinned \cap inList
                 new == [id |-> nSaves', waits |-> posted, all |-> posted = pinned, note |-> saved]
      <4>1. saves' = saves \cup {new} /\ nSaves' = nSaves + 1
        BY <2>9, <3>2 DEF SaveAll, SaveWith
      <4>2. saves' \subseteq [id : Nat, waits : SUBSET PinJobs, all : BOOLEAN, note : PinNotes]
        <5>1. saved \in PinNotes
          BY DEF PinNotes
        <5> HIDE DEF saved
        <5>2. nSaves' \in Nat
          BY <4>1
        <5>3. new \in [id : Nat, waits : SUBSET PinJobs, all : BOOLEAN, note : PinNotes]
          BY <5>1, <5>2
        <5> HIDE DEF new
        <5> QED BY <4>1, <5>3
      <4>3. posts' \subseteq PinJobs \X PinBugs
        BY <2>9, <3>1, <3>2 DEF SaveAll, SaveWith
      <4>4. shown' \in [PinJobs -> BoardClassifications]
        BY <2>9, <3>2 DEF SaveAll, SaveWith
      <4> QED BY <2>9, <3>1, <4>2, <4>3, <4>4 DEF SaveAll, SaveWith
    <3>3. CASE ~((entering => Enters) /\ CanSave(EnteredBugs))
      <4>1. UNCHANGED <<shown, saves, posts>>
        BY <2>9, <3>3 DEF SaveAll, SaveWith
      <4> QED BY <2>9, <3>1, <4>1 DEF SaveAll, SaveWith
    <3> QED BY <3>2, <3>3
  <2>10. ASSUME NEW s \in saves, SaveAnswered(s)
         PROVE  PinTypeOK'
    <3>1. [s EXCEPT !.waits = {}] \in [id : Nat, waits : SUBSET PinJobs, all : BOOLEAN, note : PinNotes]
      OBVIOUS
    <3>2. ASSUME NEW j \in s.waits, ClassificationStored(s, j) \/ ClassificationRefused(s, j)
          PROVE  PinTypeOK'
      <4>1. saves' \subseteq [id : Nat, waits : SUBSET PinJobs, all : BOOLEAN, note : PinNotes]
        BY <3>2 DEF ClassificationStored, ClassificationRefused, Waited
      <4>2. stored' \in [PinJobs -> SUBSET PinNotes]
        BY <3>2 DEF ClassificationStored, ClassificationRefused
      <4> QED BY <3>2, <4>1, <4>2 DEF ClassificationStored, ClassificationRefused
    <3>3. CASE SaveDone(s)
      <4>1. CASE s.all
        BY <3>3, <4>1 DEF SaveDone, ClearBoard, BoardClassifications, Comments
      <4>2. CASE ~s.all
        BY <3>3, <4>2 DEF SaveDone
      <4> QED BY <4>1, <4>2
    <3> QED BY <2>10, <3>2, <3>3 DEF SaveAnswered
  <2>11. ASSUME NEW p \in posts, BugStored(p) \/ BugRefused(p)
         PROVE  PinTypeOK'
    BY <2>11 DEF BugStored, BugRefused
  <2>12. CASE ListRange \/ JobsListed
    <3>1. atTry' \in BOOLEAN /\ inList' \subseteq Here'
      BY <2>12 DEF ListRange, JobsListed, Here
    <3>2. shown' \in [PinJobs -> BoardClassifications]
      BY <2>12 DEF ListRange, JobsListed, BoardClassifications
    <3> QED BY <2>12, <3>1, <3>2 DEF ListRange, JobsListed
  <2>13. CASE UNCHANGED pinVars
    BY <2>13 DEF pinVars
  <2> QED
    BY <1>2, <2>1, <2>2, <2>3, <2>4, <2>5, <2>6, <2>7, <2>8, <2>9, <2>10, <2>11, <2>12, <2>13
    DEF PinNext
<1> QED BY <1>1, <1>2, PTL DEF PinSpec

-----------------------------------------------------------------------------
(* The room of the board.                                                  *)

\* Adding one, or a set that fits, to a finite set.
LEMMA CardinalityOfUnion ==
    ASSUME NEW S, NEW T, IsFiniteSet(S), IsFiniteSet(T)
    PROVE  /\ Cardinality(S) \in Nat /\ Cardinality(T) \in Nat
           /\ Cardinality(S \cup T) <= Cardinality(S) + Cardinality(T)
<1>1. /\ Cardinality(S) \in Nat /\ Cardinality(T) \in Nat
      /\ Cardinality(S \cap T) \in Nat
  BY FS_CardinalityType, FS_Intersection
<1>2. Cardinality(S \cup T) = Cardinality(S) + Cardinality(T) - Cardinality(S \cap T)
  BY FS_Union
<1> QED BY <1>1, <1>2

\* However and in whichever order jobs are pinned, the board keeps to its size.
THEOREM BoardBoundedCorrect == PinSpec => []BoardBounded
<1> DEFINE Room == pinned \subseteq PinJobs /\ BoardBounded
<1>1. PinInit => Room
  BY PinBounds, FS_EmptySet DEF PinInit, BoardBounded
<1>2. ASSUME Room, [PinNext]_pinVars
      PROVE  Room'
  <2>1. IsFiniteSet(PinJobs) /\ MaxSize \in Nat
    BY PinBounds
  <2>2. IsFiniteSet(pinned) /\ Cardinality(pinned) \in Nat
    BY <1>2, <2>1, FS_Subset, FS_CardinalityType
  <2>3. ASSUME NEW S \in SUBSET PinJobs, Cardinality(S) <= MaxSize - Cardinality(pinned),
               pinned' = pinned \cup S
        PROVE  Room'
    <3>1. IsFiniteSet(S)
      BY <2>1, FS_Subset
    <3>2. /\ Cardinality(S) \in Nat
          /\ Cardinality(pinned \cup S) <= Cardinality(pinned) + Cardinality(S)
      BY <2>2, <3>1, CardinalityOfUnion
    <3>3. IsFiniteSet(pinned') /\ Cardinality(pinned') \in Nat
      BY <2>2, <2>3, <3>1, FS_Union, FS_CardinalityType
    <3>4. Cardinality(pinned') <= MaxSize
      BY <2>1, <2>2, <2>3, <3>2, <3>3
    <3> QED BY <1>2, <2>3, <3>4 DEF BoardBounded
  <2>4. ASSUME pinned' \subseteq pinned
        PROVE  Room'
    <3>1. Cardinality(pinned') \in Nat /\ Cardinality(pinned') <= Cardinality(pinned)
      BY <2>2, <2>4, FS_Subset, FS_CardinalityType
    <3> QED BY <1>2, <2>1, <2>2, <2>4, <3>1 DEF BoardBounded
  <2>5. ASSUME NEW j \in PinJobs,
               pinned' = IF MaxSize - Cardinality(pinned) > 0 THEN pinned \cup {j} ELSE pinned
        PROVE  Room'
    <3>1. Cardinality({j}) = 1
      BY FS_Singleton
    <3>2. CASE MaxSize - Cardinality(pinned) > 0
      BY <2>1, <2>2, <2>3, <2>5, <3>1, <3>2
    <3>3. CASE ~(MaxSize - Cardinality(pinned) > 0)
      BY <2>4, <2>5, <3>3
    <3> QED BY <3>2, <3>3
  <2>6. ASSUME NEW S \in SUBSET PinJobs, PinJobsOf(S)
        PROVE  Room'
    <3>1. IsFiniteSet(S) /\ Cardinality(S) \in Nat
      BY <2>1, FS_Subset, FS_CardinalityType
    <3>2. CASE pinned' = pinned
      BY <2>4, <3>2
    <3>3. CASE pinned' # pinned
      <4>1. ~(Cardinality(S) > MaxSize - Cardinality(pinned)) /\ pinned' = pinned \cup S
        BY <2>6, <3>3 DEF PinJobsOf
      <4> QED BY <2>1, <2>2, <2>3, <3>1, <4>1
    <3> QED BY <3>2, <3>3
  <2>7. ASSUME NEW j \in PinJobs, PinJob(j) \/ UnPinJob(j) \/ \E b \in PinBugs : AddBug(b, j)
        PROVE  Room'
    <3>1. CASE PinJob(j) \/ \E b \in PinBugs : AddBug(b, j)
      BY <2>5, <3>1 DEF PinJob, AddBug
    <3>2. CASE UnPinJob(j)
      BY <2>4, <3>2 DEF UnPinJob
    <3> QED BY <2>7, <3>1, <3>2
  <2>8. CASE UnPinAll \/ \E s \in saves : SaveDone(s)
    BY <2>4, <2>8 DEF UnPinAll, SaveDone, ClearBoard, boardVars
  <2>9. CASE UNCHANGED pinned
    BY <2>4, <2>9
  <2> QED
    BY <1>2, <2>6, <2>7, <2>8, <2>9
    DEF PinNext, pinVars, boardVars, ListRange, JobsListed, SaveWith, RemoveBug, Classify, ToggleEnterBugNumber, ClearBugField,
        EnterBug, TypeBug, SaveAll, SaveAnswered, ClassificationStored, ClassificationRefused,
        BugStored, BugRefused
<1> QED BY <1>1, <1>2, PTL DEF PinSpec

-----------------------------------------------------------------------------
(* What is shown and what is stored.                                       *)

\* A job shown as classified has its classification stored, on the way, or its
\* refusal reported, for any number of saves that overlap.
THEOREM ShownIsStoredCorrect == PinSpec => []ShownIsStored
<1>1. PinInit => ShownIsStored
  BY DEF PinInit, ShownIsStored
<1>2. ASSUME PinTypeOK, ShownIsStored, [PinNext]_pinVars
      PROVE  ShownIsStored'
  <2>1. CASE SaveAll
    <3>1. CASE (entering => Enters) /\ CanSave(EnteredBugs)
      <4> DEFINE posted == pinned \cap inList
                 new == [id |-> nSaves', waits |-> posted, all |-> posted = pinned,
                         note |-> [c |-> classification, length |-> comment,
                                   bugs |-> EnteredBugs # {}]]
      <4>1. /\ shown' = [j \in PinJobs |-> IF j \in posted THEN classification ELSE shown[j]]
            /\ saves' = saves \cup {new} /\ UNCHANGED <<stored, notified>>
        BY <2>1, <3>1 DEF SaveAll, SaveWith
      <4>2. ASSUME NEW j \in PinJobs, shown'[j] # NoClassification, j \in posted
            PROVE  j \in new.waits /\ new.note.c # NoClassification
        BY <4>1, <4>2
      <4> QED BY <1>2, <4>1, <4>2 DEF ShownIsStored
    <3>2. CASE ~((entering => Enters) /\ CanSave(EnteredBugs))
      BY <1>2, <2>1, <3>2 DEF SaveAll, SaveWith, ShownIsStored
    <3> QED BY <3>1, <3>2
  <2>2. ASSUME NEW s \in saves, NEW k \in s.waits, Waited(s, k),
               \/ stored' = [stored EXCEPT ![k] = @ \cup {s.note}] /\ notified' = notified
               \/ notified' = notified \cup {k} /\ stored' = stored,
               shown' = shown
        PROVE  ShownIsStored'
    <3> DEFINE s2 == [s EXCEPT !.waits = @ \ {k}]
    <3>1. /\ s2 \in saves' /\ s2.waits = s.waits \ {k} /\ s2.note = s.note
          /\ \A t \in saves : t = s \/ t \in saves'
      BY <1>2, <2>2 DEF Waited, PinTypeOK
    <3>2. /\ k \in PinJobs /\ notified \subseteq notified'
          /\ \A j \in PinJobs : stored[j] \subseteq stored'[j]
          /\ s.note \in stored'[k] \/ k \in notified'
      BY <1>2, <2>2 DEF PinTypeOK
    <3> HIDE DEF s2
    <3>3. SUFFICES ASSUME NEW j \in PinJobs, shown[j] # NoClassification
                   PROVE  \/ \E n \in stored'[j] : n.c # NoClassification
                          \/ \E t \in saves' : j \in t.waits /\ t.note.c # NoClassification
                          \/ j \in notified'
      BY <2>2 DEF ShownIsStored
    <3>4. CASE \/ \E n \in stored[j] : n.c # NoClassification
               \/ j \in notified
      BY <3>2, <3>4
    <3>5. ASSUME NEW t \in saves, j \in t.waits, t.note.c # NoClassification
          PROVE  \/ \E n \in stored'[j] : n.c # NoClassification
                 \/ \E u \in saves' : j \in u.waits /\ u.note.c # NoClassification
                 \/ j \in notified'
      <4>1. CASE t # s
        BY <3>1, <3>5, <4>1
      <4>2. CASE t = s /\ j = k
        BY <3>2, <3>5, <4>2
      <4>3. CASE t = s /\ j # k
        BY <3>1, <3>5, <4>3
      <4> QED BY <4>1, <4>2, <4>3
    <3> QED BY <1>2, <3>3, <3>4, <3>5 DEF ShownIsStored
  <2>3. ASSUME NEW s \in saves, SaveDone(s)
        PROVE  ShownIsStored'
    BY <1>2, <2>3 DEF SaveDone, ShownIsStored
  <2>4. ASSUME NEW s \in saves, SaveAnswered(s)
        PROVE  ShownIsStored'
    BY <2>2, <2>3, <2>4 DEF SaveAnswered, ClassificationStored, ClassificationRefused
  <2>5. CASE UNCHANGED <<shown, saves, stored, notified>>
    BY <1>2, <2>5 DEF ShownIsStored
  <2>6. CASE ListRange
    BY <2>6 DEF ListRange, ShownIsStored
  <2>7. CASE JobsListed
    <3>1. UNCHANGED <<saves, stored, notified>>
      BY <2>7 DEF JobsListed
    <3>2. ASSUME NEW j \in PinJobs, shown'[j] # NoClassification
          PROVE  shown[j] # NoClassification \/ \E n \in stored[j] : n.c # NoClassification
      <4>1. shown'[j] \in Known(j) \/ shown'[j] = shown[j]
        BY <2>7 DEF JobsListed
      <4> QED BY <3>2, <4>1 DEF Known
    <3> QED BY <1>2, <3>1, <3>2 DEF ShownIsStored
  <2> QED
    BY <1>2, <2>1, <2>4, <2>5, <2>6, <2>7
    DEF PinNext, pinVars, pinServerVars, aroundVars, PinJob, UnPinJob, AddBug, PinJobsOf, RemoveBug,
        Classify, UnPinAll, ToggleEnterBugNumber, ClearBugField, EnterBug, TypeBug, BugStored,
        BugRefused
<1> QED BY <1>1, <1>2, PinTypesCorrect, PTL DEF PinSpec

\* Nothing is stored without the reason that its classification needs, whatever
\* changes on the board while it is saved, and whichever repository is on show.
THEOREM StoredWithReasonCorrect == PinSpec => []StoredWithReason
<1> DEFINE Inv == StoredWithReason /\ SavesHaveReason
<1>1. PinInit => Inv
  BY PinBounds DEF PinInit, StoredWithReason, SavesHaveReason
<1>2. ASSUME PinTypeOK, Inv, [PinNext]_pinVars
      PROVE  Inv'
  <2>1. CASE SaveAll
    <3>1. CASE (entering => Enters) /\ CanSave(EnteredBugs)
      <4> DEFINE posted == pinned \cap inList
                 n == [c |-> classification, length |-> comment, bugs |-> EnteredBugs # {}]
      <4>1. saves' = saves \cup {[id |-> nSaves', waits |-> posted, all |-> posted = pinned, note |-> n]}
            /\ UNCHANGED stored
        BY <2>1, <3>1 DEF SaveAll, SaveWith
      <4>2. posted \cap StrictJobs # {} => HasReason(n)
        <5>0. SUFFICES ASSUME posted \cap StrictJobs # {} PROVE HasReason(n)
          OBVIOUS
        <5>4. ~atTry
          BY <1>2, <5>0 DEF PinTypeOK, Here
        <5>1. /\ classification \in BoardClassifications /\ comment \in Comments
              /\ n.c = classification /\ n.length = comment /\ n.bugs = (EnteredBugs # {})
          BY <1>2 DEF PinTypeOK
        <5> HIDE DEF n
        <5>2. CASE EnteredBugs # {}
          BY <5>1, <5>2 DEF HasReason
        <5>3. CASE EnteredBugs = {}
          BY <3>1, <5>1, <5>3, <5>4 DEF CanSave, HasReason, BoardClassifications, Comments
        <5> QED BY <5>2, <5>3
      <4> HIDE DEF n
      <4> QED BY <1>2, <4>1, <4>2 DEF StoredWithReason, SavesHaveReason
    <3>2. CASE ~((entering => Enters) /\ CanSave(EnteredBugs))
      BY <1>2, <2>1, <3>2 DEF SaveAll, SaveWith, StoredWithReason, SavesHaveReason
    <3> QED BY <3>1, <3>2
  <2>2. ASSUME NEW s \in saves, SaveAnswered(s)
        PROVE  Inv'
    <3>1. ASSUME NEW k \in s.waits, ClassificationStored(s, k) \/ ClassificationRefused(s, k)
          PROVE  Inv'
      <4>1. \A t \in saves' : t \in saves \/ (t.note = s.note /\ t.waits \subseteq s.waits)
        BY <1>2, <3>1 DEF ClassificationStored, ClassificationRefused, Waited, PinTypeOK
      <4>2. \A j \in PinJobs : \A n \in stored'[j] : n \in stored[j] \/ (n = s.note /\ j = k)
        BY <1>2, <3>1 DEF ClassificationStored, ClassificationRefused, PinTypeOK
      <4>3. s.waits \cap StrictJobs # {} => HasReason(s.note)
        BY <1>2 DEF SavesHaveReason
      <4>4. SavesHaveReason'
        BY <1>2, <4>1, <4>3 DEF SavesHaveReason
      <4>5. StoredWithReason'
        BY <1>2, <3>1, <4>2, <4>3, PinBounds DEF StoredWithReason
      <4> QED BY <4>4, <4>5
    <3>2. CASE SaveDone(s)
      BY <1>2, <3>2 DEF SaveDone, StoredWithReason, SavesHaveReason
    <3> QED BY <2>2, <3>1, <3>2 DEF SaveAnswered
  <2>3. CASE UNCHANGED <<saves, stored>>
    BY <1>2, <2>3 DEF StoredWithReason, SavesHaveReason
  <2> QED
    BY <1>2, <2>1, <2>2, <2>3
    DEF PinNext, pinVars, pinServerVars, aroundVars, ListRange, JobsListed, PinJob, UnPinJob, AddBug, PinJobsOf, RemoveBug,
        Classify, UnPinAll, ToggleEnterBugNumber, ClearBugField, EnterBug, TypeBug, BugStored,
        BugRefused
<1> QED BY <1>1, <1>2, PinTypesCorrect, PTL DEF PinSpec

-----------------------------------------------------------------------------
(* The notes of a job.                                                     *)

USE ClassificationAssumption, NotesBounds

----------------------------------------------------------------------------
(* Type correctness.                                                       *)

\* Notes that exist have a most recent one, since times are bounded.
LEMMA MostRecentExists ==
    ASSUME NEW S \in SUBSET Note, S # {}
    PROVE  \E n \in S : \A m \in S : m.created <= n.created
<1> DEFINE Ages == {MaxNotes - n.created : n \in S}
<1>1. \A n \in S : n.created \in 1..MaxNotes
  BY DEF Note
<1>2. Ages \in SUBSET Nat /\ Ages # {}
  BY <1>1
<1>3. PICK age \in Ages : \A a \in Ages : age <= a
  <2> HIDE DEF Ages
  <2> QED BY <1>2, LeastNumber
<1>4. PICK n \in S : age = MaxNotes - n.created
  OBVIOUS
<1>5. ASSUME NEW m \in S PROVE m.created <= n.created
  <2>1. age <= MaxNotes - m.created
    BY <1>3
  <2> QED BY <1>1, <1>4, <2>1
<1> QED BY <1>5

\* The notes stand for a row of failure_classification.
LEMMA TypeOfNotes ==
    ASSUME NEW S \in SUBSET Note
    PROVE  TypeOf(S) \in Classifications
<1>1. CASE S = {}
  BY <1>1 DEF TypeOf
<1>2. CASE S # {}
  <2>1. MostRecent(S) \in S
    BY <1>2, MostRecentExists DEF MostRecent
  <2> QED BY <1>2, <2>1 DEF TypeOf, Note
<1> QED BY <1>1, <1>2

\* The job and the requests start idle.
LEMMA NotesInitTypes == NotesInit => NotesTypeOK
<1> SUFFICES ASSUME NotesInit PROVE NotesTypeOK
  OBVIOUS
<1>1. job \in Row /\ clock \in 0..MaxNotes /\ notes \subseteq Note
  BY DEF NotesInit, NewJob, Row, States
<1>2. notesPc \in [Requests -> NotesPC] /\ note \in [Requests -> Note \cup {NoNote}] /\ copy \in [Requests -> Row]
  BY <1>1 DEF NotesInit, NewJob, NotesPC
<1> QED BY <1>1, <1>2 DEF NotesInit, NotesTypeOK

\* A step of a request keeps the types.
LEMMA RequestTypes ==
    ASSUME NotesTypeOK, NEW r \in Requests, RequestStep(r)
    PROVE  NotesTypeOK'
<1> USE DEF NotesTypeOK, NotesGoto, Finished, NotesPC, noteHistory, Overtake
<1>0. NewJob \in Row
  BY DEF NewJob, Row, States
<1>1. ASSUME NEW c \in Classifications, Create(r, c) PROVE NotesTypeOK'
  <2>1. clock' = clock + 1 /\ clock + 1 \in 1..MaxNotes
    BY <1>1 DEF Create
  <2>2. [created |-> clock + 1, classification |-> c] \in Note
    BY <2>1 DEF Note
  <2> QED BY <1>1, <2>1, <2>2 DEF Create
<1>2. CASE InsertNote(r)
  BY <1>2 DEF InsertNote
<1>3. ASSUME NEW n \in Note, Destroy(r, n) PROVE NotesTypeOK'
  BY <1>3 DEF Destroy
<1>4. CASE DeleteNote(r)
  BY <1>4 DEF DeleteNote
<1>5. CASE ReadJob(r)
  BY <1>5 DEF ReadJob
<1>6. CASE ReadLatest(r)
  <2>1. [copy[r] EXCEPT !.classification = TypeOf(notes)] \in Row
    BY TypeOfNotes DEF Row
  <2>2. copy' = [copy EXCEPT ![r] = [copy[r] EXCEPT !.classification = TypeOf(notes)]]
    BY <1>6 DEF ReadLatest
  <2>3. copy' \in [Requests -> Row]
    BY <2>1, <2>2
  <2> QED BY <1>6, <2>3 DEF ReadLatest
<1>7. CASE SaveJob(r)
  BY <1>0, <1>7 DEF SaveJob
<1>8. CASE Abort(r)
  BY <1>0, <1>8 DEF Abort
<1> QED BY <1>1, <1>2, <1>3, <1>4, <1>5, <1>6, <1>7, <1>8 DEF RequestStep

\* A step of ingestion, and one that changes nothing, keep the types.
LEMMA OtherTypes ==
    ASSUME NotesTypeOK, (\E s \in States : IngestionUpdate(s)) \/ UNCHANGED notesVars
    PROVE  NotesTypeOK'
<1>1. ASSUME NEW s \in States, IngestionUpdate(s) PROVE NotesTypeOK'
  <2>1. job' \in Row
    BY <1>1 DEF IngestionUpdate, NotesTypeOK, Row
  <2> QED BY <1>1, <2>1 DEF IngestionUpdate, NotesTypeOK, localVars, noteHistory
<1>2. CASE UNCHANGED notesVars
  BY <1>2 DEF NotesTypeOK, notesVars, localVars, noteHistory
<1> QED BY <1>1, <1>2

\* Every variable keeps its type, for any number of requests and notes.
THEOREM NotesTypeCorrect == NotesSpec => []NotesTypeOK
<1>1. NotesInit => NotesTypeOK
  BY NotesInitTypes
<1>2. NotesTypeOK /\ [NotesNext]_notesVars => NotesTypeOK'
  BY RequestTypes, OtherTypes DEF NotesNext
<1> QED BY <1>1, <1>2, PTL DEF NotesSpec

----------------------------------------------------------------------------
(* The classification of the job.                                          *)

\* A request that nobody overtook is about to save what the notes say.
SavesFollow ==
    \A r \in Requests : notesPc[r] = "save" /\ r \notin overtaken
                            => copy[r].classification = TypeOf(notes)

\* A request will save what the notes say, unless it is overtaken or cut short.
WillHeed(r) == notesPc[r] \in {"read", "latest"} \/ (notesPc[r] = "save" /\ r \notin overtaken)

NotesInv ==
    /\ NotesTypeOK
    /\ SavesFollow
    /\ ~behind => job.classification = TypeOf(notes) \/ \E r \in Requests : WillHeed(r)

\* A step of one of the requests.
LEMMA RequestHeeds ==
    ASSUME NotesInv, NEW r \in Requests, RequestStep(r)
    PROVE  SavesFollow' /\ (~behind' => \/ job'.classification = TypeOf(notes')
                                        \/ \E q \in Requests : WillHeed(q)')
<1> DEFINE Follow == SavesFollow'
           Heed == ~behind' => \/ job'.classification = TypeOf(notes')
                               \/ \E q \in Requests : WillHeed(q)'
<1> USE DEF NotesInv, NotesTypeOK, NotesGoto, Finished, SavesFollow, WillHeed, noteHistory, Overtake
<1>1. ASSUME NEW c \in Classifications, Create(r, c) PROVE Follow /\ Heed
  <2>1. /\ notesPc' = [notesPc EXCEPT ![r] = "insert"] /\ notesPc[r] = "idle"
        /\ copy' = [copy EXCEPT ![r] = job] /\ UNCHANGED <<job, notes, overtaken, behind>>
    BY <1>1 DEF Create
  <2>2. \A q \in Requests : WillHeed(q) => WillHeed(q)'
    BY <2>1
  <2> QED BY <2>1, <2>2
<1>2. ASSUME NEW n \in Note, Destroy(r, n) PROVE Follow /\ Heed
  <2>1. /\ notesPc' = [notesPc EXCEPT ![r] = "delete"] /\ notesPc[r] = "idle"
        /\ UNCHANGED <<job, notes, copy, overtaken, behind>>
    BY <1>2 DEF Destroy
  <2>2. \A q \in Requests : WillHeed(q) => WillHeed(q)'
    BY <2>1
  <2> QED BY <2>1, <2>2
<1>3. CASE InsertNote(r) \/ DeleteNote(r)
  <2>1. /\ notesPc'[r] \in {"read", "latest"}
        /\ overtaken' = overtaken \cup {q \in Requests : notesPc[q] = "save"}
        /\ \A q \in Requests : notesPc'[q] = "save" => notesPc[q] = "save"
    <3>1. CASE InsertNote(r)
      BY <3>1 DEF InsertNote
    <3>2. CASE DeleteNote(r)
      BY <3>2 DEF DeleteNote
    <3> QED BY <1>3, <3>1, <3>2
  <2>2. WillHeed(r)'
    BY <2>1
  <2> QED BY <2>1, <2>2
<1>4. CASE ReadJob(r)
  <2>1. /\ notesPc' = [notesPc EXCEPT ![r] = "latest"] /\ notesPc[r] = "read"
        /\ copy' = [copy EXCEPT ![r] = job] /\ UNCHANGED <<job, notes, overtaken, behind>>
    BY <1>4 DEF ReadJob
  <2>2. \A q \in Requests : WillHeed(q) => WillHeed(q)'
    BY <2>1
  <2> QED BY <2>1, <2>2
<1>5. CASE ReadLatest(r)
  <2>1. /\ notesPc' = [notesPc EXCEPT ![r] = "save"] /\ notesPc[r] = "latest"
        /\ copy' = [copy EXCEPT ![r] = [copy[r] EXCEPT !.classification = TypeOf(notes)]]
        /\ UNCHANGED <<job, notes, overtaken, behind>>
    BY <1>5 DEF ReadLatest
  <2>2. copy'[r].classification = TypeOf(notes)
    BY <2>1 DEF Row
  <2>3. \A q \in Requests : WillHeed(q) => WillHeed(q)'
    BY <2>1
  <2> QED BY <2>1, <2>2, <2>3
<1>6. CASE SaveJob(r)
  <2>1. /\ notesPc' = [notesPc EXCEPT ![r] = "idle"] /\ notesPc[r] = "save"
        /\ job' = copy[r] /\ behind' = (r \in overtaken)
        /\ overtaken' = overtaken \ {r} /\ UNCHANGED notes
        /\ \A q \in Requests \ {r} : copy'[q] = copy[q]
    BY <1>6 DEF SaveJob
  <2> QED BY <2>1
<1>7. CASE Abort(r)
  <2>1. /\ notesPc' = [notesPc EXCEPT ![r] = "idle"] /\ behind' = (behind \/ WillHeed(r))
        /\ overtaken' = overtaken \ {r} /\ UNCHANGED <<job, notes>>
        /\ \A q \in Requests \ {r} : copy'[q] = copy[q]
    BY <1>7 DEF Abort
  <2>2. \A q \in Requests \ {r} : WillHeed(q) => WillHeed(q)'
    BY <2>1
  <2> QED BY <2>1, <2>2
<1> QED BY <1>1, <1>2, <1>3, <1>4, <1>5, <1>6, <1>7 DEF RequestStep

\* A job has the classification of its most recent note, for any number of
\* requests at once, of notes, interruptions and ingested messages, unless the last
\* save was overtaken or a request was cut short since.
THEOREM ClassificationCurrentCorrect == NotesSpec => []ClassificationCurrent
<1>1. NotesInit => NotesInv
  BY NotesInitTypes DEF NotesInit, NewJob, NotesInv, SavesFollow, TypeOf
<1>2. NotesInv /\ [NotesNext]_notesVars => NotesInv'
  <2> SUFFICES ASSUME NotesInv, [NotesNext]_notesVars PROVE NotesInv'
    OBVIOUS
  <2>1. ASSUME NEW s \in States, IngestionUpdate(s) PROVE NotesInv'
    <3>1. job'.classification = job.classification
      BY <2>1 DEF IngestionUpdate, NotesInv, NotesTypeOK, Row
    <3> QED BY <2>1, <3>1, OtherTypes
            DEF IngestionUpdate, NotesInv, SavesFollow, WillHeed, localVars, noteHistory
  <2>2. ASSUME NEW r \in Requests, RequestStep(r) PROVE NotesInv'
    BY <2>2, RequestTypes, RequestHeeds DEF NotesInv
  <2>3. CASE UNCHANGED notesVars
    BY <2>3, OtherTypes DEF NotesInv, SavesFollow, WillHeed, notesVars, localVars, noteHistory
  <2> QED BY <2>1, <2>2, <2>3 DEF NotesNext
<1>3. NotesInv => ClassificationCurrent
  BY DEF NotesInv, WillHeed, ClassificationCurrent
<1> QED BY <1>1, <1>2, <1>3, PTL DEF NotesSpec
=============================================================================
