------------------------ MODULE PushIngestionProofs ------------------------
(***************************************************************************)
(* Theorems about PushIngestion: its types, and that the cached push id    *)
(* never runs ahead of the table of pushes.                                *)
(***************************************************************************)
EXTENDS PushIngestion, TLAPS

\* A fetcher holds revisions, and the memory of a failure, only while it stores.
LocalInv ==
    \A f \in Fetchers : pc[f] # "store" => todo[f] = {} /\ ~failed[f]

\* No id counts in a numbering that is still to come.
GenInv == cache.gen <= gen /\ \A f \in Fetchers : cursor[f].gen <= gen

\* Every push up to c, when c counts in the present numbering, is settled or
\* one of the revisions in rs.
Reached(c, rs) ==
    c.gen = gen =>
        /\ c.id <= Len(remote)
        /\ \A i \in DOMAIN remote : i <= c.id => remote[i] \in rs \/ Settled(remote[i])

\* What is remembered is reached; what a fetcher remembers will be reached when
\* it has stored what it holds, unless it has failed to.
CursorInv ==
    /\ Reached(cache, {})
    /\ \A f \in Fetchers : ~failed[f] => Reached(cursor[f], todo[f])

PushInv == TypeOK /\ LocalInv /\ GenInv /\ CursorInv

----------------------------------------------------------------------------
\* The types of all variables of PushIngestion are kept by every step: what a
\* fetch leaves to be stored has a revision.
LEMMA TypeInit == Init => TypeOK
  BY PushBounds DEF Init, TypeOK, Cursor, NoCursor, PC, Revision

LEMMA TypeStep == TypeOK /\ [Next]_vars => TypeOK'
<1> SUFFICES ASSUME TypeOK, [Next]_vars
             PROVE  TypeOK'
  OBVIOUS
<1> USE PushBounds
<1> USE DEF TypeOK, remoteVars, fetcherVars
<1>0. NoCursor \in Cursor /\ "idle" \in PC /\ "fetch" \in PC /\ "forget" \in PC /\ "store" \in PC
  BY DEF NoCursor, Cursor, PC
<1>r. ASSUME NEW ids \in SUBSET DOMAIN remote
      PROVE  RevisionsOf(ids) \subseteq Revision
  BY <1>r DEF RevisionsOf
<1>1. CASE Push
  <2>1. made + 1 \in Revision \cup {Obsolete} /\ made' \in 0..MaxPushes
    BY <1>1 DEF Push, Revision
  <2>2. remote' \in Seq(Revision \cup {Obsolete}) /\ Len(remote') = Len(remote) + 1
    BY <1>1, <2>1 DEF Push
  <2>3. Len(remote) \in Nat
    OBVIOUS
  <2>4. Len(remote) + 1 \in 1..MaxPushes
    BY <1>1, <2>3 DEF Push
  <2>5. announced' \subseteq 1..MaxPushes
    BY <1>1, <2>4 DEF Push
  <2>6. Len(remote') <= made'
    BY <1>1, <2>2, <2>3 DEF Push
  <2>7. UNCHANGED <<gen, obsoleted, stored, passed, cache, pc, cursor, todo, failed,
                    errors, expiries>>
    BY <1>1 DEF Push
  <2> QED
    BY <2>1, <2>2, <2>5, <2>6, <2>7
<1>2. ASSUME NEW i \in DOMAIN remote, MarkObsolete(i)
      PROVE  TypeOK'
  <2>1. remote' \in Seq(Revision \cup {Obsolete}) /\ Len(remote') = Len(remote)
    BY <1>2 DEF MarkObsolete
  <2>2. obsoleted' \in Nat
    BY <1>2 DEF MarkObsolete
  <2>3. UNCHANGED <<gen, made, announced, stored, passed, cache, pc, cursor, todo, failed,
                    errors, expiries>>
    BY <1>2 DEF MarkObsolete
  <2> QED
    BY <2>1, <2>2, <2>3
<1>3. CASE Reset
  BY <1>3 DEF Reset
<1>4. CASE Expire
  BY <1>0, <1>4 DEF Expire
<1>5. ASSUME NEW i \in announced, StorePulsePush(i)
      PROVE  TypeOK'
  <2>1. RevisionsOf({i} \cap DOMAIN remote) \subseteq Revision
    BY <1>r
  <2> QED
    BY <1>5, <2>1 DEF StorePulsePush
<1>6. ASSUME NEW f \in Fetchers, Fetcher(f)
      PROVE  TypeOK'
  <2>l. ASSUME Leave(f)
        PROVE  /\ pc' \in [Fetchers -> PC] /\ cursor' \in [Fetchers -> Cursor]
               /\ todo' \in [Fetchers -> SUBSET Revision]
               /\ failed' \in [Fetchers -> BOOLEAN]
    BY <1>0, <2>l DEF Leave, Goto
  <2>1. CASE Start(f)
    BY <1>0, <2>1 DEF Start, Goto
  <2>2. CASE FetchAfterReset(f)
    BY <1>0, <2>2 DEF FetchAfterReset, Goto
  <2>3. CASE FetchNothing(f)
    BY <2>l, <2>3 DEF FetchNothing
  <2>4. CASE FetchPushes(f)
    <3> DEFINE ids == PushesSince(cursor[f])
    <3>1. ids \subseteq DOMAIN remote
      BY DEF PushesSince
    <3>2. RevisionsOf(ids) \subseteq Revision /\ RevisionsOf(DOMAIN remote \ ids) \subseteq Revision
      BY <1>r, <3>1
    <3>3. [gen |-> IF cursor[f].id = 0 \/ cursor[f].gen = gen THEN gen ELSE 0,
           id |-> Len(remote)] \in Cursor
      BY DEF Cursor
    <3> HIDE DEF ids
    <3> QED
      BY <1>0, <2>4, <3>2, <3>3 DEF FetchPushes, Goto, ids
  <2>5. CASE Forget(f)
    BY <1>0, <2>5 DEF Forget, Goto
  <2>6. ASSUME NEW r \in Revision, StorePush(f, r)
        PROVE  TypeOK'
    BY <2>6 DEF StorePush
  <2>7. CASE Finish(f)
    BY <2>l, <2>7 DEF Finish
  <2>8. CASE Abort(f)
    BY <2>l, <2>8 DEF Abort
  <2>9. ASSUME NEW r \in Revision, StorePushFails(f, r)
        PROVE  TypeOK'
    BY <2>9 DEF StorePushFails
  <2> QED
    BY <1>6, <2>1, <2>2, <2>3, <2>4, <2>5, <2>6, <2>7, <2>8, <2>9 DEF Fetcher, FetcherStep
<1>7. CASE UNCHANGED vars
  BY <1>7 DEF vars
<1> QED
  BY <1>1, <1>2, <1>3, <1>4, <1>5, <1>6, <1>7 DEF Next

\* Every variable keeps its type for any number of fetchers, pushes, resets and
\* failures; no push without changesets reaches the table.
THEOREM PushTypesCorrect == Spec => []TypeOK
  BY TypeInit, TypeStep, PTL DEF Spec

----------------------------------------------------------------------------
LEMMA InvInit == Init => PushInv
<1> SUFFICES ASSUME Init
             PROVE  PushInv
  OBVIOUS
<1>1. LocalInv /\ GenInv
  BY DEF Init, LocalInv, GenInv, NoCursor
<1>2. CursorInv
  BY DEF Init, CursorInv, Reached, NoCursor
<1> QED
  BY <1>1, <1>2, TypeInit DEF PushInv

LEMMA LocalStep == PushInv /\ [Next]_vars => LocalInv'
<1> SUFFICES ASSUME TypeOK, LocalInv, [Next]_vars
             PROVE  LocalInv'
  BY DEF PushInv
<1> USE DEF TypeOK, LocalInv, remoteVars, fetcherVars
<1>1. CASE UNCHANGED fetcherVars
  BY <1>1
<1>2. ASSUME NEW f \in Fetchers, Fetcher(f)
      PROVE  LocalInv'
  BY <1>2 DEF Fetcher, FetcherStep, Start, FetchAfterReset, FetchNothing, FetchPushes,
              Forget, StorePush, Finish, Abort, StorePushFails, Leave, Goto
<1> QED
  BY <1>1, <1>2 DEF Next, Push, MarkObsolete, Reset, Expire, StorePulsePush, vars

LEMMA GenStep == PushInv /\ [Next]_vars => GenInv'
<1> SUFFICES ASSUME TypeOK, GenInv, [Next]_vars
             PROVE  GenInv'
  BY DEF PushInv
<1> USE PushBounds
<1> USE DEF TypeOK, GenInv, remoteVars, fetcherVars
<1>t. /\ gen \in Nat /\ cache.gen \in Nat /\ NoCursor.gen = 0
      /\ \A f \in Fetchers : cursor[f].gen \in Nat
  BY DEF Cursor, NoCursor
<1>1. ASSUME UNCHANGED <<cache, cursor>>, gen' = gen \/ gen' = gen + 1
      PROVE  GenInv'
  BY <1>1, <1>t
<1>2. CASE Expire
  BY <1>2, <1>t DEF Expire
<1>3. ASSUME NEW f \in Fetchers, Fetcher(f)
      PROVE  GenInv'
  <2>1. gen' = gen /\ cache' \in {cache, NoCursor, cursor[f]}
    BY <1>3 DEF Fetcher, FetcherStep, Start, FetchAfterReset, FetchNothing, FetchPushes,
                Forget, StorePush, Finish, Abort, StorePushFails
  <2>2. PICK c : cursor' = [cursor EXCEPT ![f] = c] /\ c.gen \in {cache.gen, cursor[f].gen, 0, gen}
    <3>1. CASE FetchPushes(f)
      <4> DEFINE c == [gen |-> IF cursor[f].id = 0 \/ cursor[f].gen = gen THEN gen ELSE 0,
                       id |-> Len(remote)]
      <4>1. cursor' = [cursor EXCEPT ![f] = c]
        BY <3>1 DEF FetchPushes
      <4>2. c.gen \in {0, gen}
        OBVIOUS
      <4> QED
        BY <4>1, <4>2
    <3>2. CASE UNCHANGED cursor
      <4>1. cursor' = [cursor EXCEPT ![f] = cursor[f]]
        BY <3>2
      <4> QED
        BY <4>1
    <3>3. CASE cursor' = [cursor EXCEPT ![f] = cache] \/ cursor' = [cursor EXCEPT ![f] = NoCursor]
      BY <3>3, <1>t
    <3> QED
      BY <1>3, <3>1, <3>2, <3>3
      DEF Fetcher, FetcherStep, Start, FetchAfterReset, FetchNothing,
          Forget, StorePush, Finish, Abort, StorePushFails, Leave
  <2>3. c.gen <= gen
    BY <2>2, <1>t
  <2> QED
    BY <2>1, <2>2, <2>3, <1>t
<1> QED
  BY <1>1, <1>2, <1>3 DEF Next, Push, MarkObsolete, Reset, StorePulsePush, vars

LEMMA CursorStep == PushInv /\ [Next]_vars => CursorInv'
<1> SUFFICES ASSUME PushInv, [Next]_vars
             PROVE  CursorInv'
  OBVIOUS
<1> USE PushBounds
<1> USE DEF PushInv, TypeOK, CursorInv, remoteVars, fetcherVars
<1>t. /\ gen \in Nat /\ gen # 0 /\ NoCursor.gen = 0 /\ cache.gen \in Nat /\ cache.id \in Nat
      /\ \A f \in Fetchers : cursor[f].gen \in Nat /\ cursor[f].id \in Nat
  BY DEF Cursor, NoCursor
<1>n. Len(remote) \in Nat /\ DOMAIN remote = 1..Len(remote)
  OBVIOUS
<1>1. CASE Push
  <2>1. /\ DOMAIN remote' = DOMAIN remote \cup {Len(remote) + 1}
        /\ Len(remote') = Len(remote) + 1
        /\ \A i \in DOMAIN remote : remote'[i] = remote[i]
    BY <1>1, <1>n DEF Push
  <2>2. UNCHANGED <<gen, stored, passed, cache, cursor, todo, failed>>
    BY <1>1 DEF Push
  <2>3. Reached(cache, {})'
    BY <2>1, <2>2, <1>t, <1>n DEF Reached, Settled
  <2>4. ASSUME NEW f \in Fetchers, ~failed'[f]
        PROVE  Reached(cursor[f], todo[f])'
    BY <2>1, <2>2, <2>4, <1>t, <1>n DEF Reached, Settled
  <2> QED
    BY <2>3, <2>4
<1>2. ASSUME NEW i \in DOMAIN remote, MarkObsolete(i)
      PROVE  CursorInv'
  <2>1. /\ Len(remote') = Len(remote) /\ DOMAIN remote' = DOMAIN remote
        /\ \A j \in DOMAIN remote : remote'[j] \in {remote[j], Obsolete}
        /\ UNCHANGED <<gen, stored, passed, cache, cursor, todo, failed>>
    BY <1>2 DEF MarkObsolete
  <2>2. Reached(cache, {})'
    BY <2>1 DEF Reached, Settled
  <2>3. ASSUME NEW f \in Fetchers, ~failed'[f]
        PROVE  Reached(cursor[f], todo[f])'
    BY <2>1, <2>3 DEF Reached, Settled
  <2> QED
    BY <2>2, <2>3
<1>3. CASE Reset
  BY <1>3, <1>t DEF Reset, Reached, GenInv
<1>4. CASE Expire
  BY <1>4, <1>t DEF Expire, Reached, Settled
<1>5. ASSUME NEW i \in announced, StorePulsePush(i)
      PROVE  CursorInv'
  BY <1>5 DEF StorePulsePush, Reached, Settled
<1>6. ASSUME NEW f \in Fetchers, Fetcher(f)
      PROVE  CursorInv'
  <2>r. UNCHANGED <<remote, gen>> /\ stored \subseteq stored' /\ passed \subseteq passed'
    BY <1>6 DEF Fetcher, FetcherStep, Start, FetchAfterReset, FetchNothing, FetchPushes,
                Forget, StorePush, Finish, Abort, StorePushFails
  <2>o. ASSUME \A g \in Fetchers \ {f} :
                  /\ cursor'[g] = cursor[g] /\ todo'[g] = todo[g] /\ failed'[g] = failed[g]
        PROVE  \A g \in Fetchers \ {f} : ~failed'[g] => Reached(cursor[g], todo[g])'
    BY <2>r, <2>o DEF Reached, Settled
  <2>c. ASSUME UNCHANGED cache
        PROVE  Reached(cache, {})'
    BY <2>r, <2>c DEF Reached, Settled
  <2>0. ASSUME cache' = NoCursor
        PROVE  Reached(cache, {})'
    BY <2>r, <2>0, <1>t DEF Reached
  <2>l. ASSUME Leave(f), cache' = cache
        PROVE  CursorInv'
    <3>1. Reached(cursor[f], todo[f])'
      BY <2>r, <2>l, <1>t DEF Leave, Reached
    <3>2. \A g \in Fetchers \ {f} :
             cursor'[g] = cursor[g] /\ todo'[g] = todo[g] /\ failed'[g] = failed[g]
      BY <2>l DEF Leave
    <3> QED
      BY <2>o, <2>c, <2>l, <3>1, <3>2
  <2>1. CASE Start(f)
    <3>1. /\ UNCHANGED <<cache, todo, failed>> /\ cursor' = [cursor EXCEPT ![f] = cache]
      BY <2>1 DEF Start
    <3>2. Reached(cursor[f], todo[f])'
      BY <2>r, <3>1 DEF Reached, Settled
    <3> QED
      BY <2>o, <2>c, <3>1, <3>2
  <2>2. CASE FetchAfterReset(f)
    <3>1. UNCHANGED <<cache, cursor, todo, failed>>
      BY <2>2 DEF FetchAfterReset
    <3>2. ~failed[f] => Reached(cursor[f], todo[f])'
      BY <2>r, <3>1 DEF Reached, Settled
    <3> QED
      BY <2>o, <2>c, <3>1, <3>2
  <2>3. CASE FetchNothing(f)
    BY <2>3, <2>l DEF FetchNothing
  <2>4. CASE FetchPushes(f)
    <3> DEFINE c == cursor[f]
               ids == PushesSince(c)
    <3>1. todo[f] = {} /\ ~failed[f]
      BY <2>4 DEF FetchPushes, LocalInv
    <3>2. /\ UNCHANGED <<cache, failed>>
          /\ todo' = [todo EXCEPT ![f] = RevisionsOf(ids)]
          /\ passed' = IF c.id > 0 THEN passed
                       ELSE passed \cup RevisionsOf(DOMAIN remote \ ids)
      BY <2>4 DEF FetchPushes
    <3>3. /\ cursor'[f].gen = IF c.id = 0 \/ c.gen = gen THEN gen ELSE 0
          /\ cursor'[f].id = Len(remote)
          /\ \A g \in Fetchers \ {f} : cursor'[g] = cursor[g]
      BY <2>4 DEF FetchPushes
    <3>4. Reached(cursor[f], todo[f])'
      <4> SUFFICES ASSUME cursor'[f].gen = gen, NEW i \in DOMAIN remote
                   PROVE  remote[i] \in todo'[f] \/ Settled(remote[i])'
        BY <2>r, <3>3, <1>n DEF Reached
      <4>1. c.id = 0 \/ c.gen = gen
        BY <3>3, <1>t
      <4>2. CASE i \in ids
        <5>1. remote[i] \in RevisionsOf(ids) \/ remote[i] = Obsolete
          BY <4>2 DEF RevisionsOf
        <5>2. todo'[f] = RevisionsOf(ids)
          BY <3>2
        <5>3. remote[i] = Obsolete => Settled(remote[i])'
          BY <2>r DEF Settled
        <5> QED
          BY <5>1, <5>2, <5>3
      <4>3. CASE i \notin ids /\ c.id = 0
        <5>1. remote[i] \in RevisionsOf(DOMAIN remote \ ids) \/ remote[i] = Obsolete
          BY <4>3 DEF RevisionsOf
        <5>2. remote[i] \in passed' \/ remote[i] = Obsolete
          BY <4>3, <3>2, <5>1
        <5> QED
          BY <5>2, <2>r DEF Settled
      <4>4. CASE i \notin ids /\ c.id > 0
        <5>1. i <= c.id
          BY <4>4, <1>t, <1>n DEF PushesSince
        <5>2. Reached(c, {})
          BY <3>1
        <5>3. Settled(remote[i])
          BY <5>1, <5>2, <4>1, <4>4, <1>t DEF Reached
        <5> QED
          BY <5>3, <2>r DEF Settled
      <4> QED
        BY <4>2, <4>3, <4>4, <1>t
    <3> QED
      BY <2>o, <2>c, <3>2, <3>3, <3>4
  <2>5. CASE Forget(f)
    <3>1. /\ cache' = NoCursor /\ UNCHANGED <<todo, failed>>
          /\ cursor' = [cursor EXCEPT ![f] = NoCursor]
      BY <2>5 DEF Forget
    <3>2. Reached(cursor[f], todo[f])'
      BY <2>r, <3>1, <1>t DEF Reached
    <3> QED
      BY <2>o, <2>0, <3>1, <3>2
  <2>6. ASSUME NEW r \in Revision, StorePush(f, r)
        PROVE  CursorInv'
    <3>1. /\ UNCHANGED <<cache, cursor, failed>> /\ stored' = stored \cup {r}
          /\ todo' = [todo EXCEPT ![f] = @ \ {r}]
      BY <2>6 DEF StorePush
    <3>2. ~failed[f] => Reached(cursor[f], todo[f])'
      BY <2>r, <3>1 DEF Reached, Settled
    <3> QED
      BY <2>o, <2>c, <3>1, <3>2
  <2>7. CASE Finish(f)
    <3>1. CASE failed[f]
      BY <2>7, <3>1, <2>l DEF Finish
    <3>2. CASE ~failed[f]
      <4>1. /\ todo[f] = {} /\ cache' = cursor[f] /\ Leave(f)
        BY <2>7, <3>2 DEF Finish
      <4>2. Reached(cache, {})'
        BY <4>1, <3>2, <2>r DEF Reached, Settled
      <4>3. Reached(cursor[f], todo[f])'
        BY <2>r, <4>1, <1>t DEF Leave, Reached
      <4>4. \A g \in Fetchers \ {f} :
               cursor'[g] = cursor[g] /\ todo'[g] = todo[g] /\ failed'[g] = failed[g]
        BY <4>1 DEF Leave
      <4> QED
        BY <2>o, <4>2, <4>3, <4>4
    <3> QED
      BY <3>1, <3>2
  <2>8. CASE Abort(f)
    BY <2>8, <2>l DEF Abort
  <2>9. ASSUME NEW r \in Revision, StorePushFails(f, r)
        PROVE  CursorInv'
    <3>1. /\ UNCHANGED <<cache, cursor>> /\ failed' = [failed EXCEPT ![f] = TRUE]
          /\ todo' = [todo EXCEPT ![f] = @ \ {r}]
      BY <2>9 DEF StorePushFails
    <3> QED
      BY <2>o, <2>c, <3>1
  <2> QED
    BY <1>6, <2>1, <2>2, <2>3, <2>4, <2>5, <2>6, <2>7, <2>8, <2>9 DEF Fetcher, FetcherStep
<1>7. CASE UNCHANGED vars
  BY <1>7 DEF vars, Reached, Settled
<1> QED
  BY <1>1, <1>2, <1>3, <1>4, <1>5, <1>6, <1>7 DEF Next

----------------------------------------------------------------------------
\* The cached id never runs ahead of the table: every push of the present
\* numbering up to it is stored, obsolete or too old, for any number of
\* overlapping fetchers, lost cache entries, resets and failures.
THEOREM NothingSkippedCorrect == Spec => []NothingSkipped
<1>1. PushInv /\ [Next]_vars => PushInv'
  BY TypeStep, LocalStep, GenStep, CursorStep DEF PushInv
<1>2. PushInv => NothingSkipped
  BY DEF PushInv, CursorInv, Reached, NothingSkipped
<1> QED
  BY InvInit, <1>1, <1>2, PTL DEF Spec
=============================================================================
