---------------------------- MODULE PushIngestion ----------------------------
(***************************************************************************)
(* The pushes of one Mercurial repository (etl/pushlog, etl/push_loader,   *)
(* etl/push).  Every five minutes a task fetches the pushes after the last *)
(* one it remembers in the cache; tasks may overlap.  Beside them, pulse   *)
(* announces each push, which is then fetched by its id.  The remote       *)
(* numbers its pushes from 1; a push may be marked obsolete, which leaves  *)
(* it without changesets, and a reset starts the numbering again.          *)
(***************************************************************************)
EXTENDS Naturals, Sequences

CONSTANTS
    Fetchers,     \* workers that run fetch-hg-push-log
    Window,       \* pushes the remote returns when no start is given
    MaxPushes,    \* bound: pushes made
    MaxResets,    \* bound: resets of the remote
    MaxObsolete,  \* bound: pushes marked obsolete
    MaxErrors,    \* bound: failing requests and transactions, killed tasks
    MaxExpiries   \* bound: times the cache loses its entry

ASSUME PushBounds ==
    /\ Window \in Nat /\ Window > 0
    /\ MaxPushes \in Nat /\ MaxResets \in Nat /\ MaxObsolete \in Nat
    /\ MaxErrors \in Nat /\ MaxExpiries \in Nat

Revision == 1..MaxPushes
Obsolete == 0    \* what the changesets of an obsolete push amount to

\* An id remembered by the ingestion.  gen says in which numbering it counts,
\* which the code cannot know: 0 when it got there by counting on from an id of
\* an earlier numbering.
Cursor == [gen : 0..MaxResets + 1, id : 0..MaxPushes]
NoCursor == [gen |-> 0, id |-> 0]

PC == {"idle", "fetch", "forget", "store"}

VARIABLES
    remote,     \* the pushlog: the revision of each push, in the order of ids
    gen,        \* the number of its numbering
    made,       \* pushes made so far
    obsoleted,  \* pushes marked obsolete so far
    announced,  \* ids of which a pulse message waits
    stored,     \* table push
    passed,     \* revisions too old for a fetch that had no cursor
    cache,      \* <repository>:last_push_id
    pc,         \* per fetcher: next step
    cursor,     \* per fetcher: last_push_id, the id it starts from or has got to
    todo,       \* per fetcher: revisions it has fetched and not yet stored
    failed,     \* per fetcher: did storing one of them fail?
    errors, expiries

remoteVars == <<remote, gen, made, obsoleted>>
fetcherVars == <<pc, cursor, todo, failed>>
vars == <<remoteVars, announced, stored, passed, cache, fetcherVars, errors, expiries>>

----------------------------------------------------------------------------
Init ==
    /\ remote = <<>> /\ gen = 1 /\ made = 0 /\ obsoleted = 0
    /\ announced = {} /\ stored = {} /\ passed = {}
    /\ cache = NoCursor
    /\ pc = [f \in Fetchers |-> "idle"]
    /\ cursor = [f \in Fetchers |-> NoCursor]
    /\ todo = [f \in Fetchers |-> {}]
    /\ failed = [f \in Fetchers |-> FALSE]
    /\ errors = 0 /\ expiries = 0

----------------------------------------------------------------------------
\* The remote (external).

Push ==
    /\ made < MaxPushes
    /\ made' = made + 1
    /\ remote' = Append(remote, made + 1)
    /\ announced' = announced \cup {Len(remote) + 1}
    /\ UNCHANGED <<gen, obsoleted, stored, passed, cache, fetcherVars, errors, expiries>>

MarkObsolete(i) ==
    /\ obsoleted < MaxObsolete
    /\ remote[i] # Obsolete
    /\ obsoleted' = obsoleted + 1
    /\ remote' = [remote EXCEPT ![i] = Obsolete]
    /\ UNCHANGED <<gen, made, announced, stored, passed, cache, fetcherVars, errors, expiries>>

Reset ==
    /\ gen <= MaxResets
    /\ gen' = gen + 1
    /\ remote' = <<>>
    /\ UNCHANGED <<made, obsoleted, announced, stored, passed, cache, fetcherVars, errors, expiries>>

\* The cache forgets its entry: after a week, or when it is short of memory.
Expire ==
    /\ cache # NoCursor
    /\ expiries < MaxExpiries
    /\ expiries' = expiries + 1
    /\ cache' = NoCursor
    /\ UNCHANGED <<remoteVars, announced, stored, passed, fetcherVars, errors>>

----------------------------------------------------------------------------
\* Mutation: a push without changesets is not left out.
AllRevisionsOf(ids) == {remote[i] : i \in ids}

\* The revisions of pushes that have one.
RevisionsOf(ids) == {remote[i] : i \in ids} \ {Obsolete}

\* store-pulse-pushes: fetch the push that was announced and store it, if it is
\* still there and has changesets; the message is gone in any case.
StorePulsePush(i) ==
    /\ announced' = announced \ {i}
    /\ stored' = stored \cup RevisionsOf({i} \cap DOMAIN remote)
    /\ UNCHANGED <<remoteVars, passed, cache, fetcherVars, errors, expiries>>

----------------------------------------------------------------------------
\* fetch-hg-push-log.

Goto(f, label) == pc' = [pc EXCEPT ![f] = label]

\* The task is over, and its variables are gone.
Leave(f) ==
    /\ Goto(f, "idle")
    /\ cursor' = [cursor EXCEPT ![f] = NoCursor]
    /\ todo' = [todo EXCEPT ![f] = {}]
    /\ failed' = [failed EXCEPT ![f] = FALSE]

\* HgPushlogProcess.run begins with what the cache remembers.
Start(f) ==
    /\ pc[f] = "idle"
    /\ cursor' = [cursor EXCEPT ![f] = cache]
    /\ Goto(f, "fetch")
    /\ UNCHANGED <<remoteVars, announced, stored, passed, cache, todo, failed, errors, expiries>>

\* The ids a request for the pushlog returns.
PushesSince(c) ==
    {i \in DOMAIN remote : IF c.id > 0 THEN i > c.id ELSE i + Window > Len(remote)}

\* The newest push is obsolete.  It hides what was pushed before it.
Hidden == remote # <<>> /\ remote[Len(remote)] = Obsolete

\* Mutation: an id above the last one is not taken for a reset.
FetchTrusting(f) ==
    /\ pc[f] = "fetch"
    /\ PushesSince(cursor[f]) = {}
    /\ Leave(f)
    /\ UNCHANGED <<remoteVars, announced, stored, passed, cache, errors, expiries>>

\* An id above the last one can only come from before a reset.
FetchAfterReset(f) ==
    /\ pc[f] = "fetch"
    /\ Len(remote) < cursor[f].id
    /\ Goto(f, "forget")
    /\ UNCHANGED <<remoteVars, announced, stored, passed, cache, cursor, todo,
                   failed, errors, expiries>>

\* There is nothing new, or the newest push has no changesets to take the top
\* revision from (IndexError): the task ends.
FetchNothing(f) ==
    /\ pc[f] = "fetch"
    /\ Len(remote) >= cursor[f].id
    /\ PushesSince(cursor[f]) = {} \/ Hidden
    /\ Leave(f)
    /\ UNCHANGED <<remoteVars, announced, stored, passed, cache, errors, expiries>>

FetchPushes(f) ==
    LET c == cursor[f]
        ids == PushesSince(c)
    IN  /\ pc[f] = "fetch"
        /\ ids # {} /\ ~Hidden
        /\ todo' = [todo EXCEPT ![f] = RevisionsOf(ids)]
        /\ cursor' = [cursor EXCEPT ![f] =
                         [gen |-> IF c.id = 0 \/ c.gen = gen THEN gen ELSE 0,
                          id |-> Len(remote)]]
        /\ passed' = IF c.id > 0 THEN passed
                     ELSE passed \cup RevisionsOf(DOMAIN remote \ ids)
        /\ Goto(f, "store")
        /\ UNCHANGED <<remoteVars, announced, stored, cache, failed, errors, expiries>>

\* The cached id is thrown away, and the latest pushes are fetched.
Forget(f) ==
    /\ pc[f] = "forget"
    /\ cache' = NoCursor
    /\ cursor' = [cursor EXCEPT ![f] = NoCursor]
    /\ Goto(f, "fetch")
    /\ UNCHANGED <<remoteVars, announced, stored, passed, todo, failed, errors, expiries>>

\* store_push: one transaction for the push and its commits.
StorePush(f, r) ==
    /\ pc[f] = "store"
    /\ r \in todo[f]
    /\ stored' = stored \cup {r}
    /\ todo' = [todo EXCEPT ![f] = @ \ {r}]
    /\ UNCHANGED <<remoteVars, announced, passed, cache, pc, cursor, failed, errors, expiries>>

\* A push that cannot be stored does not keep the task from the others.
StorePushFails(f, r) ==
    /\ pc[f] = "store"
    /\ r \in todo[f]
    /\ errors < MaxErrors
    /\ errors' = errors + 1
    /\ todo' = [todo EXCEPT ![f] = @ \ {r}]
    /\ failed' = [failed EXCEPT ![f] = TRUE]
    /\ UNCHANGED <<remoteVars, announced, stored, passed, cache, pc, cursor, expiries>>

\* Mutation: the last id is remembered although a push could not be stored.
FinishAnyway(f) ==
    /\ pc[f] = "store"
    /\ todo[f] = {}
    /\ cache' = cursor[f]
    /\ Leave(f)
    /\ UNCHANGED <<remoteVars, announced, stored, passed, errors, expiries>>

\* The last id is remembered if every push was stored; otherwise the task ends
\* with CollectionNotStoredException.
Finish(f) ==
    /\ pc[f] = "store"
    /\ todo[f] = {}
    /\ cache' = IF failed[f] THEN cache ELSE cursor[f]
    /\ Leave(f)
    /\ UNCHANGED <<remoteVars, announced, stored, passed, errors, expiries>>

\* A request to the remote fails, or the task is killed.
Abort(f) ==
    /\ pc[f] # "idle"
    /\ errors < MaxErrors
    /\ errors' = errors + 1
    /\ Leave(f)
    /\ UNCHANGED <<remoteVars, announced, stored, passed, cache, expiries>>

----------------------------------------------------------------------------
\* What a fetcher does when nothing fails.
FetcherStep(f) ==
    \/ Start(f)
    \/ FetchAfterReset(f)
    \/ FetchNothing(f)
    \/ FetchPushes(f)
    \/ Forget(f)
    \/ \E r \in Revision : StorePush(f, r)
    \/ Finish(f)

Fetcher(f) == FetcherStep(f) \/ Abort(f) \/ \E r \in Revision : StorePushFails(f, r)

Next ==
    \/ Push
    \/ \E i \in DOMAIN remote : MarkObsolete(i)
    \/ Reset
    \/ Expire
    \/ \E i \in announced : StorePulsePush(i)
    \/ \E f \in Fetchers : Fetcher(f)

Spec == Init /\ [][Next]_vars

\* celery beat schedules the fetchers for ever.  Nothing is assumed of pulse.
FairSpec == Spec /\ \A f \in Fetchers : WF_vars(FetcherStep(f))

----------------------------------------------------------------------------
(***************************************************************************)
(* Properties                                                              *)
(***************************************************************************)

\* The types of all variables: what is stored, or about to be, has a revision
\* (HgPushlogProcess.run leaves out pushes without changesets).
TypeOK ==
    /\ remote \in Seq(Revision \cup {Obsolete}) /\ Len(remote) <= made
    /\ gen \in 1..MaxResets + 1 /\ made \in 0..MaxPushes /\ obsoleted \in Nat
    /\ announced \subseteq 1..MaxPushes
    /\ stored \subseteq Revision /\ passed \subseteq Revision
    /\ cache \in Cursor
    /\ pc \in [Fetchers -> PC]
    /\ cursor \in [Fetchers -> Cursor]
    /\ todo \in [Fetchers -> SUBSET Revision]
    /\ failed \in [Fetchers -> BOOLEAN]
    /\ errors \in Nat /\ expiries \in Nat

\* What the ingestion will not come back to: stored, obsolete, or too old.
Settled(r) == r \in stored \cup passed \cup {Obsolete}

\* The cached id never runs ahead of the table: no push up to it is missing,
\* however fetchers overlap, pushes fail to be stored and the cache is lost.
\* Ids of different numberings cannot be compared, which the code does not see
\* when the remote has as many pushes again as before its reset.
NothingSkipped ==
    cache.gen = gen => \A i \in DOMAIN remote : i <= cache.id => Settled(remote[i])

\* The cached id counts in an earlier numbering, and the remote has grown past it.
Misled == cache.id > 0 /\ cache.gen # gen /\ cache.id <= Len(remote)

\* In the end every push is stored, by the fetchers alone.
PushesStored ==
    <>[](Hidden \/ Misled \/ \A i \in DOMAIN remote : Settled(remote[i]))

\* "A push without commits means it was marked as obsolete" and is left out
\* (HgPushlogProcess.run): it keeps no other push from being stored.
ObsoleteLeftOut ==
    <>[](Misled \/ \A i \in DOMAIN remote : Settled(remote[i]))
=============================================================================
