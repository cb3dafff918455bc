----------------------------- MODULE JobActions -----------------------------
(***************************************************************************)
(* What the user asks Taskcluster for, about jobs and pushes               *)
(* (ActionBar.jsx, CustomJobActions.jsx, JobModel and PushModel): each     *)
(* request loads the actions of the decision task (TaskclusterModel.load)  *)
(* and submits one of them (TaskclusterModel.submit), both with the        *)
(* credentials of the user, which expire, are renewed in another tab, and  *)
(* are used four seconds after that tab was opened, expired or not.        *)
(***************************************************************************)
EXTENDS Integers, FiniteSets

CONSTANTS
    ActKinds,       \* the kinds of requests that are made
    MaxRequests,    \* requests
    MaxCancelled,   \* jobs that are cancelled at once
    MaxExpiries,    \* how often the credentials expire
    MaxCustoms,     \* submissions of custom actions
    MaxDialogs      \* how often the dialog for custom actions is opened

Told == {"new", "missing", "retrigger"}
Silent == {"backfill", "isolate", "profile", "interactive"}
Cancels == {"cancel", "cancelAll"}
ASSUME ActBounds == /\ ActKinds \subseteq Told \cup Silent \cup Cancels
                    /\ {MaxRequests, MaxCancelled, MaxExpiries, MaxCustoms, MaxDialogs} \subseteq Nat

VARIABLES
    credentials,   \* userCredentials: none, valid or expired
    authTab,       \* whether the tab for the credentials is open
    actRequests,      \* requests under way
    notices,       \* what each request was answered with
    submitted,     \* the requests whose action Taskcluster has accepted
    dialog,        \* the dialog for custom actions, 0 when it is closed
    loadedFor,     \* the dialogs that have their actions
    triggering,    \* triggering, of each dialog
    customs,       \* submissions of custom actions under way
    customSent,    \* those the user was told were sent
    customTaken,   \* those Taskcluster has accepted
    customEmpty,   \* history: those made before the dialog had its actions
    nDialogs, nCustoms, nRequests, nExpiries

customNotices == <<customSent, customTaken, customEmpty>>
customVars == <<dialog, loadedFor, triggering, customs, customNotices, nDialogs, nCustoms>>
actVars == <<credentials, authTab, actRequests, notices, submitted, customVars, nRequests, nExpiries>>

Ids == 1 .. MaxRequests
Dialogs == 1 .. MaxDialogs + MaxCustoms

-----------------------------------------------------------------------------
(* Credentials.                                                            *)

\* getCredentials: what is stored, valid or not once the wait is over.
Usable == credentials # "none"
\* The first request that finds none that are valid opens the tab.
Wanted == IF credentials = "valid" THEN authTab ELSE TRUE

Renew ==
    /\ authTab
    /\ credentials' = "valid" /\ authTab' = FALSE
    /\ UNCHANGED <<actRequests, notices, submitted, customVars, nRequests, nExpiries>>
Expire ==
    /\ credentials = "valid" /\ nExpiries < MaxExpiries
    /\ credentials' = "expired" /\ nExpiries' = nExpiries + 1
    /\ UNCHANGED <<authTab, actRequests, notices, submitted, customVars, nRequests>>

-----------------------------------------------------------------------------
(* Requests.                                                               *)

\* A job in the panel, or pinned; a retrigger of jobs of several pushes is one
\* request for each.  Only pending and running jobs are cancelled, one after
\* the other.
Request(kind, jobs) ==
    /\ nRequests < MaxRequests
    /\ kind # "cancel" => jobs = 1
    /\ nRequests' = nRequests + 1
    /\ actRequests' = actRequests \cup
           {[id |-> nRequests', kind |-> kind, left |-> jobs, loaded |-> FALSE]}
    /\ authTab' = Wanted
    /\ UNCHANGED <<credentials, notices, submitted, customVars, nExpiries>>

Notified(r, what) == notices' = [notices EXCEPT ![r.id] = @ \cup what]
Done(r) == actRequests' = actRequests \ {r}

\* The actions are there, and one of them is the one asked for.
ActionsLoaded(r) ==
    /\ ~r.loaded /\ Usable
    /\ actRequests' = (actRequests \ {r}) \cup {[r EXCEPT !.loaded = TRUE]}
    /\ authTab' = Wanted
    /\ UNCHANGED <<credentials, notices, submitted, customVars, nRequests, nExpiries>>

\* The next job to cancel; the last one is followed by the message of success.
NextJob(r, notice) ==
    /\ actRequests' = (actRequests \ {r}) \cup
           IF r.left > 1 THEN {[r EXCEPT !.left = @ - 1, !.loaded = FALSE]} ELSE {}
    /\ Notified(r, notice \cup IF r.left > 1 THEN {} ELSE {"cancelled"})

\* Mutation: a failure to load is not caught.
LoadFailureUncaught(r) ==
    IF r.kind \in Cancels THEN NextJob(r, {"failed"})
    ELSE Done(r) /\ Notified(r, IF r.kind \in {"new", "missing"} THEN {"failed"} ELSE {})
\* load fails: JobModel.cancel and cancelAll say so and go on with results they
\* do not have, new, missing and retrigger say so and end, the others end in an
\* unhandled rejection.
LoadFailure(r) ==
    IF r.kind \in Cancels THEN NextJob(r, {"failed"})
    ELSE Done(r) /\ Notified(r, IF r.kind \in Told THEN {"failed"} ELSE {})
LoadFails(r) ==
    /\ ~r.loaded
    /\ LoadFailure(r)
    /\ UNCHANGED <<credentials, authTab, submitted, customVars, nRequests, nExpiries>>

\* Taskcluster accepts the action of a user with valid credentials.
Accepted(r) ==
    /\ r.loaded /\ credentials = "valid"
    /\ submitted' = submitted \cup {r.id}
    /\ IF r.kind \in Cancels THEN NextJob(r, {}) ELSE Done(r) /\ Notified(r, {"sent"})
    /\ UNCHANGED <<credentials, authTab, customVars, nRequests, nExpiries>>

\* Mutation: a refusal counts as sent.
RefusalIgnored(r) ==
    IF r.kind \in Cancels THEN NextJob(r, {"failed"}) ELSE Done(r) /\ Notified(r, {"sent"})
\* The action is missing, is not in the scopes, or is refused: everyone says so.
Refusal(r) ==
    IF r.kind \in Cancels THEN NextJob(r, {"failed"}) ELSE Done(r) /\ Notified(r, {"failed"})
Refused(r) ==
    /\ r.loaded
    /\ Refusal(r)
    /\ UNCHANGED <<credentials, authTab, submitted, customVars, nRequests, nExpiries>>

\* isolateJob, whose question for the number of runs is cancelled.
Aborted(r) ==
    /\ r.loaded /\ r.kind = "isolate"
    /\ Done(r) /\ Notified(r, {"failed"})
    /\ UNCHANGED <<credentials, authTab, submitted, customVars, nRequests, nExpiries>>

-----------------------------------------------------------------------------
(* The dialog for custom actions.                                          *)

\* toggleCustomJobActions turns its flag over.
Toggle ==
    IF dialog # 0 THEN dialog' = 0 /\ UNCHANGED nDialogs
    ELSE dialog' = nDialogs + 1 /\ nDialogs' = nDialogs + 1

OpenDialog ==
    /\ dialog = 0 /\ nDialogs < MaxDialogs
    /\ Toggle
    /\ authTab' = Wanted
    /\ UNCHANGED <<credentials, actRequests, notices, submitted, loadedFor, triggering, customs,
                   customNotices, nRequests, nExpiries, nCustoms>>
\* The actions of the decision task, for the dialog that is open; when they
\* cannot be loaded it goes on saying that it is getting them.
DialogLoaded ==
    /\ dialog # 0 /\ Usable
    /\ loadedFor' = loadedFor \cup {dialog}
    /\ UNCHANGED <<credentials, authTab, actRequests, notices, submitted, dialog, nDialogs, triggering,
                   customs, customNotices, nRequests, nExpiries, nCustoms>>

\* triggerAction: the button looks disabled while triggering, and is not.  The
\* actions that load leaves are those of a kind that submit knows; a dialog that
\* is not loaded, or never will be, submits an empty one.
TriggerAction ==
    /\ dialog # 0 /\ nCustoms < MaxCustoms
    /\ nCustoms' = nCustoms + 1
    /\ triggering' = [triggering EXCEPT ![dialog] = TRUE]
    /\ customs' = customs \cup {[id |-> nCustoms', dialog |-> dialog]}
    /\ customEmpty' = IF dialog \in loadedFor THEN customEmpty ELSE customEmpty \cup {nCustoms'}
    /\ authTab' = Wanted
    /\ UNCHANGED <<credentials, actRequests, notices, submitted, dialog, nDialogs, loadedFor,
                   customSent, customTaken, nRequests, nExpiries>>
\* What is in the payload is no YAML, or not what the action takes: nothing is
\* submitted, and the dialog is no longer triggering what it may have submitted
\* before.
TriggerInvalid ==
    /\ dialog \in loadedFor
    /\ triggering' = [triggering EXCEPT ![dialog] = FALSE]
    /\ UNCHANGED <<credentials, authTab, actRequests, notices, submitted, dialog, nDialogs, loadedFor,
                   customs, customNotices, nRequests, nExpiries, nCustoms>>

\* close, by the cross or outside, not while triggering; the button `Cancel`
\* closes without asking.
CloseDialog ==
    /\ dialog # 0 /\ ~triggering[dialog]
    /\ Toggle
    /\ UNCHANGED <<credentials, authTab, actRequests, notices, submitted, loadedFor, triggering,
                   customs, customNotices, nRequests, nExpiries, nCustoms>>
CancelDialog ==
    /\ dialog # 0
    /\ Toggle
    /\ UNCHANGED <<credentials, authTab, actRequests, notices, submitted, loadedFor, triggering,
                   customs, customNotices, nRequests, nExpiries, nCustoms>>

\* Sent or refused, the dialog is closed: through the flag, which opens it if
\* it was closed; the state of one that is gone does not change any more.
CloseAfter(c) ==
    /\ customs' = customs \ {c}
    /\ triggering' = IF dialog = c.dialog THEN [triggering EXCEPT ![dialog] = FALSE] ELSE triggering
    /\ IF triggering'[c.dialog] THEN UNCHANGED <<dialog, nDialogs>> ELSE Toggle

\* Told as sent: an action that Taskcluster has accepted, and an empty one, which
\* submit gives to nobody, without an error.
CustomSent(c) ==
    /\ IF c.id \in customEmpty
       THEN Usable /\ UNCHANGED customTaken
       ELSE credentials = "valid" /\ customTaken' = customTaken \cup {c.id}
    /\ customSent' = customSent \cup {c.id}
    /\ CloseAfter(c)
    /\ UNCHANGED <<credentials, authTab, actRequests, notices, submitted, loadedFor, customEmpty,
                   nRequests, nExpiries, nCustoms>>
\* Refused, or without credentials.
CustomRefused(c) ==
    /\ CloseAfter(c)
    /\ UNCHANGED <<credentials, authTab, actRequests, notices, submitted, loadedFor, customNotices,
                   nRequests, nExpiries, nCustoms>>

-----------------------------------------------------------------------------
ActInit ==
    /\ credentials = "none" /\ authTab = FALSE
    /\ actRequests = {} /\ notices = [i \in Ids |-> {}] /\ submitted = {}
    /\ dialog = 0 /\ nDialogs = 0 /\ loadedFor = {} /\ triggering = [d \in Dialogs |-> FALSE]
    /\ customs = {} /\ customSent = {} /\ customTaken = {} /\ customEmpty = {}
    /\ nRequests = 0 /\ nExpiries = 0 /\ nCustoms = 0

ActAnswer ==
    \E r \in actRequests : \/ ActionsLoaded(r) \/ LoadFails(r)
                        \/ Accepted(r) \/ Refused(r) \/ Aborted(r)

ActNext ==
    \/ Renew \/ Expire
    \/ \E kind \in ActKinds, jobs \in 1 .. MaxCancelled : Request(kind, jobs)
    \/ ActAnswer
    \/ OpenDialog \/ DialogLoaded \/ TriggerAction \/ TriggerInvalid \/ CloseDialog \/ CancelDialog
    \/ \E c \in customs : CustomSent(c) \/ CustomRefused(c)

\* Taskcluster answers, and the wait for credentials is over after 4 seconds.
ActFairness == WF_actVars(ActAnswer)
ActSpec == ActInit /\ [][ActNext]_actVars /\ ActFairness

-----------------------------------------------------------------------------
ActTypeOK ==
    /\ credentials \in {"none", "valid", "expired"} /\ authTab \in BOOLEAN
    /\ actRequests \subseteq [id : Ids, kind : ActKinds, left : 1 .. MaxCancelled, loaded : BOOLEAN]
    /\ notices \in [Ids -> SUBSET {"sent", "failed", "cancelled"}] /\ submitted \subseteq Ids
    /\ dialog \in 0 .. nDialogs /\ loadedFor \subseteq Dialogs
    /\ triggering \in [Dialogs -> BOOLEAN]
    /\ customs \subseteq [id : 1 .. MaxCustoms, dialog : Dialogs]
    /\ {customSent, customTaken, customEmpty} \subseteq SUBSET (1 .. MaxCustoms)

\* What the user is told was sent, Taskcluster has accepted: a request other
\* than a cancellation, through credentials that expire between its two steps and
\* refusals, and a custom action, through dialogs that are closed, opened and
\* submitted again meanwhile.  A custom action submitted before the dialog had
\* its actions is told as sent and is not: those are left out.
SentIsSubmitted ==
    /\ \A i \in Ids : "sent" \in notices[i] => i \in submitted
    /\ customSent \subseteq customTaken \cup customEmpty

\* No request is dropped: one whose end is reported, a cancellation too, stays
\* under way through every step until there is a notice of it, and what was said
\* of a request is not taken back.
NoRequestDropped ==
    [][/\ \A r \in actRequests :
            r.kind \in Told \cup Cancels =>
                (\E q \in actRequests' : q.id = r.id /\ q.kind = r.kind) \/ notices'[r.id] # {}
       /\ \A i \in Ids : notices[i] \subseteq notices'[i]]_actVars

\* Every retrigger and every request for new or missing jobs is reported, sent
\* or failed, wherever it fails.
RequestReported ==
    \A i \in Ids : (\E r \in actRequests : r.id = i /\ r.kind \in Told) ~> notices[i] # {}
=============================================================================
