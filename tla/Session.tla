------------------------------- MODULE Session -------------------------------
(***************************************************************************)
(* Logging in and out (shared/auth/Login.jsx, AuthService.js, the callback *)
(* windows LoginCallback.jsx and TaskclusterCallback.jsx).  The tabs of a  *)
(* browser share one localStorage; a change of it comes to the other tabs  *)
(* as an event, later and in order, and each tab renews the session it has *)
(* been shown.                                                             *)
(***************************************************************************)
EXTENDS Integers, Sequences, FiniteSets

CONSTANTS
    Tabs,
    MaxSessionMoves, \* what the user does
    MaxWindows,      \* windows that log in
    MaxRenewals,     \* renewals the timers start
    MaxReloads       \* pages that are loaded again

ASSUME SessionBounds == {MaxSessionMoves, MaxWindows, MaxRenewals, MaxReloads} \subseteq Nat

VARIABLES
    store,        \* localStorage: user and userSession; the Taskcluster credentials and requestState
    serverSession, \* the cookie the server set
    shownUser,    \* the user of each tab
    events,       \* storage events that have not been handled
    checks,       \* UserModel.get of each tab
    timers, renewals, \* AuthService: renewalTimer, _renewAuth under way
    logouts,      \* tabs whose /auth/logout/ is under way
    windows,      \* callback windows
    sessionMoves, nWindows, nRenewals, nReloads

tabVars == <<shownUser, events, checks, timers, renewals, logouts>>
sessionCounts == <<nWindows, nRenewals, nReloads>>
sessionVars == <<store, serverSession, tabVars, windows, sessionMoves, sessionCounts>>

SessionMove == sessionMoves < MaxSessionMoves /\ sessionMoves' = sessionMoves + 1

-----------------------------------------------------------------------------
\* localStorage.setItem("user"): the other tabs hear of a change.
Heard(evs, writer, user) ==
    [t \in Tabs |-> IF t = writer \/ store.user = user THEN evs[t] ELSE Append(evs[t], user)]
NoTab == "none"

\* Mutation: the tab that logs out does not show it.
LogoutShownLater(t, evs) ==
    /\ store' = [store EXCEPT !.session = FALSE, !.user = "out"]
    /\ events' = Heard(evs, t, "out")
    /\ UNCHANGED shownUser
\* AuthService.logout, in a tab that has taken the events evs' first.
AuthLogout(t, evs) ==
    /\ store' = [store EXCEPT !.session = FALSE, !.user = "out"]
    /\ events' = Heard(evs, t, "out")
    /\ shownUser' = [shownUser EXCEPT ![t] = "out"]

\* setLoggedIn: without a session its fullName cannot be read.
SetLoggedIn(t) ==
    IF store.session THEN shownUser' = [shownUser EXCEPT ![t] = "in"] /\ timers' = [timers EXCEPT ![t] = TRUE]
                     ELSE UNCHANGED <<shownUser, timers>>

\* saveCredentialsFromAuthResult, when the user has been fetched.
SaveCredentials(writer) ==
    /\ store' = [store EXCEPT !.session = TRUE, !.user = "in", !.expired = FALSE]
    /\ events' = Heard(events, writer, "in")

-----------------------------------------------------------------------------
(* A tab.                                                                  *)

ServerAnswers(t) ==
    /\ checks[t] = "asked"
    /\ checks' = [checks EXCEPT ![t] = IF serverSession THEN "in" ELSE "out"]
    /\ UNCHANGED <<store, serverSession, shownUser, events, timers, renewals, logouts, windows,
                   sessionMoves, sessionCounts>>
CheckAnswered(t) ==
    /\ checks[t] \in {"in", "out"}
    /\ checks' = [checks EXCEPT ![t] = "done"]
    /\ IF checks[t] = "in" /\ store.session
       THEN SetLoggedIn(t) /\ UNCHANGED <<store, events>>
       ELSE AuthLogout(t, events) /\ UNCHANGED timers
    /\ UNCHANGED <<serverSession, renewals, logouts, windows, sessionMoves, sessionCounts>>

HandleStorageEvent(t) ==
    LET left == [events EXCEPT ![t] = Tail(@)] IN
    /\ events[t] # <<>>
    /\ IF Head(events[t]) = "in"
       THEN SetLoggedIn(t) /\ events' = left /\ UNCHANGED store
       ELSE AuthLogout(t, left) /\ UNCHANGED timers
    /\ UNCHANGED <<serverSession, checks, renewals, logouts, windows, sessionMoves, sessionCounts>>

Login(t) ==
    /\ SessionMove /\ shownUser[t] # "in"
    /\ nWindows < MaxWindows /\ nWindows' = nWindows + 1
    /\ windows' = windows \cup {[id |-> nWindows', stage |-> "login"]}
    /\ UNCHANGED <<store, serverSession, tabVars, nRenewals, nReloads>>

Logout(t) ==
    /\ SessionMove /\ shownUser[t] = "in" /\ t \notin logouts
    /\ store' = [store EXCEPT !.credentials = "none"]
    /\ logouts' = logouts \cup {t}
    /\ UNCHANGED <<serverSession, shownUser, events, checks, timers, renewals, windows, sessionCounts>>
LogoutAnswered(t) ==
    /\ t \in logouts /\ logouts' = logouts \ {t}
    /\ serverSession' = FALSE
    /\ AuthLogout(t, events)
    /\ UNCHANGED <<checks, timers, renewals, windows, sessionMoves, sessionCounts>>
LogoutRefused(t) ==
    /\ t \in logouts /\ logouts' = logouts \ {t}
    /\ UNCHANGED <<store, serverSession, shownUser, events, checks, timers, renewals, windows, sessionMoves,
                   sessionCounts>>

\* The page is loaded again: what was under way in it is gone.
Reload(t) ==
    /\ nReloads < MaxReloads /\ nReloads' = nReloads + 1
    /\ shownUser' = [shownUser EXCEPT ![t] = "unset"] /\ events' = [events EXCEPT ![t] = <<>>]
    /\ checks' = [checks EXCEPT ![t] = "asked"] /\ timers' = [timers EXCEPT ![t] = FALSE]
    /\ renewals' = [renewals EXCEPT ![t] = "no"] /\ logouts' = logouts \ {t}
    /\ UNCHANGED <<store, serverSession, windows, sessionMoves, nWindows, nRenewals>>

-----------------------------------------------------------------------------
(* Renewal.                                                                *)

RenewAuth(t) ==
    /\ timers[t] /\ timers' = [timers EXCEPT ![t] = FALSE]
    /\ nRenewals < MaxRenewals /\ nRenewals' = nRenewals + 1
    /\ renewals' = [renewals EXCEPT ![t] = IF store.session THEN "renew" ELSE @]
    /\ UNCHANGED <<store, serverSession, shownUser, events, checks, logouts, windows,
                   sessionMoves, nWindows, nReloads>>
RenewedToken(t) ==
    /\ renewals[t] = "renew" /\ renewals' = [renewals EXCEPT ![t] = "fetch"]
    /\ serverSession' = TRUE
    /\ UNCHANGED <<store, shownUser, events, checks, timers, logouts, windows, sessionMoves,
                   sessionCounts>>
RenewedUser(t) ==
    /\ renewals[t] = "fetch" /\ renewals' = [renewals EXCEPT ![t] = "no"]
    /\ SaveCredentials(t) /\ timers' = [timers EXCEPT ![t] = TRUE]
    /\ UNCHANGED <<serverSession, shownUser, checks, logouts, windows, sessionMoves,
                   sessionCounts>>
\* A refusal logs out when consent is asked for, or the token has expired.
RenewalRefused(t, consent) ==
    /\ renewals[t] # "no" /\ renewals' = [renewals EXCEPT ![t] = "no"]
    /\ IF consent \/ (store.session /\ store.expired) THEN AuthLogout(t, events)
                                                     ELSE UNCHANGED <<store, events, shownUser>>
    /\ UNCHANGED <<serverSession, checks, timers, logouts, windows, sessionMoves, sessionCounts>>
TokenExpires ==
    /\ store.session /\ ~store.expired
    /\ store' = [store EXCEPT !.expired = TRUE]
    /\ UNCHANGED <<serverSession, tabVars, windows, sessionMoves, sessionCounts>>

-----------------------------------------------------------------------------
(* The window that logs in, and then gets the Taskcluster credentials.     *)

At(w, stage) == windows' = (windows \ {w}) \cup {[w EXCEPT !.stage = stage]}
LoginReturned(w) ==
    /\ w.stage = "login" /\ At(w, "fetch")
    /\ serverSession' = TRUE
    /\ UNCHANGED <<store, tabVars, sessionMoves, sessionCounts>>
\* checkTaskclusterCredentials; getAuthCode stores the state it asks with.
LoginSaved(w) ==
    /\ w.stage = "fetch"
    /\ store' = [store EXCEPT !.session = TRUE, !.user = "in", !.expired = FALSE,
                              !.requestState = IF store.credentials = "valid" THEN @ ELSE w.id]
    /\ events' = Heard(events, NoTab, "in")
    /\ IF store.credentials = "valid" THEN windows' = windows \ {w} ELSE At(w, "authorize")
    /\ UNCHANGED <<serverSession, shownUser, checks, timers, renewals, logouts, sessionMoves,
                   sessionCounts>>
TaskclusterReturned(w) ==
    /\ w.stage = "authorize"
    /\ At(w, IF store.requestState = w.id THEN "token" ELSE "error")
    /\ UNCHANGED <<store, serverSession, tabVars, sessionMoves, sessionCounts>>
CredentialsFetched(w) ==
    /\ w.stage = "token" /\ windows' = windows \ {w}
    /\ store' = [store EXCEPT !.credentials = "valid"]
    /\ UNCHANGED <<serverSession, tabVars, sessionMoves, sessionCounts>>
WindowRefused(w) ==
    /\ w.stage # "error" /\ At(w, "error")
    /\ UNCHANGED <<store, serverSession, tabVars, sessionMoves, sessionCounts>>
CloseWindow(w) ==
    /\ SessionMove /\ windows' = windows \ {w}
    /\ UNCHANGED <<store, serverSession, tabVars, sessionCounts>>

-----------------------------------------------------------------------------
SessionInit ==
    /\ \E in \in BOOLEAN :
        /\ store = [user |-> IF in THEN "in" ELSE "out", session |-> in, expired |-> FALSE,
                    credentials |-> "none", requestState |-> 0]
        /\ serverSession = in
    /\ shownUser = [t \in Tabs |-> "unset"] /\ events = [t \in Tabs |-> <<>>]
    /\ checks = [t \in Tabs |-> "asked"] /\ timers = [t \in Tabs |-> FALSE]
    /\ renewals = [t \in Tabs |-> "no"] /\ logouts = {} /\ windows = {}
    /\ sessionMoves = 0 /\ nWindows = 0 /\ nRenewals = 0 /\ nReloads = 0

SessionNext ==
    \/ \E t \in Tabs :
        \/ ServerAnswers(t) \/ CheckAnswered(t) \/ HandleStorageEvent(t) \/ Login(t) \/ Logout(t)
        \/ LogoutAnswered(t) \/ LogoutRefused(t) \/ Reload(t) \/ RenewAuth(t) \/ RenewedToken(t)
        \/ RenewedUser(t) \/ \E consent \in BOOLEAN : RenewalRefused(t, consent)
    \/ TokenExpires
    \/ \E w \in windows :
        \/ LoginReturned(w) \/ LoginSaved(w) \/ TaskclusterReturned(w) \/ CredentialsFetched(w)
        \/ WindowRefused(w) \/ CloseWindow(w)

SessionSpec == SessionInit /\ [][SessionNext]_sessionVars

-----------------------------------------------------------------------------
SessionTypeOK ==
    /\ store \in [user : {"in", "out"}, session : BOOLEAN, expired : BOOLEAN,
                  credentials : {"none", "valid"}, requestState : 0 .. MaxWindows]
    /\ shownUser \in [Tabs -> {"unset", "in", "out"}]
    /\ events \in [Tabs -> Seq({"in", "out"})]
    /\ logouts \subseteq Tabs /\ \A w \in windows : w.id \in 1 .. nWindows

\* A tab that has handled all it has been told shows nobody as logged in once
\* the session is gone, whoever ended it: another tab, a renewal that was
\* refused or a check on page load.
LoggedOutIsShown ==
    \A t \in Tabs : (store.user = "out" /\ events[t] = <<>>) => shownUser[t] # "in"
=============================================================================
