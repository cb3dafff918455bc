------------------------------- MODULE Notices --------------------------------
(***************************************************************************)
(* The notifications of the jobs view (redux/stores/notifications.js,      *)
(* helpers/notifications.js, NotificationList.jsx, NotificationsMenu.jsx): *)
(* those on the screen, which go after four seconds unless they are        *)
(* sticky, and the menu of the recent ones, which a tab reads from         *)
(* localStorage when it loads and writes there with each new one.          *)
(***************************************************************************)
EXTENDS Integers, FiniteSets, Lists

CONSTANTS
    NoticeTabs,
    MaxStored,       \* MAX_STORED_NOTIFICATIONS
    MaxNotices, MaxNoticeLoads

ASSUME NoticeParameters ==
    MaxStored \in Nat \ {0} /\ {MaxNotices, MaxNoticeLoads} \subseteq Nat

VARIABLES
    onScreen,        \* notifications, newest first: number, sticky, aged
    storedNotices,          \* storedNotifications of each tab
    storage,         \* the item of localStorage
    nNotices, nNoticeLoads,
    clearedTo        \* no code: the last number when the tab's menu was cleared

noticeVars == <<onScreen, storedNotices, storage, nNotices, nNoticeLoads, clearedTo>>

\* Mutation: the oldest are kept when there is no more room.
RecentOldest(list) == SubSeq(list, Max({1, Len(list) - MaxStored + 1}), Len(list))
Recent(list) == SubSeq(list, 1, Min({MaxStored, Len(list)}))

Notify(t, sticky) ==
    /\ nNotices < MaxNotices /\ nNotices' = nNotices + 1
    /\ onScreen' = [onScreen EXCEPT ![t] = <<[id |-> nNotices', sticky |-> sticky, aged |-> FALSE]>> \o @]
    /\ storedNotices' = [storedNotices EXCEPT ![t] = Recent(<<nNotices'>> \o @)]
    /\ storage' = storedNotices'[t]
    /\ UNCHANGED <<nNoticeLoads, clearedTo>>

\* Four seconds after it came.
Ages(t, i) ==
    /\ onScreen' = [onScreen EXCEPT ![t][i].aged = TRUE]
    /\ UNCHANGED <<storedNotices, storage, nNotices, nNoticeLoads, clearedTo>>
Stays(n) == n.sticky \/ ~n.aged
ClearExpired(t) ==
    /\ onScreen' = [onScreen EXCEPT ![t] = Keep(@, {n \in ToSet(@) : Stays(n)})]
    /\ UNCHANGED <<storedNotices, storage, nNotices, nNoticeLoads, clearedTo>>
\* Only a sticky one has the button.
ClearNotification(t, i) ==
    /\ onScreen[t][i].sticky
    /\ onScreen' = [onScreen EXCEPT ![t] = RemoveAt(@, i)]
    /\ UNCHANGED <<storedNotices, storage, nNotices, nNoticeLoads, clearedTo>>
ClearAllOnScreen(t) ==
    /\ onScreen' = [onScreen EXCEPT ![t] = <<>>]
    /\ UNCHANGED <<storedNotices, storage, nNotices, nNoticeLoads, clearedTo>>
ClearStored(t) ==
    /\ storedNotices[t] # <<>>
    /\ storedNotices' = [storedNotices EXCEPT ![t] = <<>>] /\ storage' = <<>>
    /\ clearedTo' = [clearedTo EXCEPT ![t] = nNotices]
    /\ UNCHANGED <<onScreen, nNotices, nNoticeLoads>>

\* A tab loads: the menu is what localStorage has.
LoadTab(t) ==
    /\ nNoticeLoads < MaxNoticeLoads /\ nNoticeLoads' = nNoticeLoads + 1
    /\ onScreen' = [onScreen EXCEPT ![t] = <<>>]
    /\ storedNotices' = [storedNotices EXCEPT ![t] = storage]
    /\ UNCHANGED <<storage, nNotices, clearedTo>>

NoticesInit ==
    /\ onScreen = [t \in NoticeTabs |-> <<>>] /\ storedNotices = [t \in NoticeTabs |-> <<>>] /\ storage = <<>>
    /\ nNotices = 0 /\ nNoticeLoads = 0 /\ clearedTo = [t \in NoticeTabs |-> 0]

NoticesNext == \E t \in NoticeTabs :
    \/ \E sticky \in BOOLEAN : Notify(t, sticky)
    \/ \E i \in DOMAIN onScreen[t] : Ages(t, i) \/ ClearNotification(t, i)
    \/ ClearExpired(t) \/ ClearAllOnScreen(t) \/ ClearStored(t) \/ LoadTab(t)

NoticesSpec == NoticesInit /\ [][NoticesNext]_noticeVars

-----------------------------------------------------------------------------
NoticesTypeOK ==
    /\ \A t \in NoticeTabs : \A i \in DOMAIN onScreen[t] :
           onScreen[t][i] \in [id : 1..MaxNotices, sticky : BOOLEAN, aged : BOOLEAN]
    /\ \A t \in NoticeTabs : storedNotices[t] \in BoundedSeq(1..MaxNotices, MaxStored)
    /\ storage \in BoundedSeq(1..MaxNotices, MaxStored)

\* What is on a tab's screen is in its menu of recent ones too, unless it
\* was cleared from there or so many newer ones came; other tabs that
\* overwrite localStorage do not matter.
ShownIsRecent ==
    \A t \in NoticeTabs : \A i \in DOMAIN onScreen[t] :
        LET n == onScreen[t][i].id
        IN  \/ Contains(storedNotices[t], n)
            \/ n <= clearedTo[t]
            \/ Cardinality({m \in ToSet(storedNotices[t]) : m > n}) = MaxStored
=============================================================================
