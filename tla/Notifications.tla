--------------------------- MODULE Notifications ---------------------------
(***************************************************************************)
(* A person's notifications: the inbox on the server, where an invite that *)
(* is sent again takes the place of the one it repeats, and the bell, its  *)
(* badge polled and its list fetched when it opens.                        *)
(*                                                                         *)
(* `fresh' says that the list shown was read after the inbox last changed  *)
(* by another hand.                                                        *)
(***************************************************************************)
EXTENDS Naturals, FiniteSets, TLC

CONSTANTS
    Note,           \* ids of notifications
    NoteKind,       \* id -> "invite", "comment", "other"
    BellStories     \* what the person does, what arrives, what fails

\* At first, too, at most one notification of the invite is there.
ASSUME NoteAssumption ==
    /\ IsFiniteSet(Note) /\ NoteKind \in [Note -> {"invite", "comment", "other"}]
    /\ \A s \in BellStories : \A m, n \in s.there : NoteKind[m] = "invite" /\ NoteKind[n] = "invite" => m = n

VARIABLES
    inbox,          \* id -> what the server holds: "none", "unread", "read", "gone"
    bellCalls,      \* requests on their way
    badge,          \* the count query
    noteList,       \* the list query
    bell,           \* whether the popover is open, and the page the person was led to
    fresh, bellLeft

bellVars == <<inbox, bellCalls, badge, noteList, bell, fresh, bellLeft>>

BellMay(op) == op \in bellLeft.may /\ bellLeft.own > 0
SpendBell == bellLeft' = [bellLeft EXCEPT !.own = @ - 1]

-----------------------------------------------------------------------------
(* The server.                                                             *)
_active == {n \in Note : inbox[n] \in {"unread", "read"}}
unread_count == Cardinality({n \in Note : inbox[n] = "unread"})
list_active == {<<n, inbox[n]>> : n \in _active}

(* An invite repeated makes the one there unread again, under its own id.  *)
create(n) ==
    LET same == {m \in _active : NoteKind[n] = "invite" /\ NoteKind[m] = "invite"}
    IN  IF same # {} THEN [m \in Note |-> IF m \in same THEN "unread" ELSE inbox[m]]
        ELSE [inbox EXCEPT ![n] = "unread"]
mark_read(n) == [inbox EXCEPT ![n] = IF @ = "unread" THEN "read" ELSE @]
mark_all_read == [n \in Note |-> IF inbox[n] = "unread" THEN "read" ELSE inbox[n]]
dismiss_row(n) == [inbox EXCEPT ![n] = "gone"]

Arrives ==
    \E n \in {m \in Note : inbox[m] = "none"} :
        /\ bellLeft.arrivals > 0 /\ bellLeft' = [bellLeft EXCEPT !.arrivals = @ - 1]
        /\ inbox' = create(n) /\ fresh' = FALSE
        /\ UNCHANGED <<bellCalls, badge, noteList, bell>>
sweep_expired ==
    \E n \in _active :
        /\ bellLeft.expiries > 0 /\ bellLeft' = [bellLeft EXCEPT !.expiries = @ - 1]
        /\ inbox' = dismiss_row(n) /\ fresh' = FALSE
        /\ UNCHANGED <<bellCalls, badge, noteList, bell>>
_owned ==
    \E c \in {x \in bellCalls : x.at = "asked"} :
        /\ bellCalls' = (bellCalls \ {c}) \cup {[c EXCEPT !.at = "done"]}
        /\ inbox' = CASE c.op = "read" -> mark_read(c.note) [] c.op = "readAll" -> mark_all_read
                      [] OTHER -> dismiss_row(c.note)
        /\ UNCHANGED <<badge, noteList, bell, fresh, bellLeft>>
BellCallLost ==
    \E c \in {x \in bellCalls : x.at \in {"asked", "done"}} :
        /\ bellLeft.faults > 0 /\ bellLeft' = [bellLeft EXCEPT !.faults = @ - 1]
        /\ bellCalls' = (bellCalls \ {c}) \cup {[c EXCEPT !.at = "refused"]}
        /\ fresh' = (fresh /\ (c.at = "asked" \/ c.op = "dismiss"))
        /\ UNCHANGED <<inbox, badge, noteList, bell>>

-----------------------------------------------------------------------------
(* The queries.                                                            *)
useUnreadCount(q) == [q EXCEPT !.at = "asked", !.got = 0]
countAgain(q) == IF q.known \/ q.at = "none" THEN useUnreadCount(q) ELSE q
useNotifications(q, open) == IF open THEN [q EXCEPT !.at = "asked", !.got = {}] ELSE q
listAgain(q) == IF q.known \/ q.at = "none" THEN useNotifications(q, bell.open) ELSE q

pollNever == FALSE /\ UNCHANGED bellVars
refetchInterval ==
    /\ badge.at = "none" /\ badge' = useUnreadCount(badge)
    /\ UNCHANGED <<inbox, bellCalls, noteList, bell, fresh, bellLeft>>
fetchUnreadCount ==
    /\ badge.at # "none"
    /\ badge' = IF badge.at = "asked" THEN [badge EXCEPT !.at = "read", !.got = unread_count]
                ELSE [at |-> "none", shown |-> badge.got, got |-> 0, known |-> TRUE]
    /\ UNCHANGED <<inbox, bellCalls, noteList, bell, fresh, bellLeft>>
listNotifications ==
    /\ noteList.at # "none"
    /\ noteList' = IF noteList.at = "asked" THEN [noteList EXCEPT !.at = "read", !.got = list_active]
                   ELSE [at |-> "none", rows |-> noteList.got, got |-> {}, known |-> TRUE]
    /\ fresh' = (IF noteList.at = "asked" THEN TRUE ELSE fresh)
    /\ UNCHANGED <<inbox, bellCalls, badge, bell, bellLeft>>

(* The bell.                                                               *)
NotificationsBell ==
    /\ (bell.open \/ BellMay("open")) /\ (IF bell.open THEN UNCHANGED bellLeft ELSE SpendBell)
    /\ bell' = [bell EXCEPT !.open = ~@]
    /\ noteList' = IF bell.open \/ noteList.at # "none" THEN noteList ELSE useNotifications(noteList, TRUE)
    /\ UNCHANGED <<inbox, bellCalls, badge, fresh>>
AskBell(op, n, previous) ==
    bellCalls' = bellCalls \cup {[op |-> op, note |-> n, at |-> "asked", previous |-> previous]}
NoNote == "all"
NotificationRow ==
    \E row \in noteList.rows :
        /\ bell.open /\ row[2] = "unread" /\ NoteKind[row[1]] # "comment" /\ BellMay("read") /\ SpendBell
        /\ AskBell("read", row[1], {}) /\ UNCHANGED <<inbox, badge, noteList, bell, fresh>>
onOpenComment ==      \* a comment's row is read and leads to its thread
    \E row \in noteList.rows :
        /\ bell.open /\ NoteKind[row[1]] = "comment" /\ BellMay("comment") /\ SpendBell
        /\ bellCalls' = bellCalls \cup (IF row[2] = "unread" THEN {[op |-> "read", note |-> row[1], at |-> "asked",
                                                                   previous |-> {}]} ELSE {})
        /\ bell' = [open |-> FALSE, led |-> row[1]]
        /\ UNCHANGED <<inbox, badge, noteList, fresh>>
onAccept ==           \* an invite's button leads to its page
    \E row \in noteList.rows :
        /\ bell.open /\ NoteKind[row[1]] = "invite" /\ BellMay("accept") /\ SpendBell
        /\ bell' = [open |-> FALSE, led |-> row[1]]
        /\ UNCHANGED <<inbox, bellCalls, badge, noteList, fresh>>
markAllRead ==
    /\ bell.open /\ badge.shown > 0 /\ BellMay("readAll") /\ SpendBell
    /\ AskBell("readAll", NoNote, {}) /\ UNCHANGED <<inbox, badge, noteList, bell, fresh>>
dismiss ==            \* shown at once, after the fetch under way is cancelled
    \E row \in noteList.rows :
        /\ bell.open /\ BellMay("dismiss") /\ SpendBell
        /\ AskBell("dismiss", row[1], noteList.rows)
        /\ noteList' = [noteList EXCEPT !.at = "none", !.got = {}, !.rows = @ \ {row}]
        /\ UNCHANGED <<inbox, badge, bell, fresh>>
useNotificationMutations ==
    \E c \in {x \in bellCalls : x.at \in {"done", "refused"}} :
        \E heard \in {c.at = "done" \/ c.op = "dismiss"} :
        /\ bellCalls' = bellCalls \ {c}
        /\ badge' = IF heard THEN countAgain(badge) ELSE badge
        /\ noteList' = IF ~heard THEN noteList
                       ELSE listAgain(IF c.at = "refused" THEN [noteList EXCEPT !.rows = c.previous] ELSE noteList)
        /\ fresh' = (fresh /\ (noteList.at # "read" \/ (noteList.known /\ bell.open)))
        /\ UNCHANGED <<inbox, bell, bellLeft>>

-----------------------------------------------------------------------------
bellInit ==
    /\ bellLeft \in BellStories
    /\ inbox = [n \in Note |-> IF n \in bellLeft.there THEN "unread" ELSE "none"]
    /\ bellCalls = {} /\ fresh = FALSE
    /\ badge = [at |-> "asked", shown |-> 0, got |-> 0, known |-> FALSE]
    /\ noteList = [at |-> "none", rows |-> {}, got |-> {}, known |-> FALSE]
    /\ bell = [open |-> FALSE, led |-> NoNote]
bellNext ==
    \/ Arrives \/ sweep_expired \/ _owned \/ BellCallLost \/ refetchInterval \/ fetchUnreadCount
    \/ listNotifications \/ NotificationsBell \/ NotificationRow \/ onOpenComment \/ onAccept \/ markAllRead
    \/ dismiss \/ useNotificationMutations
BellStep == _owned \/ listNotifications \/ useNotificationMutations
PollBadge == refetchInterval \/ fetchUnreadCount

-----------------------------------------------------------------------------
(* Every variable has its type; an invite sent again is one notification   *)
(* still (inbox/service.py:45-62); all of kind "invite" are of one invite.   *)
bellTypeOK ==
    /\ inbox \in [Note -> {"none", "unread", "read", "gone"}]
    /\ badge.at \in {"none", "asked", "read"} /\ badge.shown \in 0..Cardinality(Note)
    /\ noteList.at \in {"none", "asked", "read"} /\ noteList.rows \subseteq Note \X {"unread", "read"}
    /\ Cardinality({n \in _active : NoteKind[n] = "invite"}) <= 1

(* Once the open list rests it shows the inbox, as long as nothing came or *)
(* went since it was read: a dismissal refused is put back, one that held  *)
(* is not (useNotifications.ts).                                           *)
BellListTrue ==
    (bell.open /\ fresh /\ bellCalls = {} /\ noteList.at = "none" /\ noteList.known) => noteList.rows = list_active

(* The badge is behind the inbox.  That must come to an end                *)
(* (useNotifications.ts:12-18).                                            *)
BadgeBehind == badge.shown # unread_count

=============================================================================
