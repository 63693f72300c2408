-------------------------- MODULE ProjectPagesProofs --------------------------
(***************************************************************************)
(* Every behaviour of the pages together is one of the share dialog and    *)
(* one of the sessions, so what is proved of either holds of the whole.    *)
(***************************************************************************)
EXTENDS MCProjectPages, AccessProofs

\* The pages around the share dialog leave members, links and invites alone.
THEOREM PagesShare == Spec => shareSpec
<1>1. Init => shareInit
  BY DEF Init
<1>2. [Next]_pageVars => [shareNext]_shareVars
  BY DEF Sharing, Preview, Board, Bell, Session, Account, pageVars, Next
<1> QED BY <1>1, <1>2, PTL DEF Spec, shareSpec

\* The pages around the sign-in leave tabs, tokens and accounts alone.
THEOREM PagesSessions == Spec => sessionSpec
<1>1. Init => sessionInit
  BY DEF Init
<1>2. [Next]_pageVars => [sessionNext]_sessionVars
  BY DEF Session, Preview, Board, Bell, Sharing, Account, pageVars, Next
<1> QED BY <1>1, <1>2, PTL DEF Spec, sessionSpec

\* A link that is off opens nothing, what the owner gave by hand no link takes
\* or lowers, an ended session stays dead, and a tab that is shown as signed in
\* is (sharing/, auth/sessions.py, api-client.ts): for every number of people,
\* tabs and requests.
THEOREM AccessIsKept == Spec => AccessHolds
BY PagesShare, PagesSessions, LinksGrantWhileOn, JoinsLowerNobody,
   EndedSessionsDie, NobodySignedOut, UsersHaveTokens, PTL DEF AccessHolds

-----------------------------------------------------------------------------
(* The bell *)

bellSpec == bellInit /\ [][bellNext]_bellVars

BellOp == {"read", "readAll", "dismiss"}
BellRows == SUBSET (Note \X {"unread", "read"})
Counts == 0 .. Cardinality(Note)
BellCallRows == [op : BellOp, note : Note \cup {NoNote}, at : {"asked", "done", "refused"}, previous : BellRows]
BellCallOK(c) == c \in BellCallRows /\ (c.op # "readAll" => c.note \in Note)
Invites(box, n) == box[n] \in {"unread", "read"} /\ NoteKind[n] = "invite"
OneInvite(box) == \A m, n \in Note : Invites(box, m) /\ Invites(box, n) => m = n
BellTypes ==
    /\ inbox \in [Note -> {"none", "unread", "read", "gone"}]
    /\ badge \in [at : {"none", "asked", "read"}, shown : Counts, got : Counts, known : BOOLEAN]
    /\ noteList \in [at : {"none", "asked", "read"}, rows : BellRows, got : BellRows, known : BOOLEAN]
    /\ bell \in [open : BOOLEAN, led : Note \cup {NoNote}] /\ fresh \in BOOLEAN
    /\ \A c \in bellCalls : BellCallOK(c)

\* No request has changed the inbox, or taken a row from the list, whose end the
\* list has not been told of.
Quiet == \A c \in bellCalls : c.at # "done" /\ c.op # "dismiss"

\* What was fetched after the last change is the inbox, unless a request of the
\* person's own has changed it and has yet to ask for the list again.
Told ==
    fresh /\ Quiet =>
        /\ noteList.at = "read" => noteList.got = list_active
        /\ noteList.at = "none" /\ bell.open /\ noteList.known => noteList.rows = list_active
BellInv == BellTypes /\ OneInvite(inbox) /\ Told


\* The count of the inbox is a number of notifications, its list rows of them.
LEMMA InboxRead ==
    ASSUME BellTypes
    PROVE  unread_count \in Counts /\ list_active \in BellRows
  BY NoteAssumption, FS_Subset, FS_CardinalityType DEF unread_count, Counts, list_active, _active,
     BellRows

\* What the server does to the inbox keeps its type and one invite in it.
LEMMA InboxSteps ==
    ASSUME BellTypes, OneInvite(inbox), NEW box,
           \/ \E n \in Note : inbox[n] = "none" /\ box = create(n)
           \/ \E n \in Note : box = dismiss_row(n) \/ box = mark_read(n)
           \/ box = mark_all_read
    PROVE  box \in [Note -> {"none", "unread", "read", "gone"}] /\ OneInvite(box)
  BY DEF BellTypes, create, _active, OneInvite, Invites, dismiss_row, mark_read, mark_all_read

\* The bell begins closed, and has asked for its number only.
LEMMA BellStart == bellInit => BellInv
<1> SUFFICES ASSUME bellInit PROVE BellInv
  OBVIOUS
<1>1. 0 \in Counts
  BY NoteAssumption, FS_CardinalityType DEF Counts
<1>2. badge \in [at : {"none", "asked", "read"}, shown : Counts, got : Counts, known : BOOLEAN]
  BY <1>1 DEF bellInit
<1>3. noteList \in [at : {"none", "asked", "read"}, rows : BellRows, got : BellRows, known : BOOLEAN]
  BY DEF bellInit, BellRows
<1>4. OneInvite(inbox)
  BY NoteAssumption DEF bellInit, OneInvite, Invites
<1>5. inbox \in [Note -> {"none", "unread", "read", "gone"}] /\ fresh \in BOOLEAN /\ bellCalls = {} /\ ~fresh
  BY DEF bellInit
<1>6. bell \in [open : BOOLEAN, led : Note \cup {NoNote}]
  BY DEF bellInit
<1> QED BY <1>2, <1>3, <1>4, <1>5, <1>6 DEF BellInv, BellTypes, Told


\* What comes and goes by another hand, or is answered, leaves the list for later.
LEMMA InboxMoves ==
    ASSUME BellInv, Arrives \/ sweep_expired \/ _owned \/ BellCallLost
    PROVE  BellInv'
<1>1. BellTypes /\ OneInvite(inbox) /\ Told
  BY DEF BellInv
<1>2. CASE Arrives \/ sweep_expired
  BY <1>2, <1>1, InboxSteps DEF Arrives, sweep_expired, _active, BellInv, BellTypes, Told, OneInvite,
     Invites
<1>3. CASE _owned
  <2>1. PICK c \in bellCalls : /\ c.at = "asked" /\ bellCalls' = (bellCalls \ {c}) \cup {[c EXCEPT !.at = "done"]}
                               /\ inbox' = CASE c.op = "read" -> mark_read(c.note) [] c.op = "readAll" -> mark_all_read
                                             [] OTHER -> dismiss_row(c.note)
                               /\ UNCHANGED <<badge, noteList, bell, fresh, bellLeft>>
    BY <1>3 DEF _owned
  <2>2. BellCallOK(c)
    BY <1>1 DEF BellTypes
  <2>3. inbox' \in [Note -> {"none", "unread", "read", "gone"}] /\ OneInvite(inbox')
    BY <1>1, <2>1, <2>2, InboxSteps DEF BellCallOK, BellCallRows, BellOp
  <2>4. PICK at \in {"done"} : bellCalls' = (bellCalls \ {c}) \cup {[c EXCEPT !.at = at]}
    BY <2>1
  <2>5. PICK d : d = [c EXCEPT !.at = at]
    OBVIOUS
  <2>6. BellCallOK(d) /\ d.at = "done"
    BY <2>2, <2>5 DEF BellCallOK, BellCallRows
  <2>7. ~Quiet'
    BY <2>4, <2>5, <2>6 DEF Quiet
  <2>8. \A x \in bellCalls' : BellCallOK(x)
    BY <1>1, <2>4, <2>5, <2>6 DEF BellTypes
  <2> QED BY <1>1, <2>1, <2>3, <2>7, <2>8 DEF BellInv, BellTypes, Told
<1>4. CASE BellCallLost
  <2>1. PICK c \in bellCalls : /\ bellCalls' = (bellCalls \ {c}) \cup {[c EXCEPT !.at = "refused"]}
                               /\ fresh' = (fresh /\ (c.at = "asked" \/ c.op = "dismiss"))
                               /\ UNCHANGED <<inbox, badge, noteList, bell>>
    BY <1>4 DEF BellCallLost
  <2>2. BellCallOK(c)
    BY <1>1 DEF BellTypes
  <2>3. PICK at \in {"refused"} : bellCalls' = (bellCalls \ {c}) \cup {[c EXCEPT !.at = at]}
    BY <2>1
  <2>4. PICK d : d = [c EXCEPT !.at = at]
    OBVIOUS
  <2>5. BellCallOK(d) /\ d.op = c.op
    BY <2>2, <2>4 DEF BellCallOK, BellCallRows
  <2>6. \A x \in bellCalls' : BellCallOK(x)
    BY <1>1, <2>3, <2>4, <2>5 DEF BellTypes
  <2>7. fresh' /\ Quiet' => fresh /\ Quiet
    BY <2>3, <2>4, <2>1, <2>5 DEF Quiet
  <2>8. fresh' \in BOOLEAN
    BY <1>1, <2>1
  <2>9. list_active' = list_active
    BY <2>1 DEF list_active, _active
  <2> QED BY <1>1, <2>1, <2>6, <2>7, <2>8, <2>9 DEF BellInv, BellTypes, Told, OneInvite, Invites
<1> QED BY <1>2, <1>3, <1>4


\* A query that is fetched keeps its type; a list that is read is the inbox.
LEMMA BellFetches ==
    ASSUME BellInv, refetchInterval \/ fetchUnreadCount \/ listNotifications
    PROVE  BellInv'
<1>1. BellTypes /\ OneInvite(inbox) /\ Told
  BY DEF BellInv
<1>2. badge \in [at : {"none", "asked", "read"}, shown : Counts, got : Counts, known : BOOLEAN]
  BY <1>1 DEF BellTypes
<1>3. noteList \in [at : {"none", "asked", "read"}, rows : BellRows, got : BellRows, known : BOOLEAN]
  BY <1>1 DEF BellTypes
<1>4. unread_count \in Counts /\ list_active \in BellRows /\ 0 \in Counts
  BY <1>1, InboxRead, NoteAssumption, FS_CardinalityType DEF Counts
<1>5. PICK t \in BOOLEAN : t = TRUE
  OBVIOUS
<1>6. CASE refetchInterval \/ fetchUnreadCount
  <2>1. badge' \in [at : {"none", "asked", "read"}, shown : Counts, got : Counts, known : BOOLEAN]
    <3>1. CASE refetchInterval
      BY <1>2, <1>4, <3>1 DEF refetchInterval, useUnreadCount
    <3>2. CASE fetchUnreadCount /\ badge.at = "asked"
      BY <1>4, <3>2, <1>2 DEF fetchUnreadCount
    <3>3. CASE fetchUnreadCount /\ badge.at # "asked"
      BY <1>5, <3>3, <1>2, <1>4 DEF fetchUnreadCount
    <3> QED BY <1>6, <3>1, <3>2, <3>3
  <2>2. UNCHANGED <<inbox, bellCalls, noteList, bell, fresh>>
    BY <1>6 DEF refetchInterval, fetchUnreadCount
  <2>3. list_active' = list_active /\ Quiet' = Quiet
    BY <2>2 DEF list_active, _active, Quiet
  <2> QED BY <1>1, <2>1, <2>2, <2>3 DEF BellInv, BellTypes, Told, OneInvite, Invites
<1>7. CASE listNotifications
  <2>1. UNCHANGED <<inbox, bellCalls, badge, bell>>
    BY <1>7 DEF listNotifications
  <2>2. list_active' = list_active /\ Quiet' = Quiet
    BY <2>1 DEF list_active, _active, Quiet
  <2>3. CASE noteList.at = "asked"
    BY <1>4, <1>5, <1>7, <2>3, <1>3, <1>1, <2>1, <2>2 DEF listNotifications, BellTypes, OneInvite,
       Invites, Told, BellInv
  <2>4. CASE noteList.at # "asked"
    BY <1>3, <1>7, <2>4, <1>5, <1>1, <2>1, <2>2 DEF listNotifications, BellRows, BellTypes, OneInvite,
       Invites, Told, BellInv
  <2> QED BY <2>3, <2>4
<1> QED BY <1>6, <1>7

\* A request that the person makes is a request; only a dismissal leaves the list
\* to be told of it.
LEMMA BellAsked ==
    ASSUME BellTypes, NEW op \in BellOp, NEW n \in Note \cup {NoNote}, NEW rows \in BellRows,
           op # "readAll" => n \in Note, AskBell(op, n, rows)
    PROVE  /\ \A c \in bellCalls' : BellCallOK(c)
           /\ Quiet' => Quiet /\ op # "dismiss"
<1>1. PICK at \in {"asked", "done", "refused"} : at = "asked"
  OBVIOUS
<1>2. PICK d : d = [op |-> op, note |-> n, at |-> at, previous |-> rows]
  OBVIOUS
<1>3. bellCalls' = bellCalls \cup {d}
  BY <1>1, <1>2 DEF AskBell
<1>4. BellCallOK(d) /\ d.op = op
  BY <1>2 DEF BellCallOK, BellCallRows
<1>5. \A c \in bellCalls' : BellCallOK(c)
  BY <1>3, <1>4 DEF BellTypes
<1>6. Quiet' => Quiet /\ op # "dismiss"
  BY <1>3, <1>4 DEF Quiet
<1> QED BY <1>5, <1>6


\* The bell opened, its list is asked for; a row followed closes it.
LEMMA BellClicks ==
    ASSUME BellInv, NotificationsBell \/ NotificationRow \/ onOpenComment \/ onAccept \/ markAllRead
    PROVE  BellInv'
<1>1. BellTypes /\ OneInvite(inbox) /\ Told
  BY DEF BellInv
<1>2. noteList \in [at : {"none", "asked", "read"}, rows : BellRows, got : BellRows, known : BOOLEAN]
  BY <1>1 DEF BellTypes
<1>3. bell \in [open : BOOLEAN, led : Note \cup {NoNote}]
  BY <1>1 DEF BellTypes
<1>4. UNCHANGED <<inbox, badge, fresh>>
  BY DEF NotificationsBell, NotificationRow, onOpenComment, onAccept, markAllRead
<1>5. list_active' = list_active /\ OneInvite(inbox')
  BY <1>1, <1>4 DEF list_active, _active
<1>6. \A row \in noteList.rows : row[1] \in Note
  BY <1>2 DEF BellRows
<1>7. {} \in BellRows
  BY DEF BellRows
<1>8. CASE NotificationsBell
  <2>1. bellCalls' = bellCalls /\ Quiet' = Quiet
    BY <1>8 DEF NotificationsBell, Quiet
  <2>2. PICK o \in BOOLEAN : o = ~bell.open
    BY <1>3
  <2>3. bell' = [bell EXCEPT !.open = o]
    BY <1>8, <2>2 DEF NotificationsBell
  <2>4. bell' \in [open : BOOLEAN, led : Note \cup {NoNote}] /\ bell'.open = o
    BY <1>3, <2>3
  <2>5. CASE bell.open \/ noteList.at # "none"
    <3>1. noteList' = noteList
      BY <1>8, <2>5 DEF NotificationsBell
    <3> QED BY <1>1, <1>4, <1>5, <2>1, <2>2, <2>4, <2>5, <3>1 DEF BellInv, BellTypes, Told
  <2>6. CASE ~(bell.open \/ noteList.at # "none")
    BY <1>8, <2>6, <1>2, <1>7, <1>1, <1>4, <1>5, <2>1, <2>4 DEF NotificationsBell, useNotifications,
       BellInv, BellTypes, Told
  <2> QED BY <2>5, <2>6
<1>9. ASSUME UNCHANGED noteList, bell' = bell \/ bell' \in [open : {FALSE}, led : Note \cup {NoNote}],
             \A c \in bellCalls' : BellCallOK(c), Quiet' => Quiet
      PROVE  BellInv'
  BY <1>3, <1>9, <1>1, <1>4, <1>5 DEF BellTypes, Told, BellInv
<1>10. CASE NotificationRow
  BY <1>10, <1>6, <1>1, <1>7, BellAsked, <1>9 DEF NotificationRow, BellOp
<1>11. CASE onOpenComment
  <2>1. PICK row \in noteList.rows :
            /\ bellCalls' = bellCalls \cup (IF row[2] = "unread" THEN {[op |-> "read", note |-> row[1], at |-> "asked",
                                                                   previous |-> {}]} ELSE {})
            /\ bell' = [open |-> FALSE, led |-> row[1]]
    BY <1>11, Zenon DEF onOpenComment
  <2>2. row[1] \in Note /\ "read" \in BellOp
    BY <1>6 DEF BellOp
  <2>3. (\A c \in bellCalls' : BellCallOK(c)) /\ (Quiet' => Quiet)
    BY <2>1, <1>1, <1>7, <2>2, BellAsked DEF AskBell, BellTypes, Quiet
  <2>4. PICK f \in {FALSE} : f = FALSE
    OBVIOUS
  <2>5. bell' = [open |-> f, led |-> row[1]]
    BY <2>1, <2>4
  <2>6. bell' \in [open : {FALSE}, led : Note \cup {NoNote}]
    BY <2>2, <2>5
  <2>7. UNCHANGED noteList
    BY <1>11 DEF onOpenComment
  <2> QED BY <1>9, <2>3, <2>6, <2>7
<1>12. CASE onAccept
  BY <1>12, <1>6, <1>1, <1>9 DEF onAccept, BellTypes, Quiet
<1>13. CASE markAllRead
  BY <1>13, <1>1, <1>7, BellAsked, <1>9 DEF markAllRead, BellOp
<1> QED BY <1>8, <1>10, <1>11, <1>12, <1>13


\* A row that is dismissed is taken from the list, and its request will tell of it.
LEMMA BellDismissed ==
    ASSUME BellInv, dismiss
    PROVE  BellInv'
<1>1. BellTypes /\ OneInvite(inbox) /\ Told
  BY DEF BellInv
<1>2. noteList \in [at : {"none", "asked", "read"}, rows : BellRows, got : BellRows, known : BOOLEAN]
  BY <1>1 DEF BellTypes
<1>3. PICK row \in noteList.rows : AskBell("dismiss", row[1], noteList.rows)
                                   /\ noteList' = [noteList EXCEPT !.at = "none", !.got = {}, !.rows = @ \ {row}]
  BY Zenon DEF dismiss
<1>4. row[1] \in Note /\ "dismiss" \in BellOp /\ noteList.rows \in BellRows /\ {} \in BellRows
  BY <1>2, <1>3 DEF BellOp, BellRows
<1>5. PICK rows \in BellRows : rows = noteList.rows \ {row}
  BY <1>4 DEF BellRows
<1>6. noteList' = [noteList EXCEPT !.at = "none", !.got = {}, !.rows = rows]
  BY <1>3, <1>5
<1>7. noteList' \in [at : {"none", "asked", "read"}, rows : BellRows, got : BellRows, known : BOOLEAN]
  BY <1>2, <1>4, <1>6
<1>8. (\A c \in bellCalls' : BellCallOK(c)) /\ ~Quiet'
  BY <1>3, <1>4, <1>1, BellAsked
<1>9. UNCHANGED <<inbox, badge, bell, fresh>>
  BY DEF dismiss
<1> QED BY <1>1, <1>7, <1>8, <1>9 DEF BellInv, BellTypes, Told, OneInvite, Invites

\* A request that ends has the list asked for again, unless it changed nothing.
LEMMA BellEnds ==
    ASSUME BellInv, useNotificationMutations
    PROVE  BellInv'
<1> DEFINE BellLists == [at : {"none", "asked", "read"}, rows : BellRows, got : BellRows, known : BOOLEAN]
<1>1. BellTypes /\ OneInvite(inbox) /\ Told
  BY DEF BellInv
<1>2. noteList \in BellLists /\ bell \in [open : BOOLEAN, led : Note \cup {NoNote}] /\ {} \in BellRows
  BY <1>1 DEF BellTypes, BellRows
<1>3. PICK c \in bellCalls :
          /\ c.at \in {"done", "refused"}
          /\ \E heard \in {c.at = "done" \/ c.op = "dismiss"} :
             /\ bellCalls' = bellCalls \ {c}
             /\ badge' = IF heard THEN countAgain(badge) ELSE badge
             /\ noteList' = IF ~heard THEN noteList
                            ELSE listAgain(IF c.at = "refused" THEN [noteList EXCEPT !.rows = c.previous] ELSE noteList)
             /\ fresh' = (fresh /\ (noteList.at # "read" \/ (noteList.known /\ bell.open)))
             /\ UNCHANGED <<inbox, bell, bellLeft>>
  BY Zenon DEF useNotificationMutations
<1>4. BellCallOK(c) /\ c.previous \in BellRows
  BY <1>1 DEF BellTypes, BellCallOK, BellCallRows
<1>5. /\ bellCalls' = bellCalls \ {c}
      /\ fresh' = (fresh /\ (noteList.at # "read" \/ (noteList.known /\ bell.open)))
      /\ UNCHANGED <<inbox, bell>>
  BY <1>3
<1>6. list_active' = list_active /\ OneInvite(inbox')
  BY <1>1, <1>5 DEF list_active, _active
<1>7. badge' \in [at : {"none", "asked", "read"}, shown : Counts, got : Counts, known : BOOLEAN]
  <2>1. badge' = badge \/ badge' = [badge EXCEPT !.at = "asked", !.got = 0]
    BY <1>3 DEF countAgain, useUnreadCount
  <2>2. 0 \in Counts
    BY NoteAssumption, FS_CardinalityType DEF Counts
  <2>3. badge \in [at : {"none", "asked", "read"}, shown : Counts, got : Counts, known : BOOLEAN]
    BY <1>1 DEF BellTypes
  <2> QED BY <2>1, <2>2, <2>3
<1>8. \A x \in bellCalls' : BellCallOK(x)
  BY <1>1, <1>5 DEF BellTypes
<1>9. fresh' \in BOOLEAN /\ (fresh' => fresh /\ (noteList.at = "read" => noteList.known /\ bell.open))
  BY <1>1, <1>5 DEF BellTypes
<1>10. CASE c.at = "done" \/ c.op = "dismiss"
  <2>1. PICK old : old = IF c.at = "refused" THEN [noteList EXCEPT !.rows = c.previous] ELSE noteList
    OBVIOUS
  <2>2. noteList' = listAgain(old)
    BY <1>3, <1>10, <2>1
  <2>3. old \in BellLists /\ old.at = noteList.at /\ old.known = noteList.known
    BY <1>2, <1>4, <2>1
  <2>4. \/ noteList' = old /\ (~bell.open \/ (~old.known /\ old.at # "none"))
        \/ noteList' = [old EXCEPT !.at = "asked", !.got = {}]
    BY <1>2, <2>2, <2>3 DEF listAgain, useNotifications
  <2>5. noteList' \in BellLists
    BY <1>2, <2>3, <2>4
  <2>6. Told'
    <3>1. CASE noteList' = old /\ (~bell.open \/ (~old.known /\ old.at # "none"))
      BY <1>2, <1>5, <1>9, <2>3, <3>1 DEF Told
    <3>2. CASE noteList' = [old EXCEPT !.at = "asked", !.got = {}]
      BY <2>3, <3>2 DEF Told
    <3> QED BY <2>4, <3>1, <3>2
  <2> QED BY <1>1, <1>5, <1>6, <1>7, <1>8, <1>9, <2>5, <2>6 DEF BellInv, BellTypes
<1>11. CASE ~(c.at = "done" \/ c.op = "dismiss")
  BY <1>3, <1>11, <1>5, <1>1, <1>6, <1>7, <1>8, <1>9 DEF Quiet, BellInv, BellTypes, Told
<1> QED BY <1>10, <1>11

\* Every step of the bell keeps the invariant.
LEMMA BellKept ==
    ASSUME BellInv, [bellNext]_bellVars
    PROVE  BellInv'
  BY InboxMoves, BellFetches, BellClicks, BellDismissed, BellEnds DEF bellVars, BellInv, BellTypes,
     Told, OneInvite, Invites, Quiet, list_active, _active, bellNext

\* The bell's variables keep their types, and an invite sent again is one row still.
LEMMA BellTyped == BellInv => bellTypeOK
<1> SUFFICES ASSUME BellInv PROVE bellTypeOK
  OBVIOUS
<1>1. BellTypes /\ OneInvite(inbox)
  BY DEF BellInv
<1>2. Cardinality({n \in _active : NoteKind[n] = "invite"}) <= 1
  <2>1. PICK S : S = {n \in _active : NoteKind[n] = "invite"}
    OBVIOUS
  <2>2. \A m, n \in S : m = n
    BY <1>1, <2>1 DEF OneInvite, Invites, _active
  <2>3. Cardinality(S) <= 1
    <3>1. CASE S = {}
      BY <3>1, FS_EmptySet
    <3>2. CASE S # {}
      <4>1. PICK m \in S : S = {m}
        BY <2>2, <3>2
      <4>2. Cardinality({m}) = 1
        BY FS_Singleton
      <4> QED BY <4>1, <4>2
    <3> QED BY <3>1, <3>2
  <2> QED BY <2>1, <2>3
<1> QED BY <1>1, <1>2 DEF BellTypes, BellRows, Counts, bellTypeOK

\* Once the open list rests it shows the inbox.
LEMMA BellShows == BellInv => BellListTrue
BY DEF BellInv, BellTypes, Told, Quiet, BellListTrue

\* The pages around the bell leave the inbox and its list alone.
THEOREM PagesBell == Spec => bellSpec
<1>1. Init => bellInit
  BY DEF Init
<1>2. [Next]_pageVars => [bellNext]_bellVars
  BY DEF Preview, Sharing, Board, Bell, Session, Account, pageVars, Next
<1> QED BY <1>1, <1>2, PTL DEF Spec, bellSpec

\* The bell's numbers and rows keep their types, an invite is one row however often
\* it is sent, and once the open list rests it shows the inbox (notifications/
\* service.py, useNotifications.ts): for any notifications, reads and dismissals.
THEOREM BellHolds == Spec => [](bellTypeOK /\ BellListTrue)
<1>1. bellInit => BellInv
  BY BellStart
<1>2. BellInv /\ [bellNext]_bellVars => BellInv'
  BY BellKept
<1>3. BellInv => bellTypeOK /\ BellListTrue
  BY BellTyped, BellShows
<1> QED BY <1>1, <1>2, <1>3, PagesBell, PTL DEF bellSpec

-----------------------------------------------------------------------------
(* The account's page *)

accountSpec == accountInit /\ [][accountNext]_accountVars

UserOp == {"name", "prefs", "email", "me"}
TokenOp == {"create", "revoke"}
UserRow == [name : Value, prefs : [Field -> Value], email : {"old", "new"}, pending : BOOLEAN]
RequestOK(c) ==
    /\ c = [id |-> c.id, op |-> c.op, value |-> c.value, prefs |-> c.prefs, base |-> c.base, at |-> c.at, got |-> c.got]
    /\ c.op \in UserOp \cup TokenOp /\ c.at \in {"sent", "done", "failed"}
    /\ c.value \in (IF c.op \in TokenOp THEN Secret ELSE Value)
    /\ c.prefs \in [Field -> Value] /\ c.base \in UserRow /\ c.got \in UserRow
TokenSets == SUBSET Secret
AccountTypes ==
    /\ account \in UserRow /\ userShown \in UserRow
    /\ \A c \in profileCalls : RequestOK(c)
    /\ forms \in [busy : SUBSET {"name", "email"}, announced : BOOLEAN]
    /\ gitTokens \in [Secret -> {"none", "live", "revoked"}] /\ secretShown \in Secret \cup {NoSecret}
    /\ tokenList \in [at : {"none", "asked", "read"}, rows : TokenSets, got : TokenSets, known : BOOLEAN, missed : BOOLEAN]
    /\ overlapped \in BOOLEAN /\ unsaved \in BOOLEAN /\ foreign \in BOOLEAN

\* A form is busy while its one request is under way.
OneOf(ops) == \A c, d \in profileCalls : c.op \in ops /\ d.op \in ops => c = d
BusyFor(f, ops) == f \in forms.busy <=> \E c \in profileCalls : c.op \in ops
FormsTold == OneOf({"name"}) /\ OneOf({"email", "me"}) /\ BusyFor("name", {"name"}) /\ BusyFor("email", {"email", "me"})

\* What a request of the user's knows of the row, and of what is shown of it.
Aware(c, row, shown) ==
    CASE c.op = "prefs" -> /\ shown = [c.base EXCEPT !.prefs = c.prefs]
                           /\ c.at = "sent" => row = c.base
                           /\ c.at = "done" => row = [c.base EXCEPT !.prefs = c.prefs]
      [] c.op \in {"name", "email"} /\ c.at # "done" -> shown = row
      [] c.op \in {"name", "me"} /\ c.at = "done" -> c.got = row
      [] OTHER -> TRUE
NoUserCall == \A c \in profileCalls : c.op \notin UserOp
RowShown ==
    /\ ~overlapped => OneOf(UserOp)
    /\ ~overlapped /\ ~unsaved /\ ~foreign =>
          /\ NoUserCall => userShown = account
          /\ \A c \in profileCalls : c.op \in UserOp => Aware(c, account, userShown)

\* The list read since the last token was made or revoked has the tokens that work.
TokensTold ==
    ~tokenList.missed /\ (\A c \in profileCalls : c.op \in TokenOp => c.at # "done") =>
        /\ tokenList.at = "none" => tokenList.rows = list_tokens
        /\ tokenList.at = "read" => tokenList.got = list_tokens
AccountInv == AccountTypes /\ FormsTold /\ RowShown /\ TokensTold


\* A request that moves keeps the rest of itself.
LEMMA RequestRow ==
    ASSUME NEW c, RequestOK(c), NEW x, NEW h
    PROVE  /\ [c EXCEPT !.at = x, !.got = h] = [id |-> c.id, op |-> c.op, value |-> c.value, prefs |-> c.prefs,
                                                base |-> c.base, at |-> x, got |-> h]
           /\ [c EXCEPT !.at = x] = [id |-> c.id, op |-> c.op, value |-> c.value, prefs |-> c.prefs,
                                     base |-> c.base, at |-> x, got |-> c.got]
<1>1. PICK i, q, v, p, b, a, g : c = [id |-> i, op |-> q, value |-> v, prefs |-> p, base |-> b, at |-> a, got |-> g]
  BY Zenon DEF RequestOK
<1>2. c.id = i /\ c.op = q /\ c.value = v /\ c.prefs = p /\ c.base = b /\ c.got = g
  BY <1>1
<1>3. [c EXCEPT !.at = x] = [id |-> i, op |-> q, value |-> v, prefs |-> p, base |-> b, at |-> x, got |-> g]
  BY <1>1
<1>4. [c EXCEPT !.at = x, !.got = h] = [id |-> i, op |-> q, value |-> v, prefs |-> p, base |-> b, at |-> x, got |-> h]
  <2>1. PICK e : e = [id |-> i, op |-> q, value |-> v, prefs |-> p, base |-> b, at |-> x, got |-> g]
    OBVIOUS
  <2>2. [c EXCEPT !.at = x, !.got = h] = [e EXCEPT !.got = h]
    BY <1>3, <2>1
  <2>3. [e EXCEPT !.got = h] = [id |-> i, op |-> q, value |-> v, prefs |-> p, base |-> b, at |-> x, got |-> h]
    BY <2>1
  <2> QED BY <2>2, <2>3, Zenon
<1> QED BY <1>2, <1>3, <1>4, Zenon

\* So does the one that a fetch takes the place of.
LEMMA RequestTurned ==
    ASSUME NEW c, RequestOK(c), NEW x, NEW o
    PROVE  [c EXCEPT !.op = o, !.at = x] = [id |-> c.id, op |-> o, value |-> c.value, prefs |-> c.prefs,
                                            base |-> c.base, at |-> x, got |-> c.got]
<1>1. PICK i, q, v, p, b, a, g : c = [id |-> i, op |-> q, value |-> v, prefs |-> p, base |-> b, at |-> a, got |-> g]
  BY Zenon DEF RequestOK
<1>2. c.id = i /\ c.op = q /\ c.value = v /\ c.prefs = p /\ c.base = b /\ c.got = g
  BY <1>1
<1>3. [c EXCEPT !.op = o, !.at = x] = [id |-> i, op |-> o, value |-> v, prefs |-> p, base |-> b, at |-> x, got |-> g]
  <2>1. PICK e : e = [id |-> i, op |-> o, value |-> v, prefs |-> p, base |-> b, at |-> a, got |-> g]
    OBVIOUS
  <2>2. [c EXCEPT !.op = o, !.at = x] = [e EXCEPT !.at = x]
    <3>1. [c EXCEPT !.op = o] = e
      BY <1>1, <2>1
    <3> QED BY <3>1
  <2>3. [e EXCEPT !.at = x] = [id |-> i, op |-> o, value |-> v, prefs |-> p, base |-> b, at |-> x, got |-> g]
    BY <2>1
  <2> QED BY <2>2, <2>3, Zenon
<1> QED BY <1>2, <1>3, Zenon


\* A request that takes the place of another of its kind leaves the forms as they are.
LEMMA RequestMoves ==
    ASSUME NEW c \in profileCalls, NEW d, d.op = c.op, profileCalls' = (profileCalls \ {c}) \cup {d}
    PROVE  /\ \A ops : OneOf(ops) => OneOf(ops)'
           /\ NoUserCall' <=> NoUserCall
           /\ FormsTold /\ UNCHANGED forms => FormsTold'
  BY DEF OneOf, NoUserCall, FormsTold, BusyFor

\* The page begins with the account as it is and no request.
LEMMA AccountStart == accountInit => AccountInv
<1> SUFFICES ASSUME accountInit PROVE AccountInv
  OBVIOUS
<1>1. PICK f \in BOOLEAN : f = FALSE
  OBVIOUS
<1>2. PICK p \in [Field -> Value] : p = [g \in Field |-> First]
  BY FirstAssumption
<1>3. account = [name |-> First, prefs |-> p, email |-> "old", pending |-> f] /\ userShown = account
  BY <1>1, <1>2 DEF accountInit
<1>4. account \in UserRow /\ userShown \in UserRow
  BY <1>3, FirstAssumption DEF UserRow
<1>5. forms = [busy |-> {}, announced |-> f]
  BY <1>1 DEF accountInit
<1>6. tokenList = [at |-> "asked", rows |-> {}, got |-> {}, known |-> f, missed |-> f] /\ {} \in TokenSets
  BY <1>1 DEF accountInit, TokenSets
<1>7. profileCalls = {} /\ secretShown = NoSecret /\ ~overlapped /\ ~unsaved /\ ~foreign
      /\ overlapped \in BOOLEAN /\ unsaved \in BOOLEAN /\ foreign \in BOOLEAN
      /\ gitTokens \in [Secret -> {"none", "live", "revoked"}]
  BY DEF accountInit
<1>8. tokenList \in [at : {"none", "asked", "read"}, rows : TokenSets, got : TokenSets, known : BOOLEAN, missed : BOOLEAN]
  BY <1>6
<1>9. forms \in [busy : SUBSET {"name", "email"}, announced : BOOLEAN]
  BY <1>5
<1>10. AccountTypes
  BY <1>4, <1>7, <1>8, <1>9 DEF AccountTypes
<1>11. FormsTold
  BY <1>5, <1>7 DEF FormsTold, OneOf, BusyFor
<1>12. RowShown
  BY <1>3, <1>7 DEF RowShown, OneOf, NoUserCall
<1>13. TokensTold
  BY <1>6 DEF TokensTold
<1> QED BY <1>10, <1>11, <1>12, <1>13 DEF AccountInv

\* What the server makes of a request is a row, and tokens, of their types.
LEMMA HandledOK ==
    ASSUME AccountTypes, NEW c \in profileCalls
    PROVE  /\ Handled(c) \in UserRow /\ TokensHandled(c) \in [Secret -> {"none", "live", "revoked"}]
           /\ c.op \notin UserOp => Handled(c) = account
           /\ c.op \notin TokenOp => TokensHandled(c) = gitTokens
           /\ c.op = "prefs" => Handled(c) = [account EXCEPT !.prefs = c.prefs]
           /\ c.op = "me" => Handled(c) = account
  BY DEF AccountTypes, RequestOK, TokenOp, Handled, update_profile, UserRow, set_editor_preferences,
     start_email_change, TokensHandled, create_token, revoke_token, UserOp

\* The server answers a request with the row it made.
LEMMA ServerKeeps ==
    ASSUME AccountInv, AccountServer
    PROVE  AccountInv'
<1>1. AccountTypes /\ FormsTold /\ RowShown /\ TokensTold
  BY DEF AccountInv
<1>2. PICK c \in profileCalls :
          /\ c.at = "sent"
          /\ profileCalls' = (profileCalls \ {c}) \cup
                {[c EXCEPT !.at = IF c.op = "revoke" /\ gitTokens[c.value] # "live" THEN "failed" ELSE "done",
                           !.got = Handled(c)]}
          /\ account' = Handled(c) /\ gitTokens' = TokensHandled(c)
          /\ UNCHANGED <<userShown, forms, tokenList, secretShown, overlapped, unsaved, foreign, accountLeft>>
  BY Zenon DEF AccountServer
<1>3. PICK x : x = IF c.op = "revoke" /\ gitTokens[c.value] # "live" THEN "failed" ELSE "done"
  OBVIOUS
<1>4. PICK h \in UserRow : h = Handled(c)
  BY <1>1, HandledOK
<1>5. PICK d : d = [id |-> c.id, op |-> c.op, value |-> c.value, prefs |-> c.prefs, base |-> c.base, at |-> x, got |-> h]
  OBVIOUS
<1>6. RequestOK(c)
  BY <1>1 DEF AccountTypes
<1>7. profileCalls' = (profileCalls \ {c}) \cup {d}
  BY <1>5, <1>6, RequestRow, <1>2, <1>3, <1>4
<1>8. RequestOK(d) /\ d.op = c.op /\ d.at = x /\ x \in {"done", "failed"} /\ d.got = h /\ d.base = c.base /\ d.prefs = c.prefs
  BY <1>3, <1>5, <1>6 DEF RequestOK
<1>9. c.op # "revoke" => x = "done"
  BY <1>3
<1>10. AccountTypes'
  BY <1>1, <1>2, HandledOK, <1>7, <1>8 DEF AccountTypes
<1>11. FormsTold'
  BY <1>1, <1>2, <1>7, <1>8, RequestMoves
<1>12. RowShown'
  <2>1. ~overlapped' => (OneOf(UserOp))'
    BY <1>1, <1>2, <1>7, <1>8, RequestMoves DEF RowShown
  <2>2. ASSUME ~overlapped', ~unsaved', ~foreign' PROVE
            /\ NoUserCall' => userShown' = account'
            /\ \A y \in profileCalls' : y.op \in UserOp => Aware(y, account', userShown')
    <3>1. ~overlapped /\ ~unsaved /\ ~foreign
      BY <1>2, <2>2
    <3>2. CASE c.op \in TokenOp
      BY <1>1, <1>2, <1>8, <3>2, HandledOK, <1>7, RequestMoves, <3>1 DEF TokenOp, UserOp, RowShown
    <3>3. CASE c.op \in UserOp
      BY <1>1, <3>1, <3>3, <1>7, <1>8, <1>2, <1>4, <1>9, HandledOK DEF RowShown, OneOf, NoUserCall,
         UserOp, Aware
    <3> QED BY <1>6, <3>2, <3>3 DEF RequestOK
  <2> QED BY <2>1, <2>2 DEF RowShown
<1>13. TokensTold'
  BY <1>2, <1>7, <1>8, <1>1, HandledOK, <1>3 DEF TokensTold, list_tokens, TokensHandled, revoke_token,
     AccountTypes
<1> QED BY <1>10, <1>11, <1>12, <1>13 DEF AccountInv


\* A request that is lost fails: what it had changed is not known here any more.
LEMMA LossKeeps ==
    ASSUME AccountInv, AccountCallLost
    PROVE  AccountInv'
<1>1. AccountTypes /\ FormsTold /\ RowShown /\ TokensTold
  BY DEF AccountInv
<1>2. PICK c \in profileCalls :
          /\ c.at \in {"sent", "done"}
          /\ profileCalls' = (profileCalls \ {c}) \cup {[c EXCEPT !.at = "failed"]}
          /\ foreign' = (foreign \/ (c.at = "done" /\ c.op \in {"name", "email"}))
          /\ tokenList' = IF c.at = "done" THEN [tokenList EXCEPT !.missed = TRUE] ELSE tokenList
          /\ UNCHANGED <<account, userShown, forms, gitTokens, secretShown, overlapped, unsaved>>
  BY Zenon DEF AccountCallLost
<1>3. RequestOK(c)
  BY <1>1 DEF AccountTypes
<1>4. PICK x : x = "failed"
  OBVIOUS
<1>5. PICK d : d = [id |-> c.id, op |-> c.op, value |-> c.value, prefs |-> c.prefs, base |-> c.base, at |-> x, got |-> c.got]
  OBVIOUS
<1>6. profileCalls' = (profileCalls \ {c}) \cup {d}
  BY <1>3, <1>5, RequestRow, <1>2, <1>4
<1>7. RequestOK(d) /\ d.op = c.op /\ d.at = "failed" /\ d.base = c.base /\ d.prefs = c.prefs
  BY <1>3, <1>4, <1>5 DEF RequestOK
<1>8. AccountTypes'
  BY <1>1, <1>6, <1>7, <1>2 DEF AccountTypes
<1>9. FormsTold'
  BY <1>1, <1>2, <1>6, <1>7, RequestMoves
<1>10. RowShown'
  <2>1. ~overlapped' => (OneOf(UserOp))'
    BY <1>1, <1>2, <1>6, <1>7, RequestMoves DEF RowShown
  <2>2. ASSUME ~overlapped', ~unsaved', ~foreign' PROVE
            /\ NoUserCall' => userShown' = account'
            /\ \A y \in profileCalls' : y.op \in UserOp => Aware(y, account', userShown')
    <3>1. ~overlapped /\ ~unsaved /\ ~foreign /\ ~(c.at = "done" /\ c.op \in {"name", "email"})
      BY <1>2, <2>2
    <3>2. NoUserCall' => userShown' = account'
      BY <1>1, <1>2, <1>6, <1>7, <3>1, RequestMoves DEF RowShown
    <3>3. \A y \in profileCalls : y.op \in UserOp => Aware(y, account, userShown)
      BY <1>1, <3>1 DEF RowShown
    <3>4. c.op \in UserOp => Aware(d, account, userShown)
      BY <1>2, <1>7, <3>1, <3>3 DEF Aware
    <3> QED BY <1>2, <1>6, <1>7, <3>2, <3>3, <3>4
  <2> QED BY <2>1, <2>2 DEF RowShown
<1>11. TokensTold'
  BY <1>2, <1>1, <1>6 DEF TokensTold, AccountTypes, list_tokens
<1> QED BY <1>8, <1>9, <1>10, <1>11 DEF AccountInv

\* A request that is sent carries what is shown and knows of nothing done.
LEMMA RequestSent ==
    ASSUME AccountTypes, NEW op \in UserOp \cup TokenOp, NEW value \in IF op \in TokenOp THEN Secret ELSE Value,
           NEW prefs \in [Field -> Value], CallWith(op, value, prefs)
    PROVE  \E d : /\ profileCalls' = profileCalls \cup {d} /\ RequestOK(d)
                  /\ d.op = op /\ d.at = "sent" /\ d.prefs = prefs /\ d.base = userShown
<1>1. PICK i, x : i = NextId /\ x = "sent"
  OBVIOUS
<1>2. PICK d : d = [id |-> i, op |-> op, value |-> value, prefs |-> prefs, base |-> userShown, at |-> x, got |-> account]
  OBVIOUS
<1>3. profileCalls' = profileCalls \cup {d}
  BY <1>1, <1>2, Zenon DEF CallWith
<1>4. d = [id |-> d.id, op |-> d.op, value |-> d.value, prefs |-> d.prefs, base |-> d.base, at |-> d.at, got |-> d.got]
  BY <1>2
<1>5. d.op = op /\ d.at = "sent" /\ d.prefs = prefs /\ d.base = userShown /\ d.value = value /\ d.got = account
  BY <1>1, <1>2
<1>6. RequestOK(d)
  BY <1>4, <1>5 DEF AccountTypes, RequestOK
<1> QED BY <1>3, <1>5, <1>6

\* A request that is sent leaves the list of tokens as true as it was.
LEMMA TokensWait ==
    ASSUME TokensTold, NEW d, d.at = "sent", profileCalls' = profileCalls \cup {d}, UNCHANGED <<gitTokens, tokenList>>
    PROVE  TokensTold'
BY DEF TokensTold, list_tokens

\* A request of the user's is the only one, or the two are known to overlap.
LEMMA RequestAlone ==
    ASSUME RowShown, overlapped \in BOOLEAN, Overlaps, NEW d, d.op \in UserOp, profileCalls' = profileCalls \cup {d}
    PROVE  /\ overlapped' \in BOOLEAN
           /\ ~overlapped' => /\ ~overlapped /\ NoUserCall /\ ~NoUserCall'
                              /\ (OneOf(UserOp))' /\ \A y \in profileCalls' : y.op \in UserOp => y = d
  BY DEF Overlaps, TokenOp, NoUserCall, OneOf, UserOp

\* A request that no form waits for leaves the forms as they are.
LEMMA NoForm ==
    ASSUME FormsTold, NEW d, d.op \notin {"name", "email", "me"}, profileCalls' = profileCalls \cup {d}, UNCHANGED forms
    PROVE  FormsTold'
  BY DEF OneOf, FormsTold, BusyFor


\* A preference is shown at once, in the user the request was sent from.
LEMMA PrefsKeep ==
    ASSUME AccountInv, NEW f \in Field, NEW v \in Value, putEditorPreferences(f, v),
           UNCHANGED <<account, forms, gitTokens, tokenList, secretShown, unsaved, foreign>>
    PROVE  AccountInv'
  BY RequestSent, RequestAlone, NoForm, TokensWait DEF AccountInv, AccountTypes, UserRow, prefsOf,
     putEditorPreferences, applyUser, UserOp, TokenOp, RowShown, Aware

\* A form that is sent is busy with its one request.
LEMMA FormKeeps ==
    ASSUME AccountInv, ProfileSection \/ EmailSection
    PROVE  AccountInv'
  BY FirstAssumption, RequestSent, RequestAlone, TokensWait DEF AccountInv, ProfileSection,
     EmailSection, AccountTypes, UserRow, Call, UserOp, TokenOp, FormsTold, BusyFor, FormBusy, OneOf,
     RowShown, Aware

\* The link of the mail changes the account from elsewhere.
LEMMA ConfirmKeeps ==
    ASSUME AccountInv, ConfirmEmailPage
    PROVE  AccountInv'
<1>1. AccountTypes /\ FormsTold /\ RowShown /\ TokensTold
  BY DEF AccountInv
<1>2. PICK t, f \in BOOLEAN : t = TRUE /\ f = FALSE
  OBVIOUS
<1>3. account' = [account EXCEPT !.pending = f, !.email = "new"] /\ foreign' = t
      /\ UNCHANGED <<userShown, profileCalls, forms, gitTokens, tokenList, secretShown, overlapped, unsaved>>
  BY <1>2 DEF ConfirmEmailPage, confirm_email_change
<1>4. account' \in UserRow
  BY <1>1, <1>3 DEF AccountTypes, UserRow
<1>5. AccountTypes'
  BY <1>1, <1>2, <1>3, <1>4 DEF AccountTypes
<1>6. FormsTold' /\ TokensTold'
  BY <1>1, <1>3 DEF FormsTold, OneOf, BusyFor, TokensTold, list_tokens
<1>7. RowShown'
  BY <1>1, <1>2, <1>3 DEF RowShown, OneOf
<1> QED BY <1>5, <1>6, <1>7 DEF AccountInv


\* A request of the user's that ends frees its form, and no other was under way.
LEMMA RequestEnds ==
    ASSUME AccountTypes, FormsTold, RowShown, TokensTold, NEW c \in profileCalls, c.op \in UserOp,
           profileCalls' = profileCalls \ {c}, forms' = Refused(c), UNCHANGED <<gitTokens, tokenList, overlapped>>
    PROVE  /\ forms' \in [busy : SUBSET {"name", "email"}, announced : BOOLEAN] /\ FormsTold' /\ TokensTold'
           /\ ~overlapped' => (OneOf(UserOp))' /\ NoUserCall'
  BY DEF AccountTypes, Refused, Done, FormsTold, OneOf, BusyFor, UserOp, TokenOp, TokensTold,
     list_tokens, RowShown, NoUserCall

\* The user that was fetched or saved is shown, the preferences sent in the user
\* they were sent from; a new address is followed by a fetch.
LEMMA AnswerKeeps ==
    ASSUME AccountInv, AccountAnswered
    PROVE  AccountInv'
<1>1. AccountTypes /\ FormsTold /\ RowShown /\ TokensTold
  BY DEF AccountInv
<1>2. PICK c \in profileCalls :
          /\ c.at = "done" /\ c.op \notin {"create", "revoke"}
          /\ IF c.op = "email"
             THEN /\ profileCalls' = refreshProfile(c) /\ forms' = [forms EXCEPT !.announced = TRUE]
                  /\ UNCHANGED userShown
             ELSE /\ profileCalls' = profileCalls \ {c} /\ applyUser(Applied(c))
                  /\ forms' = CASE c.op = "name" -> Done("name") [] c.op = "me" -> Done("email") [] OTHER -> forms
          /\ UNCHANGED <<account, gitTokens, tokenList, secretShown, overlapped, unsaved, foreign, accountLeft>>
  BY Zenon DEF AccountAnswered
<1>3. RequestOK(c) /\ c.op \in UserOp
  BY <1>1, <1>2 DEF AccountTypes, RequestOK, TokenOp
<1>4. CASE c.op = "email"
  <2>1. PICK x, o : x = "sent" /\ o = "me"
    OBVIOUS
  <2>2. PICK d : d = [id |-> c.id, op |-> o, value |-> c.value, prefs |-> c.prefs, base |-> c.base, at |-> x, got |-> c.got]
    OBVIOUS
  <2>3. profileCalls' = (profileCalls \ {c}) \cup {d}
    <3>1. [c EXCEPT !.op = o, !.at = x] = [id |-> c.id, op |-> o, value |-> c.value, prefs |-> c.prefs,
                                           base |-> c.base, at |-> x, got |-> c.got]
      BY <1>3, RequestTurned
    <3> QED BY <1>2, <1>4, <2>1, <2>2, <3>1 DEF refreshProfile
  <2>4. RequestOK(d) /\ d.op = "me" /\ d.at = "sent"
    BY <1>3, <1>4, <2>1, <2>2 DEF RequestOK, UserOp, TokenOp
  <2>5. forms' \in [busy : SUBSET {"name", "email"}, announced : BOOLEAN] /\ forms'.busy = forms.busy
    BY <1>2, <1>4, <1>1 DEF AccountTypes
  <2>6. UNCHANGED <<account, userShown, gitTokens, tokenList, secretShown, overlapped, unsaved, foreign>>
    BY <1>2, <1>4
  <2>7. \A y \in profileCalls' : RequestOK(y)
    BY <1>1, <2>3, <2>4 DEF AccountTypes
  <2>8. AccountTypes'
    BY <1>1, <2>5, <2>6, <2>7 DEF AccountTypes
  <2>9. FormsTold'
    BY <1>1, <1>4, <2>3, <2>4, <2>5 DEF FormsTold, OneOf, BusyFor
  <2>10. TokensTold'
    BY <1>1, <1>4, <2>3, <2>4, <2>6 DEF TokensTold, TokenOp, list_tokens
  <2>11. RowShown'
    BY <1>1, <1>3, <2>3, <2>4, <2>6 DEF RowShown, OneOf, UserOp, NoUserCall, Aware
  <2> QED BY <2>8, <2>9, <2>10, <2>11 DEF AccountInv
<1>5. CASE c.op # "email"
  BY <1>2, <1>5, <1>1, <1>3, RequestEnds DEF applyUser, Refused, RequestOK, Applied, UserRow,
     AccountTypes, RowShown, Aware, UserOp, NoUserCall, AccountInv
<1> QED BY <1>4, <1>5

\* A request refused leaves what is shown as it is.
LEMMA RefusalKeeps ==
    ASSUME AccountInv, AccountRefused
    PROVE  AccountInv'
<1>1. AccountTypes /\ FormsTold /\ RowShown /\ TokensTold
  BY DEF AccountInv
<1>2. PICK c \in profileCalls :
          /\ c.at = "failed" /\ c.op \notin {"create", "revoke"}
          /\ profileCalls' = profileCalls \ {c} /\ forms' = Refused(c)
          /\ unsaved' = (unsaved \/ c.op = "prefs") /\ foreign' = (foreign \/ c.op = "me")
          /\ UNCHANGED <<account, userShown, gitTokens, tokenList, secretShown, overlapped, accountLeft>>
  BY Zenon DEF AccountRefused
<1>3. RequestOK(c) /\ c.op \in UserOp
  BY <1>1, <1>2 DEF AccountTypes, RequestOK, TokenOp
<1>4. /\ forms' \in [busy : SUBSET {"name", "email"}, announced : BOOLEAN] /\ FormsTold' /\ TokensTold'
      /\ ~overlapped' => (OneOf(UserOp))' /\ NoUserCall'
  BY <1>1, <1>2, <1>3, RequestEnds
<1>5. unsaved' \in BOOLEAN /\ foreign' \in BOOLEAN
  BY <1>1, <1>2 DEF AccountTypes
<1>6. AccountTypes'
  BY <1>1, <1>2, <1>4, <1>5 DEF AccountTypes
<1>7. ~overlapped' /\ ~unsaved' /\ ~foreign' => userShown' = account'
  BY <1>2, <1>3, <1>1 DEF UserOp, RowShown, Aware
<1>8. RowShown'
  BY <1>4, <1>7 DEF RowShown, NoUserCall
<1> QED BY <1>4, <1>6, <1>8 DEF AccountInv


\* The requests about tokens leave the user alone.
LEMMA UserAlone ==
    ASSUME FormsTold, RowShown, UNCHANGED <<account, userShown, forms, overlapped, unsaved, foreign>>,
           \/ UNCHANGED profileCalls
           \/ \E c \in profileCalls : c.op \in TokenOp /\ profileCalls' = profileCalls \ {c}
           \/ \E d : d.op \in TokenOp /\ profileCalls' = profileCalls \cup {d}
    PROVE  FormsTold' /\ RowShown'
  BY DEF UserOp, TokenOp, OneOf, FormsTold, BusyFor, RowShown, NoUserCall

\* A token is asked for, or asked to be revoked.
LEMMA TokenAsked ==
    ASSUME AccountInv, CreateForm \/ TokenRow
    PROVE  AccountInv'
  BY RequestSent, UserAlone, TokensWait DEF AccountInv, CreateForm, TokenRow, Call, TokenOp,
     AccountTypes, TokenSets, UserRow

\* The list is asked for again when a token was made or revoked.
LEMMA TokenAnswered ==
    ASSUME AccountInv, TokensAnswered
    PROVE  AccountInv'
<1> DEFINE TokenLists == [at : {"none", "asked", "read"}, rows : TokenSets, got : TokenSets, known : BOOLEAN, missed : BOOLEAN]
<1>1. AccountTypes /\ FormsTold /\ RowShown /\ TokensTold
  BY DEF AccountInv
<1>2. PICK c \in profileCalls :
        /\ c.at \in {"done", "failed"} /\ c.op \in {"create", "revoke"}
        /\ profileCalls' = profileCalls \ {c}
        /\ IF c.at = "failed" THEN UNCHANGED <<secretShown, tokenList>>
           ELSE /\ ShownOnce(c)
                /\ tokenList' = [refresh(tokenList) EXCEPT !.missed = @ \/ (~tokenList.known /\ tokenList.at = "read")]
        /\ UNCHANGED <<account, userShown, forms, gitTokens, overlapped, unsaved, foreign, accountLeft>>
  BY Zenon DEF TokensAnswered
<1>3. RequestOK(c) /\ c.op \in TokenOp /\ c.value \in Secret
  BY <1>1, <1>2 DEF AccountTypes, RequestOK, TokenOp
<1>4. UNCHANGED <<account, userShown, forms, gitTokens, overlapped, unsaved, foreign>>
      /\ \A y \in profileCalls' : RequestOK(y)
  BY <1>1, <1>2 DEF AccountTypes
<1>5. FormsTold' /\ RowShown'
  BY <1>1, <1>2, <1>3, <1>4, UserAlone
<1>6. secretShown' \in Secret \cup {NoSecret}
  BY <1>1, <1>2, <1>3 DEF ShownOnce, AccountTypes
<1>7. tokenList \in TokenLists
  BY <1>1 DEF AccountTypes
<1>8. CASE c.at = "failed"
  BY <1>2, <1>8, <1>1, <1>4, <1>6, <1>5 DEF AccountTypes, TokensTold, list_tokens, AccountInv
<1>9. CASE c.at = "done"
  <2>1. PICK q : q = refresh(tokenList)
    OBVIOUS
  <2>2. q \in TokenLists /\ ((q = tokenList /\ ~tokenList.known /\ tokenList.at # "none") \/ q.at = "asked")
    BY <1>7, <2>1 DEF TokenSets, refresh, GitAccessSection
  <2>3. PICK m \in BOOLEAN : m = (q.missed \/ (~tokenList.known /\ tokenList.at = "read"))
    BY <1>7, <2>2
  <2>4. tokenList' = [q EXCEPT !.missed = m]
    BY <1>2, <1>9, <2>1, <2>3
  <2>5. tokenList' \in TokenLists /\ tokenList'.at = q.at /\ tokenList'.missed = m
    BY <2>2, <2>4
  <2>6. AccountTypes'
    BY <1>1, <1>4, <1>6, <2>5 DEF AccountTypes
  <2>7. ~tokenList'.missed => tokenList'.at = "asked"
    BY <1>7, <2>2, <2>3, <2>5
  <2>8. TokensTold'
    BY <2>7 DEF TokensTold
  <2> QED BY <1>5, <2>6, <2>8 DEF AccountInv
<1> QED BY <1>2, <1>8, <1>9

\* A list that is read has the tokens that work.
LEMMA TokenListRead ==
    ASSUME AccountInv, listGitTokens
    PROVE  AccountInv'
  BY UserAlone DEF AccountInv, listGitTokens, AccountTypes, list_tokens, TokenSets, TokensTold

\* Every step of the account's page keeps the invariant.
LEMMA AccountKept ==
    ASSUME AccountInv, [accountNext]_accountVars
    PROVE  AccountInv'
<1>1. CASE UNCHANGED accountVars
  BY <1>1 DEF accountVars, AccountInv, AccountTypes, FormsTold, RowShown, TokensTold, OneOf, BusyFor, NoUserCall, list_tokens
<1>2. CASE EditorPreferencesSection
  BY <1>2, PrefsKeep DEF EditorPreferencesSection
<1>3. CASE useEditorPreferences
  BY <1>3, PrefsKeep DEF useEditorPreferences, Field
<1>4. CASE accountNext /\ ~(EditorPreferencesSection \/ useEditorPreferences)
  BY <1>4, ServerKeeps, LossKeeps, FormKeeps, ConfirmKeeps, AnswerKeeps, RefusalKeeps, TokenAsked, TokenAnswered,
     TokenListRead DEF accountNext, AccountStep
<1> QED BY <1>1, <1>2, <1>3, <1>4

\* The account's variables keep their types; a form is busy while its request is under way.
LEMMA AccountTyped == AccountInv => accountTypeOK
  BY DEF AccountInv, AccountTypes, UserRow, FormsTold, BusyFor, FormBusy, accountTypeOK

\* At rest the page shows the account, and its list the tokens that work.
LEMMA AccountShows == AccountInv => AccountTrue /\ TokensTrue
  BY DEF AccountInv, RowShown, NoUserCall, AccountTrue, TokensTold, TokenOp, TokensTrue

\* The pages around the account's leave its row, its forms and its tokens alone.
THEOREM PagesAccount == Spec => accountSpec
<1>1. Init => accountInit
  BY DEF Init
<1>2. [Next]_pageVars => [accountNext]_accountVars
  BY DEF Preview, Sharing, Board, Bell, Session, Account, pageVars, Next
<1> QED BY <1>1, <1>2, PTL DEF Spec, accountSpec

\* The account's variables keep their types, a form is busy exactly while its request
\* is under way, and at rest the page shows the account and the tokens that work
\* (auth/router.py, AccountPage.tsx, git_access/router.py): for any values, requests
\* and faults.
THEOREM AccountHolds == Spec => [](accountTypeOK /\ AccountTrue /\ TokensTrue)
<1>1. accountInit => AccountInv
  BY AccountStart
<1>2. AccountInv /\ [accountNext]_accountVars => AccountInv'
  BY AccountKept
<1>3. AccountInv => accountTypeOK /\ AccountTrue /\ TokensTrue
  BY AccountTyped, AccountShows
<1> QED BY <1>1, <1>2, <1>3, PagesAccount, PTL DEF accountSpec

-----------------------------------------------------------------------------
(* The preview *)

compileSpec == compileInit /\ [][compileNext]_compileVars

JobStatus == Over \cup {"queued", "running"}
Sides == [fitMode : {"width", "none"}, page : Nat, scale : 1 .. MAX_SCALE, fitting : BOOLEAN]
Drawn == [doc : Nat, alive : BOOLEAN, pages : Nat, loading : BOOLEAN, error : BOOLEAN, run : Nat]

\* What is under way, once n compiles were made.
StartRows(n) == [kind : {"start"}, n : Nat, at : {"asked", "taken", "refused"}, id : 0 .. n]
PdfRows(n) == [kind : {"pdf"}, id : 1 .. n, run : Nat]
OutputRows(n) == [kind : {"log", "problems"}, id : 1 .. n]
SyncRows(n) == [kind : {"sync"}, id : 0 .. n]
CancelRows(n) == [kind : {"cancel"}, id : 1 .. n, status : JobStatus \cup {"asked"}]
PollRows(n) == [kind : {"poll"}, n : 1 .. MaxPolls, id : 1 .. n, status : JobStatus \cup {"asked"}]
StreamRows(n) == [kind : {"stream"}, id : 1 .. n, told : JobStatus \cup {"none"}]
AskedFor(n) ==
    StartRows(n) \cup PdfRows(n) \cup OutputRows(n) \cup SyncRows(n) \cup CancelRows(n) \cup PollRows(n) \cup StreamRows(n)
NetOK(asked, n) == asked \subseteq AskedFor(n) /\ \A r \in asked : r.kind = "start" /\ r.at = "taken" => r.id # 0

JobTypes == jobs \in Seq(JobStatus) /\ Len(jobs) <= Len(Pages) /\ flags \subseteq 1 .. Len(jobs)
ShownTypes ==
    /\ state \in [status : JobStatus \cup {"idle"}, id : 0 .. Len(jobs), last : 0 .. Len(jobs)]
    /\ pdfDoc \in Drawn /\ dock \in [tab : {"problems", "log"}, collapsed : BOOLEAN]
    /\ logState \in [shown : Nat, fetchedFor : Nat] /\ problems \in [key : Nat, shown : Nat, loading : BOOLEAN]
    /\ NetOK(net, Len(jobs))
WatchTypes ==
    /\ activeRef \in BOOLEAN /\ esRef \in [id : 0 .. Len(jobs), told : JobStatus \cup {"none"}]
    /\ pollRef \in 0 .. Len(jobs) /\ late \in BOOLEAN
PageTypes ==
    /\ viewport \in Sides /\ viewport.page \in 1 .. (IF pdfDoc.pages = 0 THEN 1 ELSE pdfDoc.pages)
    /\ pdfTarget \in Nat /\ (viewport.fitMode = "none" => ~viewport.fitting)
LeftTypes ==
    /\ left \in [starts : Nat, cancels : Nat, logs : Nat, jumps : Nat, moves : Nat, breaks : Nat,
                 ends : SUBSET {"success", "failure"}]
    /\ crossed \in BOOLEAN

\* A compile in flight is asked for or followed, and until an answer came late one
\* is asked for at a time, while none is followed, and no stream is let go.
StartAsked(asked) == \E r \in asked : r.kind = "start"
Watched(asked, active, held, polled, status, old) ==
    /\ active /\ ~StartAsked(asked) => held # 0 \/ polled # 0
    /\ ~old => /\ isActive(status) => active
               /\ ~active => ~StartAsked(asked) /\ held = 0 /\ polled = 0
               /\ StartAsked(asked) => held = 0 /\ polled = 0
               /\ held = 0 \/ polled = 0
               /\ \A r, s \in asked : r.kind = "start" /\ s.kind = "start" => r = s
               /\ \A r \in asked : r.kind # "stream"
Follows == Watched(net, activeRef, esRef.id, pollRef, state.status, late)

\* The document that is loaded, and the one that is loading, is of the last success.
Draws ==
    /\ ~pdfDoc.loading /\ pdfDoc.doc # 0 => pdfDoc.alive /\ pdfDoc.doc = state.last
    /\ \A r \in net : r.kind = "pdf" => r.run <= pdfDoc.run /\ (r.run = pdfDoc.run => r.id = state.last)
Owns ==
    /\ problems.loading \/ problems.shown = problems.key
    /\ problems.key # 0 => state.id # 0
    /\ crossed \/ logState.shown \in {0, state.id}
ViewInv == JobTypes /\ ShownTypes /\ WatchTypes /\ PageTypes /\ LeftTypes /\ Follows /\ Draws /\ Owns


\* A request under way has the fields of its kind.
LEMMA RequestKinds ==
    ASSUME NEW n \in Nat, NEW r \in AskedFor(n)
    PROVE  /\ r.kind = "start" => r \in StartRows(n)
           /\ r.kind = "pdf" => r \in PdfRows(n)
           /\ r.kind \in {"log", "problems"} => r \in OutputRows(n)
           /\ r.kind = "sync" => r \in SyncRows(n)
           /\ r.kind = "cancel" => r \in CancelRows(n)
           /\ r.kind = "poll" => r \in PollRows(n)
           /\ r.kind = "stream" => r \in StreamRows(n)
  BY DEF StartRows, PdfRows, OutputRows, SyncRows, CancelRows, PollRows, StreamRows, AskedFor

\* A compile more leaves the requests under way what they are.
LEMMA RequestsGrow ==
    ASSUME NEW n \in Nat, NEW asked, NetOK(asked, n)
    PROVE  NetOK(asked, n + 1)
  BY DEF StartRows, PdfRows, OutputRows, SyncRows, CancelRows, PollRows, StreamRows, AskedFor, NetOK

StoryRows == [starts : Nat, cancels : Nat, logs : Nat, jumps : Nat, moves : Nat, breaks : Nat,
              ends : SUBSET {"success", "failure"}]
\* A story that is spent is a story.
LEMMA StorySpent ==
    ASSUME LeftTypes, NEW what \in {"starts", "cancels", "logs", "jumps", "moves", "breaks"}, Spend(what)
    PROVE  left' \in StoryRows
  BY DEF LeftTypes, StoryRows, Spend

\* As the pane opens, nothing is asked for.
LEMMA ViewStart == compileInit => ViewInv
<1> SUFFICES ASSUME compileInit PROVE ViewInv
  OBVIOUS
<1>0. jobs = << >> /\ Len(jobs) = 0 /\ net = {}
  BY DEF compileInit
<1>1. JobTypes
  BY <1>0, ViewAssumption DEF compileInit, JobTypes
<1>2. ShownTypes
  BY <1>0 DEF compileInit, ShownTypes, NetOK, Drawn
<1>3. WatchTypes
  <2>1. 0 \in 0 .. Len(jobs)
    BY <1>0
  <2>2. activeRef = FALSE /\ esRef = Nobody /\ pollRef = 0 /\ late = FALSE
    BY DEF compileInit
  <2> QED BY <2>1, <2>2 DEF WatchTypes, Nobody
<1>4. PageTypes
  BY ViewAssumption DEF compileInit, PageTypes, Sides
<1>5. LeftTypes
  BY ViewAssumption DEF compileInit, LeftTypes
<1>6. Follows
  BY <1>0 DEF compileInit, Follows, Watched, StartAsked, isActive, Nobody
<1>7. Draws
  BY <1>0 DEF compileInit, Draws
<1>8. Owns
  BY DEF compileInit, Owns
<1> QED BY <1>1, <1>2, <1>3, <1>4, <1>5, <1>6, <1>7, <1>8 DEF ViewInv


ShowOK(new, rest) ==
    /\ new \in [status : JobStatus \cup {"idle"}, id : 0 .. Len(jobs), last : 0 .. Len(jobs)]
    /\ NetOK(rest, Len(jobs)) /\ \A r \in rest : r.kind = "pdf" => r \in net
    /\ new.id = 0 => state.id = 0
    /\ new.last # state.last => new.last # 0
\* What follows from a new State: another document is asked for with a newer run,
\* and problems and log are those of the compile shown, or empty until they come.
LEMMA ShowKeeps ==
    ASSUME ViewInv, NEW new, NEW rest, ShowOK(new, rest), Show(new, rest), UNCHANGED <<jobs, crossed>>
    PROVE  /\ ShownTypes' /\ Draws' /\ Owns'
           /\ pdfDoc'.pages = pdfDoc.pages /\ state' = new /\ rest \subseteq net'
           /\ \A r \in net' : r \in rest \/ r.kind \in {"pdf", "log", "problems"}
<1> DEFINE n == Len(jobs)
<1>0. n \in Nat /\ n' = n
  BY DEF ViewInv, JobTypes
<1>1. /\ state \in [status : JobStatus \cup {"idle"}, id : 0 .. n, last : 0 .. n]
      /\ pdfDoc \in Drawn /\ dock \in [tab : {"problems", "log"}, collapsed : BOOLEAN]
      /\ logState \in [shown : Nat, fetchedFor : Nat] /\ problems \in [key : Nat, shown : Nat, loading : BOOLEAN]
      /\ NetOK(net, n)
  BY DEF ViewInv, ShownTypes
<1>2. /\ new \in [status : JobStatus \cup {"idle"}, id : 0 .. n, last : 0 .. n]
      /\ NetOK(rest, n) /\ \A r \in rest : r.kind = "pdf" => r \in net
      /\ new.id = 0 => state.id = 0
      /\ new.last # state.last => new.last # 0
  BY DEF ShowOK
<1>3. /\ state' = new /\ pdfDoc' = usePdfDocument(new) /\ dock' = useOutputDock(new)
      /\ logState' = useCompileLog(new.id, useOutputDock(new))
      /\ problems' = useProblems(problemsKey(new))
  BY DEF Show
<1>4. net' = rest \cup (IF new.last = state.last THEN {}
                        ELSE {[kind |-> "pdf", id |-> new.last, run |-> pdfDoc.run + 1]})
                  \cup LogRequest(new.id, useOutputDock(new))
                  \cup (IF problemsKey(new) \in {0, problems.key} THEN {}
                        ELSE {[kind |-> "problems", id |-> problemsKey(new)]})
  BY DEF Show
<1> HIDE DEF n
<1>5. pdfDoc' \in Drawn /\ pdfDoc'.pages = pdfDoc.pages
      /\ (new.last = state.last => pdfDoc' = pdfDoc)
      /\ (new.last # state.last => pdfDoc'.run = pdfDoc.run + 1 /\ pdfDoc'.loading = TRUE)
  <2>1. CASE new.last = state.last
    BY <1>1, <1>3, <2>1 DEF usePdfDocument
  <2>2. CASE new.last # state.last
    <3>1. PICK x \in Nat : x = pdfDoc.run + 1
      BY <1>1 DEF Drawn
    <3>2. pdfDoc' = [pdfDoc EXCEPT !.loading = TRUE, !.error = FALSE, !.alive = FALSE, !.run = x]
      BY <1>3, <2>2, <3>1 DEF usePdfDocument
    <3>3. pdfDoc' = [doc |-> pdfDoc.doc, alive |-> FALSE, pages |-> pdfDoc.pages, loading |-> TRUE, error |-> FALSE, run |-> x]
      BY <1>1, <3>2 DEF Drawn
    <3> QED BY <1>1, <2>2, <3>1, <3>3 DEF Drawn
  <2> QED BY <2>1, <2>2
<1>6. dock' \in [tab : {"problems", "log"}, collapsed : BOOLEAN]
  BY <1>1, <1>3 DEF useOutputDock
<1>7. logState' \in [shown : Nat, fetchedFor : Nat] /\ (logState'.shown \in {0, logState.shown})
      /\ (new.id # state.id => logState'.shown = 0) /\ logState'.fetchedFor \in {0, new.id, logState.fetchedFor}
  BY <1>1, <1>3, <1>0, <1>2 DEF LogReset, useCompileLog
<1>8. LogRequest(new.id, useOutputDock(new)) \subseteq OutputRows(n)
  BY <1>3, <1>7, <1>0, <1>2 DEF LogRequest, Asks, OutputRows
<1>9. problemsKey(new) \in 0 .. n \/ problemsKey(new) = problems.key
  BY <1>2 DEF problemsKey
<1>10. problemsKey(new) # 0 => new.id # 0
  BY <1>2 DEF problemsKey, ViewInv, Owns
<1>11. problems' \in [key : Nat, shown : Nat, loading : BOOLEAN] /\ (problems'.loading \/ problems'.shown = problems'.key)
       /\ (problems'.key # 0 => new.id # 0)
  <2>1. CASE problemsKey(new) = problems.key
    BY <1>1, <1>3, <1>10, <2>1 DEF useProblems, ViewInv, Owns
  <2>2. CASE problemsKey(new) # problems.key
    <3>1. problemsKey(new) # 0
      BY <1>2, <2>2 DEF problemsKey, ViewInv, Owns
    <3>2. problems' = [problems EXCEPT !.key = problemsKey(new), !.loading = TRUE]
      BY <1>3, <2>2, <3>1 DEF useProblems
    <3>3. problems' = [key |-> problemsKey(new), shown |-> problems.shown, loading |-> TRUE]
      BY <1>1, <3>2
    <3> QED BY <1>0, <1>1, <1>9, <1>10, <2>2, <3>3
  <2> QED BY <2>1, <2>2
<1>12. \A r \in net' : r \in rest \/ (r \in PdfRows(n) /\ r.kind = "pdf" /\ r.id = new.last /\ r.run = pdfDoc.run + 1 /\ new.last # state.last) \/ r \in OutputRows(n)
  BY <1>0, <1>1, <1>2, <1>8, <1>9, <1>4 DEF PdfRows, Drawn, OutputRows
<1>13. rest \subseteq net'
  BY <1>4
<1>14. NetOK(net', n)
  BY <1>2, <1>12 DEF AskedFor, PdfRows, OutputRows, NetOK
<1>15. ShownTypes'
  BY <1>0, <1>2, <1>3, <1>5, <1>6, <1>7, <1>11, <1>14 DEF ShownTypes, n
<1>16. Draws'
  BY <1>3, <1>5, <1>2, <1>0, <1>1, RequestKinds, <1>12 DEF ViewInv, Draws, NetOK, PdfRows, Drawn,
     OutputRows
<1>17. Owns'
  BY <1>3, <1>7, <1>11 DEF ViewInv, Owns
<1> QED BY <1>3, <1>5, <1>12, <1>13, <1>15, <1>16, <1>17 DEF OutputRows


\* Whether a compile is followed depends on the starts and streams under way alone.
LEMMA WatchedSame ==
    ASSUME NEW asked, NEW more, NEW a, NEW e, NEW p, NEW s, NEW o, Watched(asked, a, e, p, s, o),
           \A r \in asked : r.kind \in {"start", "stream"} => r \in more,
           \A r \in more : r.kind \in {"start", "stream"} => r \in asked
    PROVE  Watched(more, a, e, p, s, o)
BY DEF Watched, StartAsked

\* A compile is asked for.
LEMMA ButtonKeeps == ASSUME ViewInv, CompileButton PROVE ViewInv'
<1> DEFINE n == Len(jobs)
           q == [kind |-> "start", n |-> left.starts, at |-> "asked", id |-> 0]
           new == [state EXCEPT !.status = "queued"]
<1>0. n \in Nat
  BY DEF ViewInv, JobTypes
<1>1. /\ ~isActive(state.status) /\ ~activeRef /\ Spend("starts") /\ activeRef' = TRUE
      /\ Show(new, net \cup {q})
      /\ UNCHANGED <<jobs, flags, esRef, pollRef, viewport, pdfTarget, late, crossed>>
  BY DEF CompileButton, server
<1>2. q \in StartRows(n) /\ q.kind = "start" /\ q.at = "asked"
  BY <1>0 DEF StartRows, ViewInv, LeftTypes
<1>3. ShowOK(new, net \cup {q})
  BY <1>2 DEF ViewInv, ShownTypes, JobStatus, NetOK, AskedFor, ShowOK
<1> HIDE DEF n, q, new
<1>4. /\ ShownTypes' /\ Draws' /\ Owns' /\ pdfDoc'.pages = pdfDoc.pages /\ state' = new /\ net \cup {q} \subseteq net'
      /\ \A r \in net' : r \in net \cup {q} \/ r.kind \in {"pdf", "log", "problems"}
  BY <1>1, <1>3, ShowKeeps
<1>5. JobTypes' /\ WatchTypes' /\ PageTypes'
  BY <1>1, <1>4 DEF ViewInv, JobTypes, WatchTypes, PageTypes
<1>6. LeftTypes'
  BY <1>1, StorySpent DEF ViewInv, LeftTypes, StoryRows
<1>7. Watched(net \cup {q}, TRUE, esRef.id, pollRef, new.status, late)
  BY <1>1, <1>2 DEF ViewInv, Follows, Watched, StartAsked
<1>8. Follows'
  BY <1>4, <1>7, WatchedSame, <1>1 DEF Follows
<1> QED BY <1>4, <1>5, <1>6, <1>8 DEF ViewInv

\* The server takes it or refuses it.
LEMMA RequestKeeps == ASSUME ViewInv, NEW r \in net, requestCompile(r) PROVE ViewInv'
<1> DEFINE n == Len(jobs)
<1>0. n \in Nat /\ jobs \in Seq(JobStatus)
  BY DEF ViewInv, JobTypes
<1>1. /\ r.kind = "start"
      /\ UNCHANGED <<flags, state, activeRef, esRef, pollRef, pdfDoc, viewport, pdfTarget, dock, logState, problems, left, late, crossed>>
  BY DEF requestCompile, watching, panels
<1>2. r \in StartRows(n)
  BY <1>0, <1>1, RequestKinds DEF ViewInv, ShownTypes, NetOK
<1>3. PICK q : q.kind = "start" /\ net' = (net \ {r}) \cup {q}
               /\ \/ /\ q = [r EXCEPT !.at = "taken", !.id = n + 1] /\ n < Cardinality(Compiles)
                     /\ jobs' = Append(jobs, "queued") /\ q.at = "taken" /\ q.id = n + 1 /\ q \in StartRows(n + 1)
                  \/ q = [r EXCEPT !.at = "refused"] /\ jobs' = jobs /\ q.at = "refused" /\ q \in StartRows(n)
  <2>1. CASE /\ n < Cardinality(Compiles) /\ jobs' = Append(jobs, "queued")
             /\ net' = (net \ {r}) \cup {[r EXCEPT !.at = "taken", !.id = n + 1]}
    <3>1. PICK m : m = n + 1
      OBVIOUS
    <3>2. PICK q : q = [r EXCEPT !.at = "taken", !.id = m]
      OBVIOUS
    <3>3. q = [kind |-> "start", n |-> r.n, at |-> "taken", id |-> m]
      BY <1>1, <1>2, <3>2 DEF StartRows
    <3>4. q \in StartRows(n + 1) /\ q.at = "taken" /\ q.id = n + 1 /\ q.kind = "start"
      BY <1>0, <1>2, <3>1, <3>3 DEF StartRows
    <3>5. q = [r EXCEPT !.at = "taken", !.id = n + 1]
      BY <3>1, <3>2
    <3> QED BY <2>1, <3>4, <3>5
  <2>2. CASE jobs' = jobs /\ net' = (net \ {r}) \cup {[r EXCEPT !.at = "refused"]}
    <3>1. PICK q : q = [r EXCEPT !.at = "refused"]
      OBVIOUS
    <3>2. q \in StartRows(n) /\ q.at = "refused" /\ q.kind = "start"
      BY <1>1, <1>2, <3>1 DEF StartRows
    <3> QED BY <2>2, <3>1, <3>2
  <2> QED BY <2>1, <2>2 DEF requestCompile
<1>4. n < Cardinality(Compiles) => n < Len(Pages)
  <2>1. Compiles = 1 .. Len(Pages) /\ Len(Pages) \in Nat
    BY ViewAssumption DEF Compiles
  <2>2. Cardinality(1 .. Len(Pages)) = Len(Pages)
    <3>1. \A m \in Nat : Cardinality(1 .. m) = m
      BY FS_Interval
    <3> QED BY <2>1, <3>1
  <2> QED BY <2>1, <2>2
<1>5. JobTypes' /\ Len(jobs') \in {n, n + 1} /\ (Len(jobs') = n + 1 \/ q \in StartRows(n))
      /\ (q.at = "taken" => Len(jobs') = n + 1 /\ q \in StartRows(n + 1) /\ q.id # 0)
  <2>1. CASE jobs' = jobs
    BY <1>0, <1>1, <1>3, <2>1 DEF ViewInv, JobTypes
  <2>2. CASE jobs' = Append(jobs, "queued") /\ n < Cardinality(Compiles) /\ q.at = "taken" /\ q.id = n + 1 /\ q \in StartRows(n + 1)
    BY <1>0, <2>2, ViewAssumption, <1>4, <1>1 DEF JobStatus, ViewInv, JobTypes
  <2> QED BY <1>3, <2>1, <2>2
<1>6. NetOK(net', Len(jobs'))
  <2>1. NetOK(net, Len(jobs'))
    BY <1>0, <1>5, RequestsGrow DEF ViewInv, ShownTypes
  <2>2. q \in StartRows(Len(jobs')) /\ (q.at = "taken" => q.id # 0)
    BY <1>5, <1>3
  <2> QED BY <1>3, <2>1, <2>2 DEF NetOK, AskedFor
<1>7. ShownTypes' /\ WatchTypes'
  BY <1>0, <1>5, <1>1, <1>6 DEF ViewInv, ShownTypes, WatchTypes
<1>8. PageTypes' /\ LeftTypes' /\ Owns'
  BY <1>1 DEF ViewInv, PageTypes, LeftTypes, Owns
<1>9. Draws'
  BY <1>1, <1>3 DEF ViewInv, Draws
<1>10. Follows'
  BY <1>1, <1>3 DEF ViewInv, Follows, Watched, StartAsked
<1> QED BY <1>5, <1>7, <1>8, <1>9, <1>10 DEF ViewInv


\* A snapshot of one of the compiles makes a State that may be shown.
LEMMA ReducedOK ==
    ASSUME ViewInv, NEW snap, snap.id \in 1 .. Len(jobs), snap.status \in JobStatus, NEW rest, NetOK(rest, Len(jobs)),
           \A r \in rest : r.kind = "pdf" => r \in net
    PROVE  ShowOK(reduce(state, snap), rest) /\ reduce(state, snap).status = snap.status
  BY DEF ViewInv, ShownTypes, JobTypes, reduce, ShowOK

\* What is under way without one request of it.
LEMMA OneGone ==
    ASSUME ViewInv, NEW r \in net
    PROVE  NetOK(net \ {r}, Len(jobs)) /\ \A s \in net \ {r} : s.kind = "pdf" => s \in net
BY DEF ViewInv, ShownTypes, NetOK

\* The request for a compile is answered: it is followed, or the pane shows an error.
LEMMA StartedKeeps == ASSUME ViewInv, NEW r \in net, useCompile(r) PROVE ViewInv'
<1> DEFINE n == Len(jobs)
<1>0. n \in Nat
  BY DEF ViewInv, JobTypes
<1>1. /\ r.kind = "start" /\ UNCHANGED <<jobs, flags, viewport, pdfTarget, left, late, crossed>>
      /\ (r.at = "taken" /\ started(r.id, net \ {r})) \/ (r.at = "refused" /\ notStarted(net \ {r}))
  BY DEF useCompile, server
<1>2. r \in StartRows(n) /\ (r.at = "taken" => r.id # 0)
  BY <1>0, <1>1, RequestKinds DEF ViewInv, ShownTypes, NetOK
<1>3. NetOK(net \ {r}, n) /\ \A s \in net \ {r} : s.kind = "pdf" => s \in net
  BY OneGone
<1>4. JobTypes' /\ LeftTypes'
  BY <1>1 DEF ViewInv, JobTypes, LeftTypes
<1>5. ~late => ~StartAsked(net \ {r}) /\ activeRef /\ esRef.id = 0 /\ pollRef = 0
  BY <1>1, Zenon DEF ViewInv, Follows, Watched, StartAsked
<1>6. CASE r.at = "taken" /\ ~activeRef
  <2>1. net' = net \ {r} /\ UNCHANGED <<state, pdfDoc, dock, logState, problems, activeRef, esRef, pollRef>>
    BY <1>1, <1>6 DEF started, panels, watching
  <2>2. ShownTypes' /\ WatchTypes' /\ PageTypes' /\ Owns'
    BY <1>1, <1>3, <2>1 DEF ViewInv, ShownTypes, WatchTypes, PageTypes, Owns
  <2>3. Draws'
    BY <2>1 DEF ViewInv, Draws
  <2>4. Follows'
    BY <1>1, <1>5, <1>6, <2>1 DEF Follows, Watched
  <2> QED BY <1>4, <2>2, <2>3, <2>4 DEF ViewInv
<1>7. CASE r.at = "refused"
  <2> DEFINE new == [state EXCEPT !.status = "error"]
  <2>1. activeRef' = FALSE /\ UNCHANGED <<esRef, pollRef>> /\ Show(new, net \ {r})
    BY <1>1, <1>7 DEF notStarted
  <2>2. ShowOK(new, net \ {r}) /\ new.status = "error"
    BY <1>3 DEF ViewInv, ShownTypes, JobStatus, Over, ShowOK
  <2> HIDE DEF new
  <2>3. /\ ShownTypes' /\ Draws' /\ Owns' /\ pdfDoc'.pages = pdfDoc.pages /\ state' = new /\ net \ {r} \subseteq net'
        /\ \A s \in net' : s \in net \ {r} \/ s.kind \in {"pdf", "log", "problems"}
    BY <1>1, <2>1, <2>2, ShowKeeps
  <2>4. WatchTypes' /\ PageTypes'
    BY <1>1, <2>1, <2>3 DEF ViewInv, WatchTypes, PageTypes
  <2>5. Watched(net \ {r}, FALSE, esRef.id, pollRef, new.status, late)
    BY <1>5, <2>2 DEF ViewInv, Follows, Watched, isActive, StartAsked
  <2>6. Watched(net', FALSE, esRef.id, pollRef, new.status, late)
    BY <2>3, <2>5, WatchedSame
  <2> QED BY <1>1, <1>4, <2>1, <2>3, <2>4, <2>6 DEF ViewInv, Follows
<1>8. CASE r.at = "taken" /\ activeRef
  <2> DEFINE new == reduce(state, [id |-> r.id, status |-> "queued"])
             Out == IF esRef.id = 0 THEN {} ELSE {[kind |-> "stream", id |-> esRef.id, told |-> esRef.told]}
  <2>1. r.id \in 1 .. n
    BY <1>0, <1>2, <1>8 DEF StartRows
  <2>2. subscribe(r.id, net \ {r})
    BY <1>1, <1>8 DEF started
  <2>3. Out \subseteq StreamRows(n)
    BY <1>0 DEF ViewInv, WatchTypes, StreamRows
  <2>4. \A s \in Out : s.kind = "stream"
    OBVIOUS
  <2>5. Out = {} \/ late
    BY <1>5
  <2> HIDE DEF new, Out
  <2>6. ASSUME NEW rest, rest = (net \ {r}) \cup Out \/ rest = net \ {r}, Show(new, rest), activeRef' = activeRef,
               NEW e, NEW p, e \in [id : 0 .. n, told : JobStatus \cup {"none"}], p \in 0 .. n, esRef' = e, pollRef' = p,
               e.id # 0 \/ p # 0, ~late => e.id = 0 \/ p = 0
        PROVE  ViewInv'
    <3>1. NetOK(rest, n) /\ \A s \in rest : s.kind = "pdf" => s \in net
      BY <1>3, <2>3, <2>4, <2>6 DEF NetOK, AskedFor
    <3>2. ShowOK(new, rest) /\ new.status = "queued"
      BY <2>1, <3>1, ReducedOK DEF JobStatus, new
    <3>3. /\ ShownTypes' /\ Draws' /\ Owns' /\ pdfDoc'.pages = pdfDoc.pages /\ state' = new /\ rest \subseteq net'
          /\ \A s \in net' : s \in rest \/ s.kind \in {"pdf", "log", "problems"}
      BY <1>1, <2>6, <3>2, ShowKeeps
    <3>4. WatchTypes' /\ PageTypes'
      BY <1>1, <2>6, <3>3 DEF ViewInv, WatchTypes, PageTypes
    <3>5. Watched(rest, TRUE, e.id, p, new.status, late)
      BY <2>5, <2>6, <1>5 DEF ViewInv, Follows, Watched, StartAsked
    <3>6. Watched(net', TRUE, e.id, p, new.status, late)
      BY <3>3, <3>5, WatchedSame
    <3>7. Follows'
      BY <1>1, <1>8, <2>6, <3>3, <3>6 DEF Follows
    <3> QED BY <1>4, <3>3, <3>4, <3>7 DEF ViewInv
  <2>7. CASE esRef' = [id |-> r.id, told |-> "none"] /\ UNCHANGED <<activeRef, pollRef>> /\ Show(new, (net \ {r}) \cup Out)
    BY <1>0, <2>1, <1>5, <2>6, <2>7 DEF ViewInv, WatchTypes
  <2>8. CASE pollRef' = startPolling(r.id) /\ UNCHANGED <<activeRef, esRef>> /\ Show(new, net \ {r})
    BY <1>0, <1>8, <2>1, <1>5, <2>6, <2>8 DEF startPolling, ViewInv, WatchTypes
  <2> QED BY <2>2, <2>7, <2>8 DEF subscribe, LetGo, new, Out
<1>9. r.at \in {"taken", "refused"} /\ activeRef \in BOOLEAN
  BY <1>1 DEF ViewInv, WatchTypes
<1> QED BY <1>6, <1>7, <1>8, <1>9


\* News of a compile is shown, and at its end the pane stops watching.
LEMMA HandledKeeps ==
    ASSUME ViewInv, NEW snap, snap.id \in 1 .. Len(jobs), snap.status \in JobStatus, NEW rest, NetOK(rest, Len(jobs)),
           \A s \in rest : s.kind \in {"pdf", "start"} => s \in net,
           \A s \in net : s.kind = "start" => s \in rest,
           late \/ \A s \in rest : s.kind # "stream",
           handleSnapshot(snap, rest), UNCHANGED <<jobs, flags, viewport, pdfTarget, left, crossed>>,
           NEW e, e \in [id : 0 .. Len(jobs), told : JobStatus \cup {"none"}], esRef' = e,
           \/ isTerminal(snap.status) /\ activeRef' = FALSE /\ e.id = 0 /\ pollRef' = 0
           \/ UNCHANGED <<activeRef, pollRef>> /\ e.id = esRef.id
    PROVE  ViewInv'
<1> DEFINE new == reduce(state, snap)
           o == late \/ ~activeRef \/ StartPending \/ snap.id # state.id
<1>1. Show(new, rest) /\ late' = o
  BY DEF handleSnapshot
<1>2. ShowOK(new, rest) /\ new.status = snap.status
  BY ReducedOK
<1>3. o \in BOOLEAN /\ (~o => ~late /\ activeRef /\ ~StartAsked(net))
  BY DEF StartPending, StartAsked
<1> HIDE DEF new, o
<1>4. /\ ShownTypes' /\ Draws' /\ Owns' /\ pdfDoc'.pages = pdfDoc.pages /\ state' = new /\ rest \subseteq net'
      /\ \A s \in net' : s \in rest \/ s.kind \in {"pdf", "log", "problems"}
  BY <1>1, <1>2, ShowKeeps
<1>5. JobTypes' /\ LeftTypes' /\ PageTypes'
  BY <1>4 DEF ViewInv, JobTypes, LeftTypes, PageTypes
<1>6. WatchTypes'
  BY <1>1, <1>3 DEF ViewInv, JobTypes, WatchTypes
<1>7. StartAsked(rest) <=> StartAsked(net)
  BY DEF StartAsked
<1>8. Watched(rest, activeRef', e.id, pollRef', new.status, o)
  BY <1>2, <1>3, <1>7 DEF isTerminal, isActive, Over, Watched, StartAsked, ViewInv, Follows
<1>9. Watched(net', activeRef', e.id, pollRef', new.status, o)
  BY <1>4, <1>8, WatchedSame
<1>10. Follows'
  BY <1>1, <1>4, <1>9 DEF Follows
<1> QED BY <1>4, <1>5, <1>6, <1>10 DEF ViewInv

\* The stream that is held tells what is new.
LEMMA EventKeeps == ASSUME ViewInv, statusEvent PROVE ViewInv'
<1>1. /\ esRef.id # 0 /\ handleSnapshot(Snapshot(esRef.id), net)
      /\ UNCHANGED <<jobs, flags, viewport, pdfTarget, left, crossed>>
      /\ IF isTerminal(jobs[esRef.id]) THEN stopWatching
         ELSE esRef' = [esRef EXCEPT !.told = jobs[esRef.id]] /\ UNCHANGED <<activeRef, pollRef>>
  BY DEF statusEvent, server
<1>2. /\ Len(jobs) \in Nat /\ esRef \in [id : 0 .. Len(jobs), told : JobStatus \cup {"none"}]
      /\ NetOK(net, Len(jobs)) /\ jobs \in Seq(JobStatus)
  BY DEF ViewInv, JobTypes, WatchTypes, ShownTypes
<1>3. esRef.id \in 1 .. Len(jobs) /\ jobs[esRef.id] \in JobStatus
  BY <1>1, <1>2
<1>4. late \/ \A s \in net : s.kind # "stream"
  BY DEF ViewInv, Follows, Watched
<1>5. PICK snap : snap = Snapshot(esRef.id)
  OBVIOUS
<1>5a. snap.id = esRef.id /\ snap.status = jobs[esRef.id]
  BY <1>5 DEF Snapshot
<1>6. PICK e : e = esRef'
  OBVIOUS
<1>7. /\ e \in [id : 0 .. Len(jobs), told : JobStatus \cup {"none"}]
      /\ \/ isTerminal(snap.status) /\ activeRef' = FALSE /\ e.id = 0 /\ pollRef' = 0
         \/ UNCHANGED <<activeRef, pollRef>> /\ e.id = esRef.id
  BY <1>2, <1>1, <1>5, <1>5a, <1>6, <1>3 DEF Nobody, stopWatching
<1> QED BY <1>1, <1>2, <1>3, <1>4, <1>5, <1>5a, <1>6, <1>7, HandledKeeps

\* A poll, or the cancel, is answered.
LEMMA AnswerShown == ASSUME ViewInv, NEW r \in net, snapshotAnswer(r) PROVE ViewInv'
<1> DEFINE n == Len(jobs)
<1>0. n \in Nat
  BY DEF ViewInv, JobTypes
<1>1. /\ r.kind \in {"poll", "cancel"} /\ r.status # "asked"
      /\ handleSnapshot([id |-> r.id, status |-> r.status], net \ {r})
      /\ Ended(r) /\ UNCHANGED <<jobs, flags, viewport, pdfTarget, left, crossed>>
  BY DEF snapshotAnswer, Answered, server
<1>2. r.id \in 1 .. n /\ r.status \in JobStatus
  BY <1>0, <1>1, RequestKinds DEF ViewInv, ShownTypes, NetOK, PollRows, CancelRows
<1>3. NetOK(net \ {r}, n)
  BY OneGone
<1>4. late \/ \A s \in net : s.kind # "stream"
  BY DEF ViewInv, Follows, Watched
<1>5. PICK snap : snap = [id |-> r.id, status |-> r.status]
  OBVIOUS
<1>5a. snap.id = r.id /\ snap.status = r.status
  BY <1>5
<1>6. PICK e : e = esRef'
  OBVIOUS
<1>7. /\ e \in [id : 0 .. n, told : JobStatus \cup {"none"}]
      /\ \/ isTerminal(snap.status) /\ activeRef' = FALSE /\ e.id = 0 /\ pollRef' = 0
         \/ UNCHANGED <<activeRef, pollRef>> /\ e.id = esRef.id
  BY <1>0, <1>1, <1>5, <1>5a, <1>6 DEF Nobody, ViewInv, WatchTypes, Ended, stopWatching, watching
<1>8. PICK rest : rest = net \ {r}
  OBVIOUS
<1>9. /\ NetOK(rest, n) /\ \A s \in rest : s.kind \in {"pdf", "start"} => s \in net
      /\ \A s \in net : s.kind = "start" => s \in rest
      /\ late \/ \A s \in rest : s.kind # "stream"
  BY <1>1, <1>3, <1>4, <1>8
<1>10. handleSnapshot(snap, rest)
  BY <1>1, <1>5, <1>5a, <1>8
<1> QED BY <1>1, <1>2, <1>5, <1>5a, <1>6, <1>7, <1>9, <1>10, HandledKeeps

\* The stream breaks: the compile is polled.
LEMMA BreakKeeps == ASSUME ViewInv, onerror PROVE ViewInv'
<1>1. /\ esRef.id # 0 /\ Spend("breaks") /\ esRef' = Nobody /\ pollRef' = startPolling(esRef.id)
      /\ UNCHANGED <<jobs, flags, state, activeRef, net, pdfDoc, viewport, pdfTarget, dock, logState, problems, late, crossed>>
  BY DEF onerror, server, panels
<1>2. JobTypes' /\ ShownTypes' /\ PageTypes' /\ Draws' /\ Owns'
  BY <1>1 DEF ViewInv, JobTypes, ShownTypes, PageTypes, Draws, Owns
<1>3. LeftTypes'
  BY <1>1, StorySpent DEF ViewInv, LeftTypes, StoryRows
<1>4. WatchTypes'
  BY <1>1 DEF ViewInv, JobTypes, WatchTypes, Nobody, startPolling
<1>5. Follows'
  BY <1>1 DEF ViewInv, Follows, Watched, StartAsked, Nobody, startPolling
<1> QED BY <1>2, <1>3, <1>4, <1>5 DEF ViewInv

\* A stream that nobody holds tells what is new, and polls at its end.
LEMMA LeftStreamKeeps == ASSUME ViewInv, NEW r \in net, streamLeft(r) PROVE ViewInv'
<1> DEFINE n == Len(jobs)
<1>0. n \in Nat /\ jobs \in Seq(JobStatus)
  BY DEF ViewInv, JobTypes
<1>1. r.kind = "stream" /\ UNCHANGED <<jobs, flags, viewport, pdfTarget, crossed>>
  BY DEF streamLeft, server
<1>2. late /\ late \in BOOLEAN
  BY <1>1 DEF ViewInv, Follows, Watched, WatchTypes
<1>3. r \in StreamRows(n) /\ r.id \in 1 .. n /\ jobs[r.id] \in JobStatus
  BY <1>0, <1>1, RequestKinds DEF ViewInv, ShownTypes, NetOK, StreamRows
<1>4. NetOK(net \ {r}, n)
  BY OneGone
<1>5. CASE /\ UNCHANGED left /\ handleSnapshot(Snapshot(r.id), (net \ {r}) \cup {[r EXCEPT !.told = jobs[r.id]]})
           /\ Ended(Snapshot(r.id))
  <2>1. PICK q : q = [r EXCEPT !.told = jobs[r.id]]
    OBVIOUS
  <2>2. q \in StreamRows(n) /\ q.kind = "stream"
    BY <1>3, <2>1 DEF StreamRows
  <2>3. PICK rest : rest = (net \ {r}) \cup {q}
    OBVIOUS
  <2>4. /\ NetOK(rest, n) /\ \A s \in rest : s.kind \in {"pdf", "start"} => s \in net
        /\ \A s \in net : s.kind = "start" => s \in rest
    BY <1>1, <1>4, <2>2, <2>3 DEF NetOK, AskedFor
  <2>5. PICK snap : snap = Snapshot(r.id)
    OBVIOUS
  <2>5a. snap.id = r.id /\ snap.status = jobs[r.id]
    BY <2>5 DEF Snapshot
  <2>6. PICK e : e = esRef'
    OBVIOUS
  <2>7. /\ e \in [id : 0 .. n, told : JobStatus \cup {"none"}]
        /\ \/ isTerminal(snap.status) /\ activeRef' = FALSE /\ e.id = 0 /\ pollRef' = 0
           \/ UNCHANGED <<activeRef, pollRef>> /\ e.id = esRef.id
    BY <1>0, <1>5, <2>5, <2>5a, <2>6 DEF Nobody, ViewInv, WatchTypes, Ended, stopWatching, watching
  <2>8. handleSnapshot(snap, rest)
    BY <1>5, <2>1, <2>3, <2>5, <2>5a
  <2> QED BY <1>1, <1>2, <1>3, <1>5, <2>4, <2>5, <2>5a, <2>6, <2>7, <2>8, HandledKeeps
<1>6. CASE /\ IF isTerminal(r.told) THEN UNCHANGED left ELSE Spend("breaks")
           /\ net' = net \ {r} /\ pollRef' = startPolling(r.id)
           /\ UNCHANGED <<state, activeRef, esRef, pdfDoc, panels, late>>
  <2>1. UNCHANGED <<state, activeRef, esRef, pdfDoc, dock, logState, problems, late>>
    BY <1>6 DEF panels
  <2>2. JobTypes' /\ ShownTypes' /\ PageTypes' /\ Owns'
    BY <1>1, <1>4, <1>6, <2>1 DEF ViewInv, JobTypes, ShownTypes, PageTypes, Owns
  <2>3. Draws'
    BY <1>6, <2>1 DEF ViewInv, Draws
  <2>4. LeftTypes'
    BY <1>1, StorySpent, <1>6 DEF ViewInv, LeftTypes, StoryRows
  <2>5. WatchTypes' /\ (pollRef # 0 => pollRef' = pollRef) /\ (activeRef => pollRef' # 0)
    BY <1>3, <1>6, <1>1, <2>1 DEF ViewInv, WatchTypes, startPolling
  <2>6. Follows'
    BY <1>2, <2>1, <2>5 DEF Follows, Watched
  <2> QED BY <2>2, <2>3, <2>4, <2>5, <2>6 DEF ViewInv
<1> QED BY <1>5, <1>6 DEF streamLeft


\* What leaves the State and the watching alone keeps them.
LEMMA AsideKeeps ==
    ASSUME ViewInv, UNCHANGED <<state, activeRef, esRef, pollRef, late>>,
           jobs' \in Seq(JobStatus), Len(jobs') = Len(jobs), flags' \subseteq 1 .. Len(jobs), NetOK(net', Len(jobs)),
           \A s \in net : s.kind \in {"start", "stream"} => s \in net',
           \A s \in net' : s.kind \in {"start", "stream"} => s \in net,
           pdfDoc' \in Drawn, dock' \in [tab : {"problems", "log"}, collapsed : BOOLEAN],
           logState' \in [shown : Nat, fetchedFor : Nat], problems' \in [key : Nat, shown : Nat, loading : BOOLEAN],
           PageTypes', LeftTypes', Draws', Owns'
    PROVE  ViewInv'
  BY WatchedSame DEF ViewInv, JobTypes, ShownTypes, WatchTypes, Follows

\* What is so before any step that leaves the server alone.
LEMMA AsideFacts ==
    ASSUME ViewInv
    PROVE  /\ Len(jobs) \in Nat /\ jobs \in Seq(JobStatus) /\ flags \subseteq 1 .. Len(jobs) /\ NetOK(net, Len(jobs))
           /\ pdfDoc \in Drawn /\ dock \in [tab : {"problems", "log"}, collapsed : BOOLEAN]
           /\ logState \in [shown : Nat, fetchedFor : Nat] /\ problems \in [key : Nat, shown : Nat, loading : BOOLEAN]
           /\ PageTypes /\ LeftTypes /\ Draws /\ Owns
BY DEF ViewInv, JobTypes, ShownTypes

\* The worker goes on.
LEMMA ServerMoves == ASSUME ViewInv, NEW id \in DOMAIN jobs, run_compile(id) PROVE ViewInv'
<1>0. Len(jobs) \in Nat /\ jobs \in Seq(JobStatus) /\ flags \subseteq 1 .. Len(jobs) /\ LeftTypes
  BY AsideFacts
<1>1. UNCHANGED <<flags, state, activeRef, esRef, pollRef, net, pdfDoc, viewport, pdfTarget, dock, logState, problems, left, late, crossed>>
  BY DEF run_compile, watching, panels
<1>2. PICK x \in JobStatus : jobs' = [jobs EXCEPT ![id] = x]
  BY <1>0 DEF LeftTypes, JobStatus, Over, run_compile
<1>3. jobs' \in Seq(JobStatus) /\ Len(jobs') = Len(jobs)
  BY <1>0, <1>2
<1>4. PageTypes' /\ LeftTypes' /\ Draws' /\ Owns'
  BY <1>1, AsideFacts DEF PageTypes, LeftTypes, Draws, Owns
<1> QED BY <1>1, <1>3, <1>4, AsideFacts, AsideKeeps

\* A cancel reaches the server.
LEMMA CancelMoves == ASSUME ViewInv, NEW r \in net, cancelCompile(r) PROVE ViewInv'
<1> DEFINE n == Len(jobs)
<1>0. n \in Nat /\ jobs \in Seq(JobStatus) /\ flags \subseteq 1 .. n /\ NetOK(net, n)
  BY AsideFacts
<1>1. /\ r.kind = "cancel"
      /\ UNCHANGED <<state, activeRef, esRef, pollRef, pdfDoc, viewport, pdfTarget, dock, logState, problems, left, late, crossed>>
      /\ jobs' = IF jobs[r.id] = "queued" THEN [jobs EXCEPT ![r.id] = "cancelled"] ELSE jobs
      /\ flags' = IF isTerminal(jobs[r.id]) THEN flags ELSE flags \cup {r.id}
      /\ net' = (net \ {r}) \cup {[r EXCEPT !.status = jobs'[r.id]]}
  BY DEF cancelCompile, watching, panels
<1>2. r \in CancelRows(n) /\ r.id \in 1 .. n
  BY <1>0, <1>1, RequestKinds DEF NetOK, CancelRows
<1>3. jobs' \in Seq(JobStatus) /\ Len(jobs') = n /\ jobs'[r.id] \in JobStatus
  BY <1>1, <1>0, <1>2 DEF JobStatus, Over
<1>4. flags' \subseteq 1 .. n
  BY <1>0, <1>1, <1>2
<1>5. PICK q : q = [r EXCEPT !.status = jobs'[r.id]]
  OBVIOUS
<1>6. q \in CancelRows(n) /\ q.kind = "cancel"
  BY <1>3, <1>2, <1>5 DEF CancelRows
<1> HIDE DEF n
<1>7. NetOK(net', n) /\ (\A s \in net : s.kind \in {"start", "stream"} => s \in net')
      /\ (\A s \in net' : s.kind \in {"start", "stream", "pdf"} => s \in net)
  BY <1>0, <1>1, <1>5, <1>6 DEF NetOK, AskedFor
<1>8. PageTypes' /\ LeftTypes' /\ Owns'
  BY <1>1, AsideFacts DEF PageTypes, LeftTypes, Owns
<1>9. Draws'
  BY <1>1, <1>7, AsideFacts DEF Draws
<1> QED BY <1>1, <1>3, <1>4, <1>7, <1>8, <1>9, AsideFacts, AsideKeeps DEF n

\* A request of the user's, or a poll, is sent.
LEMMA AskKeeps ==
    ASSUME ViewInv, NEW q, q \in SyncRows(Len(jobs)) \cup CancelRows(Len(jobs)) \cup PollRows(Len(jobs)), net' = net \cup {q},
           left' \in StoryRows,
           UNCHANGED <<jobs, flags, state, activeRef, esRef, pollRef, pdfDoc, viewport, pdfTarget, dock, logState, problems, late, crossed>>
    PROVE  ViewInv'
<1>1. q \in AskedFor(Len(jobs)) /\ q.kind \in {"sync", "cancel", "poll"}
  BY DEF AskedFor, SyncRows, CancelRows, PollRows
<1>2. NetOK(net', Len(jobs)) /\ (\A s \in net : s.kind \in {"start", "stream"} => s \in net')
      /\ (\A s \in net' : s.kind \in {"start", "stream", "pdf"} => s \in net)
  BY <1>1, AsideFacts DEF NetOK
<1>3. PageTypes' /\ LeftTypes' /\ Owns'
  BY AsideFacts DEF PageTypes, LeftTypes, Owns, StoryRows
<1>4. Draws'
  BY <1>2, AsideFacts DEF Draws
<1> QED BY <1>2, <1>3, <1>4, AsideFacts, AsideKeeps

\* The user cancels.
LEMMA CancelKeeps == ASSUME ViewInv, cancel PROVE ViewInv'
<1>1. PICK q : q = [kind |-> "cancel", id |-> state.id, status |-> "asked"]
  OBVIOUS
<1>2. q \in CancelRows(Len(jobs))
  BY <1>1 DEF cancel, ViewInv, ShownTypes, JobTypes, CancelRows
<1>3. left' \in StoryRows
  BY StorySpent DEF cancel, ViewInv
<1> QED BY <1>1, <1>2, <1>3, AskKeeps DEF cancel, server, watching, panels

\* The user jumps from the source.
LEMMA JumpAsked == ASSUME ViewInv, syncFromSource PROVE ViewInv'
  BY StorySpent, AskKeeps DEF SyncRows, ViewInv, ShownTypes, syncFromSource, server, watching, panels

\* The interval fires.
LEMMA PollAsked == ASSUME ViewInv, NEW m \in 1 .. MaxPolls, compilePoll(m) PROVE ViewInv'
<1>1. PICK q : q = [kind |-> "poll", n |-> m, id |-> pollRef, status |-> "asked"]
  OBVIOUS
<1>2. q \in PollRows(Len(jobs))
  BY <1>1 DEF compilePoll, ViewInv, WatchTypes, JobTypes, PollRows
<1>3. left' \in StoryRows
  BY DEF compilePoll, ViewInv, LeftTypes, StoryRows
<1> QED BY <1>1, <1>2, <1>3, AskKeeps DEF compilePoll, server, watching, panels

\* A poll is answered, or fails.
LEMMA PollMoves == ASSUME ViewInv, NEW r \in net, getCompile(r) PROVE ViewInv'
<1> DEFINE n == Len(jobs)
<1>0. n \in Nat /\ jobs \in Seq(JobStatus) /\ NetOK(net, n) /\ LeftTypes
  BY AsideFacts
<1>1. /\ r.kind = "poll"
      /\ UNCHANGED <<jobs, flags, state, activeRef, esRef, pollRef, pdfDoc, viewport, pdfTarget, dock, logState, problems, late, crossed>>
      /\ \/ net' = (net \ {r}) \cup {[r EXCEPT !.status = jobs[r.id]]} /\ UNCHANGED left
         \/ net' = net \ {r} /\ Spend("breaks")
  BY DEF getCompile, server, watching, panels
<1>2. r \in PollRows(n) /\ jobs[r.id] \in JobStatus
  BY <1>0, <1>1, RequestKinds DEF NetOK, PollRows
<1>3. PICK q : q = [r EXCEPT !.status = jobs[r.id]]
  OBVIOUS
<1>4. q \in PollRows(n) /\ q.kind = "poll"
  BY <1>2, <1>3 DEF PollRows
<1> HIDE DEF n
<1>5. NetOK(net', n) /\ (\A s \in net : s.kind \in {"start", "stream"} => s \in net')
      /\ (\A s \in net' : s.kind \in {"start", "stream", "pdf"} => s \in net)
  BY <1>0, <1>1, <1>3, <1>4 DEF NetOK, AskedFor
<1>6. LeftTypes'
  BY <1>0, <1>1, StorySpent DEF LeftTypes, StoryRows
<1>7. PageTypes' /\ Owns'
  BY <1>1, AsideFacts DEF PageTypes, Owns
<1>8. Draws'
  BY <1>1, <1>5, AsideFacts DEF Draws
<1> QED BY <1>1, <1>5, <1>6, <1>7, <1>8, AsideFacts, AsideKeeps DEF n


\* A step that changes what is shown takes at most one request of those under way.
LEMMA ShownAside ==
    ASSUME ViewInv, UNCHANGED <<jobs, flags, state, activeRef, esRef, pollRef, late>>,
           net' = net \/ \E r \in net : r.kind \notin {"start", "stream"} /\ net' = net \ {r},
           pdfDoc' \in Drawn, dock' \in [tab : {"problems", "log"}, collapsed : BOOLEAN],
           logState' \in [shown : Nat, fetchedFor : Nat], problems' \in [key : Nat, shown : Nat, loading : BOOLEAN],
           PageTypes', LeftTypes', Draws', Owns'
    PROVE  ViewInv'
  BY AsideFacts, AsideKeeps DEF NetOK

\* A page number that is clamped is one of the document's.
LEMMA Clamped ==
    ASSUME NEW p \in Int, NEW pages \in Nat
    PROVE  clampPage(p, pages) \in 1 .. (IF pages = 0 THEN 1 ELSE pages)
BY DEF clampPage

\* The PDF arrives, and another number of pages turns back to the first page.
LEMMA PdfKeeps == ASSUME ViewInv, NEW r \in net, getCompilePdf(r) PROVE ViewInv'
<1> DEFINE n == Len(jobs)
<1>0. n \in Nat /\ NetOK(net, n) /\ pdfDoc \in Drawn /\ PageTypes /\ LeftTypes /\ Draws /\ Owns
  BY AsideFacts
<1>1. /\ r.kind = "pdf" /\ net' = net \ {r}
      /\ UNCHANGED <<jobs, flags, state, activeRef, esRef, pollRef, pdfTarget, dock, logState, problems, left, late, crossed>>
  BY DEF getCompilePdf, server, watching, panels
<1>2. r \in PdfRows(n) /\ r.id \in 1 .. n /\ r.id \in Nat
  BY <1>0, <1>1, RequestKinds DEF NetOK, PdfRows
<1>3. LeftTypes' /\ Owns'
  BY <1>0, <1>1 DEF LeftTypes, Owns
<1>4. CASE r.run # pdfDoc.run
  BY <1>4, <1>0, <1>1, <1>3, AsideFacts, ShownAside DEF getCompilePdf, PdfCurrent, PageTypes, Draws
<1>5. CASE r.run = pdfDoc.run
  <2>1. PICK pages \in {0, Pages[r.id]} :
            /\ pdfDoc' = [pdfDoc EXCEPT !.doc = IF pages = 0 THEN 0 ELSE r.id, !.alive = pages # 0, !.pages = pages,
                              !.loading = FALSE, !.error = pages = 0]
            /\ viewport' = [viewport EXCEPT !.page = Turned(pages), !.fitting = Measured(pages)]
    BY <1>5 DEF getCompilePdf, PdfCurrent
  <2>2. pages \in Nat
    BY <1>0, <1>2, ViewAssumption DEF ViewInv, JobTypes
  <2>3. PICK d, a, x : d = (IF pages = 0 THEN 0 ELSE r.id) /\ a = (pages # 0) /\ x = (pages = 0)
    OBVIOUS
  <2>4. d \in Nat /\ a \in BOOLEAN /\ x \in BOOLEAN /\ (d # 0 => a = TRUE /\ d = r.id)
    BY <1>2, <2>3
  <2>5. pdfDoc' = [doc |-> d, alive |-> a, pages |-> pages, loading |-> FALSE, error |-> x, run |-> pdfDoc.run]
    BY <2>1, <2>3, <1>0 DEF Drawn
  <2>6. pdfDoc' \in Drawn
    BY <1>0, <2>2, <2>4, <2>5 DEF Drawn
  <2>7. PICK p, f : p = Turned(pages) /\ f = Measured(pages)
    OBVIOUS
  <2>8. p \in 1 .. (IF pages = 0 THEN 1 ELSE pages)
    <3>1. CASE pages = pdfDoc.pages
      BY <1>0, <2>7, <3>1 DEF Turned, PageTypes
    <3>2. CASE pages # pdfDoc.pages /\ pdfTarget # 0
      BY <1>0, <2>2, <2>7, <3>2, Clamped DEF PageTypes, Turned
    <3>3. CASE pages # pdfDoc.pages /\ pdfTarget = 0
      BY <2>2, <2>7, <3>3 DEF Turned
    <3> QED BY <3>1, <3>2, <3>3
  <2>9. f \in BOOLEAN /\ (viewport.fitMode = "none" => f = FALSE)
    BY <1>0, <2>7 DEF Measured, PageTypes, Sides
  <2>10. viewport' = [fitMode |-> viewport.fitMode, page |-> p, scale |-> viewport.scale, fitting |-> f]
    BY <2>1, <2>7, <1>0 DEF PageTypes, Sides
  <2>11. PageTypes'
    BY <2>2, <2>8, <1>0, <2>9, <2>10, <1>1, <2>5 DEF PageTypes, Sides
  <2>12. Draws'
    BY <1>0, <1>1, <1>5, <2>4, <2>5 DEF Draws
  <2> QED BY <1>0, <1>1, <1>3, <2>6, <2>11, <2>12, AsideFacts, ShownAside
<1> QED BY <1>4, <1>5

\* Problems and log arrive.
LEMMA OutputsArrive == ASSUME ViewInv, NEW r \in net, getProblems(r) \/ getCompileLog(r) PROVE ViewInv'
<1> DEFINE n == Len(jobs)
<1>0. n \in Nat /\ NetOK(net, n) /\ PageTypes /\ LeftTypes /\ Draws /\ Owns
      /\ logState \in [shown : Nat, fetchedFor : Nat] /\ problems \in [key : Nat, shown : Nat, loading : BOOLEAN]
  BY AsideFacts
<1>1. /\ r.kind \in {"log", "problems"} /\ net' = net \ {r}
      /\ UNCHANGED <<jobs, flags, state, activeRef, esRef, pollRef, pdfDoc, viewport, pdfTarget, dock, left, late>>
  BY DEF getProblems, getCompileLog, server, watching, panels
<1>2. r.id \in 1 .. n /\ r.id \in Nat
  BY <1>0, <1>1, RequestKinds DEF NetOK, OutputRows
<1>3. PageTypes' /\ Draws'
  BY <1>0, <1>1 DEF PageTypes, Draws
<1>4. CASE getProblems(r)
  BY <1>4, <1>0, <1>1, <1>3, AsideFacts, ShownAside, <1>2 DEF getProblems, ProblemsCurrent, Owns,
     LeftTypes
<1>5. CASE getCompileLog(r)
  <2>1. problems' = problems /\ crossed' = (crossed \/ r.id # state.id)
        /\ (logState' = [logState EXCEPT !.shown = r.id] \/ logState' = [logState EXCEPT !.fetchedFor = 0])
    BY <1>5 DEF getCompileLog
  <2>2. logState' \in [shown : Nat, fetchedFor : Nat] /\ logState'.shown \in {r.id, logState.shown}
    BY <1>0, <1>2, <2>1
  <2>3. crossed' \in BOOLEAN /\ (~crossed' => ~crossed /\ r.id = state.id)
    BY <2>1
  <2>4. Owns' /\ LeftTypes'
    BY <1>0, <1>1, <2>1, <2>2, <2>3 DEF Owns, LeftTypes
  <2> QED BY <1>0, <1>1, <1>3, <2>1, <2>2, <2>4, AsideFacts, ShownAside
<1> QED BY <1>4, <1>5

\* The dock's panels are turned; the log is asked for when its panel comes up.
LEMMA DockKeeps == ASSUME ViewInv, CompileOutputDock PROVE ViewInv'
<1> DEFINE n == Len(jobs)
           asked == LogRequest(state.id, dock')
<1>0. n \in Nat /\ NetOK(net, n) /\ PageTypes /\ LeftTypes /\ Draws /\ Owns
      /\ logState \in [shown : Nat, fetchedFor : Nat] /\ state.id \in 0 .. n
  BY AsideFacts DEF ViewInv, ShownTypes
<1>1. /\ Spend("logs") /\ dock' \in [tab : {"problems", "log"}, collapsed : BOOLEAN] /\ net' = net \cup asked
      /\ logState' = useCompileLog(state.id, dock')
      /\ UNCHANGED <<jobs, flags, state, activeRef, esRef, pollRef, pdfDoc, viewport, pdfTarget, problems, late, crossed>>
  BY DEF CompileOutputDock, server, watching
<1>2. logState' \in {logState, [logState EXCEPT !.fetchedFor = state.id]}
  BY <1>1 DEF useCompileLog
<1>3. logState' \in [shown : Nat, fetchedFor : Nat] /\ logState'.shown = logState.shown
      /\ logState'.fetchedFor \in {state.id, logState.fetchedFor}
  BY <1>0, <1>2
<1>4. asked \subseteq OutputRows(n)
  BY <1>1, <1>3, <1>0 DEF LogRequest, Asks, OutputRows
<1> HIDE DEF asked, n
<1>5. \A q \in asked : q \in AskedFor(n) /\ q.kind \in {"log", "problems"}
  BY <1>4 DEF AskedFor, OutputRows
<1>6. NetOK(net', n) /\ (\A s \in net : s.kind \in {"start", "stream"} => s \in net')
      /\ (\A s \in net' : s.kind \in {"start", "stream", "pdf"} => s \in net)
  BY <1>0, <1>1, <1>5 DEF NetOK
<1>7. LeftTypes'
  BY <1>0, <1>1, StorySpent DEF LeftTypes, StoryRows
<1>8. PageTypes' /\ Owns'
  BY <1>0, <1>1, <1>3 DEF PageTypes, Owns
<1>9. Draws'
  BY <1>0, <1>1, <1>6 DEF Draws
<1> QED BY <1>1, <1>3, <1>6, <1>7, <1>8, <1>9, AsideFacts, AsideKeeps DEF n


\* A jump from the source, and the viewer's controls.
LEMMA ViewerKeeps ==
    ASSUME ViewInv, NEW v \in Sides, viewport' = v, v.page \in 1 .. (IF pdfDoc.pages = 0 THEN 1 ELSE pdfDoc.pages),
           v.fitMode = "none" => v.fitting = FALSE, pdfTarget' \in Nat, left' \in StoryRows,
           net' = net \/ \E r \in net : r.kind = "sync" /\ net' = net \ {r},
           UNCHANGED <<jobs, flags, state, activeRef, esRef, pollRef, pdfDoc, dock, logState, problems, late, crossed>>
    PROVE  ViewInv'
  BY AsideFacts, ShownAside DEF PageTypes, LeftTypes, StoryRows, Owns, Draws

\* The answer of a jump turns to its page, unless there are fewer by now.
LEMMA JumpKeeps == ASSUME ViewInv, NEW r \in net, codeToPdf(r) PROVE ViewInv'
<1>0. Len(jobs) \in Nat /\ NetOK(net, Len(jobs)) /\ PageTypes /\ pdfDoc \in Drawn /\ left \in StoryRows
  BY AsideFacts DEF LeftTypes, StoryRows
<1>1. /\ r.kind = "sync" /\ net' = net \ {r} /\ left' = left
      /\ UNCHANGED <<jobs, flags, state, activeRef, esRef, pollRef, pdfDoc, dock, logState, problems, late, crossed>>
  BY DEF codeToPdf, server, watching, panels
<1>2. CASE UNCHANGED <<pdfTarget, viewport>>
  <2>1. /\ viewport' \in Sides /\ viewport'.page \in 1 .. (IF pdfDoc.pages = 0 THEN 1 ELSE pdfDoc.pages)
        /\ viewport'.fitMode = "none" => viewport'.fitting = FALSE
    BY <1>0, <1>2 DEF PageTypes
  <2>2. pdfTarget' \in Nat
    BY <1>0, <1>2 DEF PageTypes
  <2> QED BY <1>0, <1>1, <2>1, <2>2, ViewerKeeps
<1>3. CASE /\ r.id # 0 /\ pdfTarget' \in 1 .. Pages[r.id]
           /\ viewport' = [viewport EXCEPT !.page = clampPage(pdfTarget', pdfDoc.pages)]
  <2>1. r.id \in 1 .. Len(jobs)
    BY <1>0, <1>1, <1>3, RequestKinds DEF NetOK, SyncRows
  <2>2. Pages[r.id] \in Nat
    BY <1>0, <2>1, ViewAssumption DEF ViewInv, JobTypes
  <2>3. pdfTarget' \in Nat /\ pdfTarget' \in Int
    BY <1>3, <2>2
  <2>4. PICK p : p = clampPage(pdfTarget', pdfDoc.pages)
    OBVIOUS
  <2>5. p \in 1 .. (IF pdfDoc.pages = 0 THEN 1 ELSE pdfDoc.pages) /\ p \in Nat
    <3>1. pdfDoc.pages \in Nat
      BY <1>0 DEF Drawn
    <3>2. p \in 1 .. (IF pdfDoc.pages = 0 THEN 1 ELSE pdfDoc.pages)
      BY <2>3, <2>4, <3>1, Clamped
    <3> QED BY <3>1, <3>2
  <2>6. PICK v : v = [viewport EXCEPT !.page = p]
    OBVIOUS
  <2>7. v \in Sides /\ v.page = p /\ v.fitMode = viewport.fitMode /\ v.fitting = viewport.fitting
    BY <1>0, <2>5, <2>6 DEF PageTypes, Sides
  <2>8. viewport' = v /\ (v.fitMode = "none" => v.fitting = FALSE)
    BY <1>0, <1>3, <2>4, <2>6, <2>7 DEF PageTypes
  <2> QED BY <1>0, <1>1, <2>3, <2>5, <2>7, <2>8, ViewerKeeps
<1> QED BY <1>2, <1>3 DEF codeToPdf

\* The viewer's controls keep page and scale within bounds.
LEMMA ControlsKeep ==
    ASSUME ViewInv, PageControls \/ ZoomControls \/ FitControls \/ PdfViewer
    PROVE  ViewInv' /\ (viewport.fitMode = "none" /\ viewport'.scale # viewport.scale => ZoomControls)
<1>0. PageTypes /\ pdfDoc \in Drawn /\ left \in StoryRows /\ pdfTarget \in Nat /\ MAX_SCALE \in Nat \ {0} /\ FitScale \in 1 .. MAX_SCALE
  BY AsideFacts, ViewAssumption DEF LeftTypes, StoryRows, PageTypes
<1>1. viewport \in [fitMode : {"width", "none"}, page : Nat, scale : 1 .. MAX_SCALE, fitting : BOOLEAN]
      /\ viewport.page \in 1 .. (IF pdfDoc.pages = 0 THEN 1 ELSE pdfDoc.pages)
      /\ (viewport.fitMode = "none" => ~viewport.fitting)
  BY <1>0 DEF PageTypes, Sides
<1>2. /\ UNCHANGED <<jobs, flags, state, activeRef, esRef, pollRef, net, pdfDoc, pdfTarget, dock, logState, problems, late, crossed>>
      /\ left' \in StoryRows
  BY StorySpent, AsideFacts, <1>0 DEF PageControls, ZoomControls, FitControls, PdfViewer, server,
     watching, panels
<1>3. PICK v : v = viewport'
  OBVIOUS
<1>4. v \in Sides /\ v.page \in 1 .. (IF pdfDoc.pages = 0 THEN 1 ELSE pdfDoc.pages) /\ (v.fitMode = "none" => v.fitting = FALSE)
      /\ (viewport.fitMode = "none" /\ v.scale # viewport.scale => ZoomControls)
  <2>1. CASE PageControls
    <3>1. PICK d \in {-1, 1} : v = [viewport EXCEPT !.page = clampPage(@ + d, pdfDoc.pages)]
      BY <1>3, <2>1 DEF PageControls
    <3>2. PICK p : p = clampPage(viewport.page + d, pdfDoc.pages)
      OBVIOUS
    <3>3. p \in 1 .. (IF pdfDoc.pages = 0 THEN 1 ELSE pdfDoc.pages) /\ p \in Nat
      <4>1. pdfDoc.pages \in Nat
        BY <1>0 DEF Drawn
      <4>2. viewport.page + d \in Int
        BY <1>1
      <4>3. p \in 1 .. (IF pdfDoc.pages = 0 THEN 1 ELSE pdfDoc.pages)
        BY <3>2, <4>1, <4>2, Clamped
      <4> QED BY <4>1, <4>3
    <3>4. v = [viewport EXCEPT !.page = p]
      BY <3>1, <3>2
    <3>5. v = [fitMode |-> viewport.fitMode, page |-> p, scale |-> viewport.scale, fitting |-> viewport.fitting]
      BY <1>1, <3>4
    <3> QED BY <1>1, <3>3, <3>5 DEF Sides
  <2>2. CASE ZoomControls
    <3>1. PICK d \in {-1, 1} : v = [viewport EXCEPT !.scale = clampScale(@ + d), !.fitMode = "none", !.fitting = FitDropped]
      BY <1>3, <2>2 DEF ZoomControls
    <3>2. PICK s : s = clampScale(viewport.scale + d)
      OBVIOUS
    <3>3. s \in 1 .. MAX_SCALE
      BY <1>0, <1>1, <3>2 DEF clampScale
    <3>4. v = [viewport EXCEPT !.scale = s, !.fitMode = "none", !.fitting = FALSE]
      BY <3>1, <3>2 DEF FitDropped
    <3>5. v = [fitMode |-> "none", page |-> viewport.page, scale |-> s, fitting |-> FALSE]
      BY <1>1, <3>4
    <3> QED BY <1>1, <2>2, <3>3, <3>5 DEF Sides
  <2>3. CASE FitControls
    BY <1>3, <2>3, <1>1 DEF FitControls, Sides
  <2>4. CASE PdfViewer
    BY <1>3, <2>4, <1>1, <1>0 DEF PdfViewer, Sides
  <2> QED BY <2>1, <2>2, <2>3, <2>4
<1>5. ViewInv'
  BY <1>0, <1>2, <1>3, <1>4, ViewerKeeps
<1> QED BY <1>3, <1>4, <1>5

\* Every step of the preview keeps the invariant.
LEMMA ViewKept ==
    ASSUME ViewInv, [compileNext]_compileVars
    PROVE  ViewInv'
<1>1. CASE UNCHANGED compileVars
  BY <1>1, AsideFacts, ShownAside DEF compileVars, server, watching, panels, PageTypes, LeftTypes,
     Draws, Owns
<1>2. CASE compileNext
  <2>1. CASE CompileButton \/ cancel \/ statusEvent \/ onerror \/ CompileOutputDock \/ syncFromSource
             \/ PageControls \/ ZoomControls \/ FitControls \/ PdfViewer
    BY <2>1, ButtonKeeps, CancelKeeps, EventKeeps, BreakKeeps, DockKeeps, JumpAsked, ControlsKeep
  <2>2. CASE \E r \in net : requestCompile(r) \/ useCompile(r) \/ cancelCompile(r) \/ streamLeft(r)
    BY <2>2, RequestKeeps, StartedKeeps, CancelMoves, LeftStreamKeeps
  <2>3. CASE \E id \in DOMAIN jobs : run_compile(id)
    BY <2>3, ServerMoves
  <2>4. CASE \E m \in 1 .. MaxPolls : compilePoll(m)
    BY <2>4, PollAsked
  <2>5. CASE \E r \in net : getCompile(r) \/ snapshotAnswer(r)
    BY <2>5, PollMoves, AnswerShown
  <2>6. CASE \E r \in net : getCompilePdf(r) \/ getProblems(r) \/ getCompileLog(r) \/ codeToPdf(r)
    BY <2>6, PdfKeeps, OutputsArrive, JumpKeeps
  <2> QED BY <1>2, <2>1, <2>2, <2>3, <2>4, <2>5, <2>6, Zenon DEF compileNext
<1> QED BY <1>1, <1>2

\* Only the zoom controls change a scale that the user chose.
LEMMA ZoomKept ==
    ASSUME ViewInv, [compileNext]_compileVars, viewport.fitMode = "none", viewport'.scale # viewport.scale
    PROVE  ZoomControls
<1>1. viewport \in Sides /\ (viewport.fitMode = "none" => ~viewport.fitting)
  BY DEF ViewInv, PageTypes
<1>2. viewport' # viewport
  OBVIOUS
<1>3. compileNext
  BY <1>2 DEF compileVars
<1>4. CASE PageControls \/ ZoomControls \/ FitControls \/ PdfViewer
  BY <1>4, ControlsKeep
<1>5. ASSUME NEW r \in net, getCompilePdf(r) PROVE viewport'.scale = viewport.scale
  BY <1>1, <1>5 DEF Sides, getCompilePdf
<1>6. ASSUME NEW r \in net, codeToPdf(r) PROVE viewport'.scale = viewport.scale
  BY <1>6, <1>1 DEF codeToPdf, Sides
<1>7. CASE CompileButton \/ cancel \/ statusEvent \/ onerror \/ CompileOutputDock \/ syncFromSource
  BY <1>2, <1>7 DEF CompileButton, cancel, statusEvent, onerror, CompileOutputDock, syncFromSource
<1>8. CASE \E r \in net : requestCompile(r) \/ useCompile(r) \/ cancelCompile(r) \/ streamLeft(r)
  BY <1>2, <1>8 DEF requestCompile, useCompile, cancelCompile, streamLeft
<1>9. CASE (\E id \in DOMAIN jobs : run_compile(id)) \/ \E m \in 1 .. MaxPolls : compilePoll(m)
  BY <1>2, <1>9 DEF run_compile, compilePoll
<1>10. CASE \E r \in net : getCompile(r) \/ snapshotAnswer(r) \/ getProblems(r) \/ getCompileLog(r)
  BY <1>2, <1>10 DEF getCompile, snapshotAnswer, getProblems, getCompileLog
<1> QED BY <1>3, <1>4, <1>5, <1>6, <1>7, <1>8, <1>9, <1>10, Zenon DEF compileNext

\* The preview's variables keep their types, and pages are turned to that are there.
LEMMA ViewTyped == ViewInv => compileTypeOK
  BY DEF ViewInv, JobTypes, JobStatus, Follows, Watched, compileTypeOK, ShownTypes, WatchTypes,
     PageTypes, Sides

\* A compile that is shown as active is followed, what is drawn is alive, and
\* problems and log are those of the compile they are shown with.
LEMMA ViewShows == ViewInv => Followed /\ DrawnAlive /\ OutputsOwn
  BY DEF ViewInv, Follows, Watched, StartAsked, Followed, StartPending, Draws, DrawnAlive, Viewer, Owns,
     OutputsOwn

\* The pages around the preview leave the compiles and what is shown of them alone.
THEOREM PagesPreview == Spec => compileSpec
<1>1. Init => compileInit
  BY DEF Init
<1>2. [Next]_pageVars => [compileNext]_compileVars
  BY DEF Preview, Sharing, Board, Bell, Session, Account, pageVars, Next
<1> QED BY <1>1, <1>2, PTL DEF Spec, compileSpec

\* The preview's variables keep their types and no page is shown that is not there; a
\* compile shown as active is followed; what is drawn is the document of the last
\* success and is alive; problems and log are those of the compile they are shown with;
\* and a zoom the user chose stays (modules/compile/): for any compiles, requests,
\* broken streams and polls.
THEOREM PreviewHolds == Spec => [](compileTypeOK /\ Followed /\ DrawnAlive /\ OutputsOwn) /\ ZoomWins
<1>1. compileInit => ViewInv
  BY ViewStart
<1>2. ViewInv /\ [compileNext]_compileVars => ViewInv'
  BY ViewKept
<1>3. ViewInv => compileTypeOK /\ Followed /\ DrawnAlive /\ OutputsOwn
  BY ViewTyped, ViewShows
<1>4. ViewInv /\ [compileNext]_compileVars
      => [viewport.fitMode = "none" /\ viewport'.scale # viewport.scale => ZoomControls]_compileVars
  BY ZoomKept
<1> QED BY <1>1, <1>2, <1>3, <1>4, PagesPreview, PTL DEF compileSpec, ZoomWins

-----------------------------------------------------------------------------
(* The dashboard *)

dashSpec == dashInit /\ [][dashNext]_dashVars

Roles == {"owner", "editor", None}
Names == Title \cup {None, CHOOSE n \in Title : TRUE}
Tables == SUBSET (Project \X Names \X Roles)
Standing == {"none", "queued", "running"} \cup TERMINAL
ProjectRows == [status : {"free", "live", "gone"}, name : Names, role : Roles]
ImportRows == [status : Standing, source : Kind \cup {None}, seen : BOOLEAN]
ChangeOp == {"rename", "delete", "leave"}
DashOp == ChangeOp \cup {"create", "drop", "seen", "import"}
DashAt == {"asked", "staged", "done", "refused", "settled", "kept"}
DashCallRows ==
    [op : DashOp, project : Project, name : Names, kind : Kind \cup {None}, at : DashAt, shuts : BOOLEAN, previous : Tables]
DashCallOK(c) ==
    /\ c \in DashCallRows /\ (c.op = "import" => c.kind \in Kind)
    /\ (c.at \in {"settled", "kept"} => c.op \in ChangeOp) /\ (c.at = "staged" => c.op = "import")
Phases == {"idle", "uploading", "processing", "done", "failed"}
ImportPolls == [project : Project, at : {"asked", "read", "timer"}, got : Standing \cup {"unreadable"}]
ImporterRows == [phase : Phases, project : Project \cup {None}, timer : Project \cup {None}, polls : SUBSET ImportPolls]
DashPages ==
    [at : Project \cup {"dashboard"}, dialog : {None, "create"} \cup Kind \cup ChangeOp, project : Project \cup {None},
     scope : {"all", "owned", "shared"}]
Reported == {"nothing", "unseen", "seen"}
DashLists == [at : {"none", "asked", "read"}, rows : Tables, got : Tables, known : BOOLEAN, failed : BOOLEAN]
Reports ==
    [at : [Project -> {"none", "asked", "read"}], got : [Project -> Reported \cup {None}],
     cached : [Project -> Reported \cup {"unknown"}]]

DashServer ==
    /\ catalog \in [Project -> ProjectRows] /\ imports \in [Project -> ImportRows]
    /\ importJobs \subseteq Project /\ overtaken \subseteq Project
DashTypes ==
    /\ \A c \in dashCalls : DashCallOK(c)
    /\ listed \in DashLists
    /\ page \in DashPages /\ (page.dialog \in ChangeOp <=> page.project # None)
    /\ importer \in [Kind -> ImporterRows] /\ report \in Reports /\ downloads \subseteq Project
    /\ missed \in BOOLEAN /\ shutAcross \in BOOLEAN /\ belated \in BOOLEAN

\* A project's page runs nothing of the dashboard's, and a report that was read is there.
AwayOK ==
    /\ page.at # "dashboard" =>
          page.dialog = None /\ downloads = {} /\ importer = [k \in Kind |-> Idle] /\ \A c \in dashCalls : c.op = "import" => ~c.shuts
    /\ \A p \in Project : report.at[p] = "read" => report.got[p] # None

\* A project is made by one request, and imported once.
Making(c) == c.op \in {"import", "create"} /\ c.at \in {"asked", "staged"}
MadeOnce ==
    /\ \A c \in dashCalls : Making(c) => catalog[c.project].status = "free"
    /\ \A c, d \in dashCalls : Making(c) /\ Making(d) /\ c.project = d.project => c = d
    /\ \A p \in Project : catalog[p].status = "free" => imports[p].status = "none"
    /\ \A p \in importJobs : imports[p].status \in {"none", "queued"}

\* A poll that has read the end of an import has read what it is.
PollsTold == \A k \in Kind : \A q \in importer[k].polls : q.at = "read" /\ q.got \in TERMINAL => imports[q.project].status = q.got

\* As long as no dialog was closed under its import, it is the only one that runs,
\* it is polled for by one poll, and what is said of it is what became of it.
DialogOK(k, i, dialog, rows) ==
    /\ i.phase \in {"uploading", "processing"} => dialog = k
    /\ i.phase = "uploading" => i.project = None
    /\ i.phase = "processing" => i.project # None /\ \E q \in i.polls : i.polls = {q} /\ q.project = i.project
    /\ i.phase # "processing" => i.polls = {}
    /\ i.phase = "done" => i.project # None /\ rows[i.project].status \in Kept
    /\ i.phase = "failed" /\ i.project # None => rows[i.project].status \in TERMINAL \ Kept
DialogsTold ==
    ~shutAcross =>
        /\ \A c \in dashCalls : c.op = "import" => c.shuts /\ importer[c.kind].phase = "uploading"
        /\ \A c, d \in dashCalls : c.op = "import" /\ d.op = "import" /\ c.kind = d.kind => c = d
        /\ \A k \in Kind : DialogOK(k, importer[k], page.dialog, imports)

\* What was read of the list after the last change is the list, but for projects whose
\* import failed, or whose dialog will hear of its end.
Excused(p) ==
    \/ \E c \in dashCalls : c.op = "import" /\ c.project = p /\ c.at = "done"
    \/ \E k \in Kind : importer[k].project = p /\ importer[k].phase = "processing"
NearList(rows) ==
    /\ rows \subseteq list_projects
    /\ ~shutAcross => \A row \in list_projects \ rows :
          /\ imports[row[1]].status # "none"
          /\ imports[row[1]].status \in TERMINAL \ Kept \/ Excused(row[1])
Unsettled(c) == (c.op \in {"create", "drop"} /\ c.at = "done") \/ (c.op \in ChangeOp /\ c.at \in {"asked", "done", "refused"})
ListTold ==
    ~missed /\ (\A c \in dashCalls : ~Unsettled(c)) =>
        /\ listed.at = "read" => NearList(listed.got)
        /\ page.at = "dashboard" /\ listed.at = "none" /\ listed.known /\ ~listed.failed => NearList(listed.rows)

\* A report that was seen is not cached as unseen, unless its dismissal is under way.
SeenTold ==
    ~belated => \A p \in Project : imports[p].seen /\ report.cached[p] = "unseen"
                                      => \E c \in dashCalls : c.op = "seen" /\ c.project = p
DashInv == DashServer /\ DashTypes /\ AwayOK /\ MadeOnce /\ PollsTold /\ DialogsTold /\ ListTold /\ SeenTold


\* A request that moves on keeps the rest of its fields.
LEMMA DashCallMoved ==
    ASSUME NEW c \in DashCallRows, NEW at \in DashAt, NEW d, d = [c EXCEPT !.at = at]
    PROVE  /\ d \in DashCallRows /\ d.op = c.op /\ d.project = c.project /\ d.name = c.name /\ d.kind = c.kind
           /\ d.at = at /\ d.shuts = c.shuts /\ d.previous = c.previous
BY DEF DashCallRows

\* A request of the person's own begins as asked, and closes the dialog at its end.
LEMMA DashCallMade ==
    ASSUME listed \in DashLists, NEW op \in DashOp, NEW p \in Project, NEW name \in Names, NEW kind \in Kind \cup {None},
           NEW d, d = NewCall(op, p, name, kind)
    PROVE  /\ d \in DashCallRows /\ d.op = op /\ d.project = p /\ d.name = name /\ d.kind = kind
           /\ d.at = "asked" /\ d.shuts /\ d.previous = listed.rows
  BY DEF NewCall, DashLists, DashCallRows, DashAt

\* A list that is told of a change is fetched again, or was never shown.
LEMMA ListRefetched ==
    ASSUME NEW l \in DashLists, NEW m, m = invalidate_projects(l)
    PROVE  /\ m \in DashLists /\ m.rows = l.rows /\ m.known = l.known
           /\ page.at = "dashboard" /\ (l.known \/ l.at = "none") => m.at = "asked"
           /\ ~(page.at = "dashboard" /\ (l.known \/ l.at = "none")) => m = l
  BY DEF DashLists, invalidate_projects, useProjects, Tables

\* The words for no project and for the dashboard are no ids.
LEMMA DashWords == None \notin Project /\ "dashboard" \notin Project
BY DashAssumption DEF None

\* As the dashboard opens, its list is fetched and nothing else is under way.
LEMMA DashStart == dashInit => DashInv
<1> SUFFICES ASSUME dashInit PROVE DashInv
  OBVIOUS
<1>1. DashServer
  BY DashAssumption DEF Roles, Names, dashInit, ProjectRows, ImportRows, Standing, DashServer
<1>2. DashTypes
  BY DEF Tables, dashInit, DashLists, DashPages, ChangeOp, None, Idle, ImporterRows, Phases, Reports,
     Reported, DashTypes
<1>3. AwayOK
  BY DEF dashInit, AwayOK
<1>4. MadeOnce
  BY DEF dashInit, MadeOnce
<1>5. PollsTold
  BY DEF dashInit, PollsTold, Idle
<1>6. DialogsTold
  BY DEF dashInit, DialogsTold, DialogOK, Idle
<1>7. ListTold
  BY DEF dashInit, ListTold
<1>8. SeenTold
  BY DEF dashInit, SeenTold
<1> QED BY <1>1, <1>2, <1>3, <1>4, <1>5, <1>6, <1>7, <1>8 DEF DashInv


\* The server's list is a table.
LEMMA ListIsTable == ASSUME DashServer PROVE list_projects \in Tables
  BY DEF DashServer, ProjectRows, list_projects, Tables

\* A list that was near stays so while projects of the list stay and imports missing
\* from it go on, end badly or are still waited for.
LEMMA NearKept ==
    ASSUME NEW rows, NearList(rows), list_projects \subseteq list_projects', shutAcross' = FALSE => shutAcross = FALSE,
           shutAcross \in BOOLEAN, shutAcross' \in BOOLEAN,
           \A row \in list_projects' \ rows :
              shutAcross' = FALSE /\ (row \in list_projects => imports[row[1]].status # "none"
                                         /\ (imports[row[1]].status \in TERMINAL \ Kept \/ Excused(row[1])))
              => /\ imports'[row[1]].status # "none"
                 /\ imports'[row[1]].status \in TERMINAL \ Kept \/ Excused(row[1])'
    PROVE  NearList(rows)'
  BY DEF NearList

\* So it does while nothing it speaks of changes.
LEMMA NearSame ==
    ASSUME NEW rows, NearList(rows), UNCHANGED <<catalog, imports, dashCalls, importer, shutAcross>>
    PROVE  NearList(rows)'
  BY DEF list_projects, get_accessible_project, Excused, NearList

\* While the server is the same, its state keeps its types.
LEMMA StillServer ==
    ASSUME DashInv, UNCHANGED <<catalog, imports, importJobs, overtaken>>
    PROVE  DashServer'
BY DEF DashInv, DashServer

\* Neither do the requests, as long as they and the server are the same.
LEMMA StillCalls ==
    ASSUME DashInv, UNCHANGED <<catalog, imports, importJobs, dashCalls>>
    PROVE  MadeOnce'
BY DEF DashInv, MadeOnce, Making

\* Nor what is said of reports.
LEMMA StillSeen ==
    ASSUME DashInv, UNCHANGED <<imports, dashCalls, belated>>, report'.cached = report.cached
    PROVE  SeenTold'
BY DEF DashInv, SeenTold

\* Nor what is said of the list, away from the dashboard or on it.
LEMMA StillList ==
    ASSUME DashInv, UNCHANGED <<catalog, imports, dashCalls, importer, shutAcross, missed, listed>>,
           page'.at = "dashboard" => page.at = "dashboard"
    PROVE  ListTold'
  BY NearSame DEF DashInv, ListTold, Unsettled

\* The list is read and shown, or its fetch fails and is tried again; a download ends.
LEMMA ListMoves == ASSUME DashInv, ListAnswer \/ ProjectListView \/ ListFailed \/ onRetry \/ Downloaded PROVE DashInv'
<1>1. UNCHANGED <<catalog, imports, importJobs, overtaken, dashCalls, page, importer, report, missed, shutAcross, belated>>
  BY DEF ListAnswer, ProjectListView, ListFailed, onRetry, Downloaded, serverVars, ghostVars
<1>d. downloads' \subseteq downloads
  BY DEF ListAnswer, ProjectListView, ListFailed, onRetry, Downloaded, RowsDrawn
<1>2. DashServer' /\ MadeOnce' /\ SeenTold'
  BY <1>1, StillServer, StillCalls, StillSeen
<1>3. AwayOK' /\ PollsTold' /\ DialogsTold'
  BY <1>1, <1>d DEF DashInv, AwayOK, PollsTold, DialogsTold, DialogOK
<1>4. listed \in DashLists /\ list_projects \in Tables /\ list_projects' = list_projects
  BY <1>1, ListIsTable DEF DashInv, DashTypes, list_projects, get_accessible_project
<1>5. listed' \in DashLists
      /\ \/ listed'.at = "read" /\ listed'.got = list_projects
         \/ listed.at = "read" /\ listed'.at = "none" /\ listed'.rows = listed.got
         \/ listed'.at = "none" /\ listed'.failed
         \/ listed'.at = "asked"
         \/ listed' = listed
  <2>1. CASE ListAnswer
    BY <2>1, <1>4 DEF ListAnswer, DashLists
  <2>2. CASE ProjectListView
    BY <2>2, <1>4 DEF ProjectListView, Tables, DashLists
  <2>3. CASE ListFailed
    BY <2>3, <1>4 DEF ListFailed, cancelQueries, DashLists, Tables
  <2>4. CASE onRetry
    BY <2>4, <1>4, ListRefetched DEF onRetry, invalidate_projects
  <2>5. CASE Downloaded
    BY <1>4, <2>5 DEF Downloaded
  <2> QED BY <2>1, <2>2, <2>3, <2>4, <2>5
<1>6. DashTypes'
  BY <1>1, <1>d, <1>5 DEF DashInv, DashTypes, DashCallOK
<1>7. ListTold'
  BY <1>1, NearSame, <1>5 DEF NearList, DashInv, ListTold, Unsettled
<1> QED BY <1>2, <1>3, <1>6, <1>7 DEF DashInv

\* Dialogs open and close, and the scope is chosen.
LEMMA PageMoves == ASSUME DashInv, ProjectScopeControl \/ RowActionsMenu \/ ProjectsHeader \/ onOpenChange PROVE DashInv'
<1>0. page \in DashPages /\ (page.dialog \in ChangeOp <=> page.project # None) /\ importer \in [Kind -> ImporterRows] /\ AwayOK
      /\ DialogsTold
  BY DEF DashInv, DashTypes
<1>1. UNCHANGED <<catalog, imports, importJobs, overtaken, dashCalls, listed, report, missed, shutAcross, belated>>
  BY DEF ProjectScopeControl, RowActionsMenu, ProjectsHeader, onOpenChange, serverVars, ghostVars
<1>d. downloads' \subseteq downloads
  BY DEF ProjectScopeControl, RowActionsMenu, ProjectsHeader, onOpenChange, RowsDrawn
<1>2. DashServer' /\ MadeOnce' /\ SeenTold'
  BY <1>1, StillServer, StillCalls, StillSeen
<1>3. PICK p : p = page'
  OBVIOUS
<1>4. /\ p \in DashPages /\ (p.dialog \in ChangeOp <=> p.project # None) /\ p.at = page.at
      /\ p.at # "dashboard" => p.dialog = None
      /\ p.dialog = page.dialog \/ (page.dialog = None \/ ~importBusy(page.dialog) \/ page.dialog \notin Kind)
  <2>0. \A row \in listed.rows : row[1] \in Project
    BY DEF DashInv, DashTypes, DashLists, Tables
  <2>1. CASE ProjectScopeControl
    BY <1>3, <2>1, <1>0 DEF ProjectScopeControl, DashPages, AwayOK
  <2>2. CASE RowActionsMenu
    <3>1. PICK row \in listed.rows, op \in ChangeOp :
              page.at = "dashboard" /\ page.dialog = None /\ p = [page EXCEPT !.dialog = op, !.project = row[1]]
      BY <1>3, <2>2 DEF RowActionsMenu, Visible, visibleProjects, setDialog, ChangeOp
    <3>2. p = [at |-> page.at, dialog |-> op, project |-> row[1], scope |-> page.scope]
      BY <1>0, <3>1 DEF DashPages
    <3>3. row[1] \in Project /\ row[1] # None
      BY <2>0, DashWords
    <3> QED BY <1>0, <3>1, <3>2, <3>3 DEF DashPages
  <2>3. CASE ProjectsHeader
    BY <1>3, <2>3, <1>0 DEF ProjectsHeader, setDialog, DashPages, ChangeOp, Kind
  <2>4. CASE onOpenChange
    BY <1>3, <2>4, <1>0 DEF onOpenChange, closeDialog, setDialog, DashPages, ChangeOp, None
  <2> QED BY <2>1, <2>2, <2>3, <2>4
<1>5. importer' = importer
      \/ (page.at = "dashboard" /\ page.dialog = None /\ \E k \in Kind : importer' = [importer EXCEPT ![k] = importer'[k]]
             /\ importer'[k] \in ImporterRows /\ importer'[k].phase = "idle" /\ importer'[k].polls \subseteq importer[k].polls)
  <2>1. CASE ~ProjectsHeader
    BY <2>1 DEF ProjectScopeControl, RowActionsMenu, onOpenChange
  <2>2. CASE ProjectsHeader
    <3>1. PICK dialog \in {"create"} \cup Kind : page.at = "dashboard" /\ page.dialog = None
              /\ importer' = IF dialog \in Kind THEN useImportDialog(dialog) ELSE importer
      BY <2>2 DEF ProjectsHeader
    <3>2. CASE dialog \in Kind
      BY <3>1, <3>2, <1>0 DEF useImportDialog, ImporterRows, Idle, Phases
    <3>3. CASE dialog \notin Kind
      BY <3>1, <3>3
    <3> QED BY <3>2, <3>3
  <2> QED BY <2>1, <2>2
<1>6. importer' \in [Kind -> ImporterRows] /\ (\A k \in Kind : importer'[k].polls \subseteq importer[k].polls)
      /\ (page.at # "dashboard" => importer' = importer)
      /\ \A k \in Kind : importer'[k] = importer[k]
              \/ (page.dialog = None /\ importer'[k].phase = "idle" /\ importer'[k].polls \subseteq importer[k].polls)
  BY <1>0, <1>5
<1>7. DashTypes'
  BY <1>1, <1>d, <1>3, <1>4, <1>6 DEF DashInv, DashTypes, DashCallOK
<1>8. AwayOK'
  BY <1>0, <1>1, <1>d, <1>3, <1>4, <1>6 DEF AwayOK
<1>9. PollsTold'
  BY <1>1, <1>6 DEF DashInv, PollsTold
<1>10. DialogsTold'
  BY <1>1, <1>0, <1>3, <1>4, DashWords, <1>6 DEF DialogsTold, DialogOK, importBusy, None, Kind, DashInv,
     DashTypes, DashCallOK
<1>11. ListTold'
  BY <1>1, <1>0, <1>6, <1>3, <1>4 DEF Excused, DialogsTold, DialogOK, None, Kind, list_projects,
     get_accessible_project, DashInv, DashTypes, NearList, ListTold, Unsettled
<1> QED BY <1>2, <1>7, <1>8, <1>9, <1>10, <1>11 DEF DashInv


\* What is near the server's list stays near it while that list is the same, and an
\* import that excuses a row goes on excusing it.
LEMMA NearExcused ==
    ASSUME DashInv, catalog' = catalog, shutAcross => shutAcross', \A p \in Project : imports'[p].status = imports[p].status,
           \A p \in Project : ~shutAcross /\ Excused(p) => Excused(p)'
    PROVE  \A rows : NearList(rows) => NearList(rows)'
  BY DEF list_projects, get_accessible_project, DashInv, DashTypes, NearList

\* A list that nobody touches is as true as it was.
LEMMA ListKept ==
    ASSUME DashInv, listed' = listed, ~missed' => ~missed, page'.at = "dashboard" => page.at = "dashboard",
           (\A c \in dashCalls' : ~Unsettled(c)) => (\A c \in dashCalls : ~Unsettled(c)),
           ~missed' /\ (\A c \in dashCalls' : ~Unsettled(c)) => \A rows : NearList(rows) => NearList(rows)'
    PROVE  ListTold'
  BY DEF DashInv, ListTold, Unsettled, NearList

\* A poll is answered with what the import is, and asks again after its time.
LEMMA PollTicks == ASSUME DashInv, PollRead \/ PollTimer PROVE DashInv'
<1>0. importer \in [Kind -> ImporterRows] /\ AwayOK /\ DialogsTold /\ PollsTold /\ DashServer
  BY DEF DashInv, DashTypes
<1>1. UNCHANGED <<catalog, imports, importJobs, overtaken, dashCalls, listed, page, downloads, report, missed, shutAcross, belated>>
  BY DEF PollRead, PollTimer, serverVars, ghostVars
<1>2. DashServer' /\ MadeOnce' /\ SeenTold'
  BY <1>1, StillServer, StillCalls, StillSeen
<1>3. \E k \in Kind : \E q \in importer[k].polls : \E r :
        /\ importer' = Ticking(k, q, r)
        /\ r \in ImportPolls /\ r.project = q.project /\ r.at \in {"read", "asked"}
        /\ r.at = "read" => r.got = getImportStatus(q.project)
  <2>1. CASE PollRead
    <3>1. PICK k \in Kind : \E q \in importer[k].polls :
            importer' = Ticking(k, q, [q EXCEPT !.at = "read", !.got = getImportStatus(q.project)])
      BY <2>1 DEF PollRead
    <3>11. PICK q \in importer[k].polls :
            importer' = Ticking(k, q, [q EXCEPT !.at = "read", !.got = getImportStatus(q.project)])
      BY <3>1
    <3>2. q \in ImportPolls
      BY <1>0, <3>11 DEF ImporterRows
    <3>3. getImportStatus(q.project) \in Standing \cup {"unreadable"}
      BY <1>0, <3>2 DEF getImportStatus, DashServer, ImportRows, ImportPolls
    <3>4. PICK r : r = [q EXCEPT !.at = "read", !.got = getImportStatus(q.project)]
      OBVIOUS
    <3>5. r = [project |-> q.project, at |-> "read", got |-> getImportStatus(q.project)]
      BY <3>2, <3>4 DEF ImportPolls
    <3>6. r \in ImportPolls
      BY <3>2, <3>3, <3>5 DEF ImportPolls
    <3> QED BY <3>11, <3>4, <3>5, <3>6
  <2>2. CASE PollTimer
    BY <2>2, <1>0 DEF PollTimer, ImporterRows, ImportPolls
  <2> QED BY <2>1, <2>2
<1>31. PICK k \in Kind : \E q \in importer[k].polls : \E r :
        /\ importer' = Ticking(k, q, r)
        /\ r \in ImportPolls /\ r.project = q.project /\ r.at \in {"read", "asked"}
        /\ r.at = "read" => r.got = getImportStatus(q.project)
  BY <1>3
<1>32. PICK q \in importer[k].polls : \E r :
        /\ importer' = Ticking(k, q, r)
        /\ r \in ImportPolls /\ r.project = q.project /\ r.at \in {"read", "asked"}
        /\ r.at = "read" => r.got = getImportStatus(q.project)
  BY <1>31
<1>33. PICK r :
        /\ importer' = Ticking(k, q, r)
        /\ r \in ImportPolls /\ r.project = q.project /\ r.at \in {"read", "asked"}
        /\ r.at = "read" => r.got = getImportStatus(q.project)
  BY <1>32
<1>4. PICK i : i = [phase |-> importer[k].phase, project |-> importer[k].project, timer |-> importer[k].timer,
                    polls |-> (importer[k].polls \ {q}) \cup {r}]
  OBVIOUS
<1>5. importer' = [importer EXCEPT ![k] = i]
  <2>1. PICK S : S = (importer[k].polls \ {q}) \cup {r}
    OBVIOUS
  <2>2. importer' = [importer EXCEPT ![k].polls = S]
    BY <1>33, <2>1 DEF Ticking
  <2>3. importer[k] \in ImporterRows
    BY <1>0
  <2>4. i = [importer[k] EXCEPT !.polls = S]
    BY <1>4, <2>1, <2>3 DEF ImporterRows
  <2> QED BY <2>2, <2>4
<1>6. i \in ImporterRows
  BY <1>0, <1>33, <1>4 DEF ImporterRows
<1>7. importer' \in [Kind -> ImporterRows] /\ importer'[k] = i /\ \A j \in Kind : j # k => importer'[j] = importer[j]
  BY <1>0, <1>5, <1>6
<1>8. DashTypes'
  BY <1>1, <1>7 DEF DashInv, DashTypes, DashCallOK
<1>9. page.at = "dashboard" /\ AwayOK'
  BY <1>0, <1>1, <1>33 DEF AwayOK, Idle
<1>10. PollsTold'
  BY <1>0, <1>1, <1>33, <1>4, <1>7 DEF PollsTold, getImportStatus, TERMINAL
<1>11. DialogsTold'
  BY <1>1, <1>0, <1>33, <1>4, <1>7 DEF DialogsTold, DialogOK, DashInv, DashTypes, DashCallOK
<1>12. ListTold'
  BY <1>1, <1>4, <1>7, NearExcused, ListKept DEF Excused
<1> QED BY <1>2, <1>8, <1>9, <1>10, <1>11, <1>12 DEF DashInv

\* A project's report is read, and shown, or its reading fails.
LEMMA ReportMoves == ASSUME DashInv, ReportRead \/ ReportShown \/ ReportFailed PROVE DashInv'
<1>0. report \in Reports /\ AwayOK /\ DashServer /\ SeenTold
  BY DEF DashInv, DashTypes
<1>1. UNCHANGED <<catalog, imports, importJobs, overtaken, dashCalls, listed, page, importer, downloads, missed, shutAcross>>
  BY DEF ReportRead, ReportShown, ReportFailed, serverVars, ghostVars
<1>2. DashServer' /\ MadeOnce'
  BY <1>1, StillServer, StillCalls
<1>3. /\ report.at \in [Project -> {"none", "asked", "read"}] /\ report.got \in [Project -> Reported \cup {None}]
      /\ report.cached \in [Project -> Reported \cup {"unknown"}]
  BY <1>0 DEF Reports
<1>4. PollsTold' /\ DialogsTold' /\ ListTold'
  BY <1>1, StillList DEF DashInv, PollsTold, DialogsTold
<1>5. ASSUME NEW p \in Project, NEW at \in {"none", "read"}, NEW got \in Reported \cup {None}, at = "read" => got # None,
             NEW a, NEW g, NEW s \in [Project -> Reported \cup {"unknown"}],
             a = [report.at EXCEPT ![p] = at], g = [report.got EXCEPT ![p] = got],
             report' = [at |-> a, got |-> g, cached |-> s], belated' \in BOOLEAN
      PROVE  DashTypes' /\ AwayOK'
  BY <1>3, <1>5, <1>1, <1>0 DEF Reports, DashInv, DashTypes, DashCallOK, AwayOK
<1>6. belated \in BOOLEAN /\ \A p \in Project : imports[p].seen \in BOOLEAN
  BY <1>0 DEF DashInv, DashTypes, DashServer, ImportRows
<1>7. CASE ReportRead
  <2>1. PICK p \in Project : report' = [report EXCEPT !.at[p] = "read", !.got[p] = getLatestImport(p)]
    BY <1>7 DEF ReportRead
  <2>2. PICK got \in Reported : got = getLatestImport(p) /\ got # None
    BY DEF getLatestImport, Reported, None
  <2>3. PICK a : a = [report.at EXCEPT ![p] = "read"]
    OBVIOUS
  <2>4. PICK g : g = [report.got EXCEPT ![p] = got]
    OBVIOUS
  <2>5. report' = [report EXCEPT !.at = a, !.got = g]
    BY <2>1, <2>2, <2>3, <2>4
  <2>6. report' = [at |-> a, got |-> g, cached |-> report.cached]
    BY <1>0, <2>5 DEF Reports
  <2>7. belated' = belated
    BY <1>7 DEF ReportRead, ghostVars
  <2>8. DashTypes' /\ AwayOK'
    BY <1>3, <1>5, <1>6, <2>2, <2>3, <2>4, <2>6, <2>7
  <2>9. SeenTold'
    BY <1>1, <2>6, <2>7, StillSeen
  <2> QED BY <1>2, <1>4, <2>8, <2>9 DEF DashInv
<1>8. CASE ReportFailed
  <2>1. PICK p \in Project : report' = [report EXCEPT !.at[p] = "none", !.got[p] = None]
    BY <1>8 DEF ReportFailed
  <2>3. PICK a : a = [report.at EXCEPT ![p] = "none"]
    OBVIOUS
  <2>4. PICK g : g = [report.got EXCEPT ![p] = None]
    OBVIOUS
  <2>5. report' = [report EXCEPT !.at = a, !.got = g]
    BY <2>1, <2>3, <2>4
  <2>6. report' = [at |-> a, got |-> g, cached |-> report.cached]
    BY <1>0, <2>5 DEF Reports
  <2>7. belated' = belated
    BY <1>8 DEF ReportFailed, ghostVars
  <2>8. DashTypes' /\ AwayOK'
    BY <1>3, <1>5, <1>6, <2>3, <2>4, <2>6, <2>7
  <2>9. SeenTold'
    BY <1>1, <2>6, <2>7, StillSeen
  <2> QED BY <1>2, <1>4, <2>8, <2>9 DEF DashInv
<1>9. CASE ReportShown
  <2>1. PICK p \in Project :
        /\ report.at[p] = "read" /\ report' = [report EXCEPT !.at[p] = "none", !.got[p] = None, !.cached[p] = report.got[p]]
        /\ belated' = (belated \/ (report.got[p] = "unseen" /\ report.cached[p] # "unseen" /\ imports[p].seen))
    BY <1>9 DEF ReportShown
  <2>2. report.got[p] \in Reported
    BY <1>0, <1>3, <2>1 DEF AwayOK
  <2>3. PICK a : a = [report.at EXCEPT ![p] = "none"]
    OBVIOUS
  <2>4. PICK g : g = [report.got EXCEPT ![p] = None]
    OBVIOUS
  <2>5. PICK s : s = [report.cached EXCEPT ![p] = report.got[p]]
    OBVIOUS
  <2>6. report' = [report EXCEPT !.at = a, !.got = g, !.cached = s]
    BY <2>1, <2>3, <2>4, <2>5
  <2>7. report' = [at |-> a, got |-> g, cached |-> s]
    BY <1>0, <2>6 DEF Reports
  <2>8. s \in [Project -> Reported \cup {"unknown"}] /\ s[p] = report.got[p] /\ \A o \in Project : o # p => s[o] = report.cached[o]
    BY <1>3, <2>2, <2>5
  <2>9. belated' \in BOOLEAN /\ (belated => belated')
        /\ (report.got[p] = "unseen" /\ report.cached[p] # "unseen" /\ imports[p].seen => belated')
    BY <1>6, <2>1
  <2>10. DashTypes' /\ AwayOK'
    BY <1>5, <2>3, <2>4, <2>7, <2>8, <2>9
  <2>11. SeenTold'
    BY <2>8, <2>9, <1>0, <1>1, <2>7 DEF SeenTold
  <2> QED BY <1>2, <1>4, <2>10, <2>11 DEF DashInv
<1> QED BY <1>7, <1>8, <1>9

\* Back to the dashboard, which fetches its list unless it is being fetched.
LEMMA BackToList == ASSUME DashInv, ProjectsPage PROVE DashInv'
<1>0. page \in DashPages /\ listed \in DashLists /\ AwayOK /\ DialogsTold
  BY DEF DashInv, DashTypes
<1>1. UNCHANGED <<catalog, imports, importJobs, overtaken, dashCalls, importer, downloads, report, missed, shutAcross, belated>>
  BY DEF ProjectsPage, serverVars, ghostVars
<1>2. /\ page.at # "dashboard" /\ page' = [closeDialog(page) EXCEPT !.at = "dashboard"]
      /\ listed' = IF listed.at = "none" THEN useProjects(listed) ELSE listed
  BY DEF ProjectsPage
<1>3. page' = [at |-> "dashboard", dialog |-> None, project |-> None, scope |-> page.scope]
  BY <1>0, <1>2 DEF closeDialog, setDialog, DashPages
<1>5. /\ listed' \in DashLists /\ listed'.at # "none"
      /\ listed'.at = "read" => listed' = listed
  BY <1>0, <1>2 DEF DashLists, useProjects, Tables
<1>6. page' \in DashPages
  BY <1>0, <1>3 DEF DashPages
<1>7. DashServer' /\ MadeOnce' /\ SeenTold'
  BY <1>1, StillServer, StillCalls, StillSeen
<1>8. DashTypes'
  BY <1>1, <1>3, <1>5, <1>6 DEF DashInv, DashTypes, DashCallOK, ChangeOp, None
<1>9. AwayOK'
  BY <1>0, <1>1, <1>3 DEF AwayOK
<1>10. PollsTold'
  BY <1>1 DEF DashInv, PollsTold
<1>11. importer = [k \in Kind |-> Idle] /\ page.dialog = None
  BY <1>0, <1>2 DEF AwayOK
<1>12. DialogsTold'
  BY <1>11, <1>0, <1>1 DEF DialogOK, Idle, DialogsTold
<1>13. ListTold'
  BY <1>1, NearSame, <1>5 DEF Unsettled, DashInv, ListTold
<1> QED BY <1>7, <1>8, <1>9, <1>10, <1>12, <1>13 DEF DashInv


\* A request that is added makes no second project of one id; what waits for an import
\* is left alone.
LEMMA CallAsked ==
    ASSUME DashInv, NEW c, DashCallOK(c), c.op # "import", dashCalls' = dashCalls \cup {c},
           UNCHANGED <<catalog, imports, importJobs, overtaken, missed, shutAcross, belated, importer, report>>, downloads' \subseteq downloads,
           Making(c) => catalog[c.project].status = "free" /\ \A d \in dashCalls : d.project # c.project,
           page'.at = page.at, page'.dialog = page.dialog \/ (page.dialog \notin Kind /\ page.at = "dashboard")
    PROVE  /\ DashServer' /\ AwayOK' /\ MadeOnce' /\ PollsTold' /\ DialogsTold' /\ SeenTold'
           /\ \A rows : NearList(rows) => NearList(rows)'
  BY StillServer, NearExcused DEF DashInv, PollsTold, AwayOK, MadeOnce, Making, SeenTold, DialogOK,
     DialogsTold, Excused

\* So is a request that changes nothing of what is shown.
LEMMA CallPlain ==
    ASSUME DashInv, NEW op \in {"create", "drop", "seen"}, NEW p \in Project, NEW name \in Names,
           NEW kind \in Kind \cup {None}, AddCall(op, p, name, kind),
           UNCHANGED <<catalog, imports, importJobs, overtaken, missed, shutAcross, belated, importer, downloads, report, page, listed>>,
           op = "create" => p \in FreeProject
    PROVE  DashInv'
<1>1. PICK c : c = NewCall(op, p, name, kind)
  OBVIOUS
<1>2. listed \in DashLists /\ op \in DashOp
  BY DEF DashInv, DashTypes, DashOp
<1>3. c \in DashCallRows /\ c.op = op /\ c.project = p /\ c.kind = kind /\ c.at = "asked"
  BY <1>1, <1>2, DashCallMade
<1>4. DashCallOK(c)
  BY <1>3 DEF DashCallOK
<1>5. dashCalls' = dashCalls \cup {c}
  BY <1>1 DEF AddCall
<1>6. Making(c) => catalog[c.project].status = "free" /\ \A d \in dashCalls : d.project # c.project
  BY <1>3 DEF Making, FreeProject
<1>7. /\ DashServer' /\ AwayOK' /\ MadeOnce' /\ PollsTold' /\ DialogsTold' /\ SeenTold'
      /\ \A rows : NearList(rows) => NearList(rows)'
  BY <1>3, <1>4, <1>5, <1>6, CallAsked
<1>8. DashTypes'
  BY <1>4, <1>5 DEF DashInv, DashTypes, DashCallOK
<1>9. ListTold'
  BY <1>5, <1>7, ListKept
<1> QED BY <1>7, <1>8, <1>9 DEF DashInv

\* A download, a project made, an import's leftover dropped, a report dismissed.
LEMMA PlainAsks == ASSUME DashInv, useDownloadProject \/ CreateProjectDialog \/ onDeleteEmpty \/ CompatNotice PROVE DashInv'
<1>0. None \in Names /\ Title \subseteq Names /\ None \in Kind \cup {None} /\ Kind \subseteq Kind \cup {None}
  BY DEF Names
<1>1. CASE useDownloadProject
  BY <1>1, StillServer, StillCalls, StillSeen, StillList DEF useDownloadProject, Visible,
     visibleProjects, DashInv, DashTypes, DashLists, Tables, serverVars, ghostVars, DashCallOK, AwayOK,
     PollsTold, DialogsTold
<1>2. CASE CreateProjectDialog
  BY <1>2, <1>0, CallPlain DEF CreateProjectDialog, FreeProject, serverVars, ghostVars
<1>3. CASE onDeleteEmpty
  BY <1>3, <1>0, CallPlain DEF onDeleteEmpty, DashInv, DashTypes, ImporterRows, serverVars, ghostVars
<1>4. CASE CompatNotice
  BY <1>4, <1>0, CallPlain DEF CompatNotice, serverVars, ghostVars
<1> QED BY <1>1, <1>2, <1>3, <1>4

\* A project is renamed, deleted or left: the list shows it at once.
LEMMA ChangeAsked ==
    ASSUME DashInv, NEW op \in ChangeOp, NEW name \in Names, NEW next, Mutate(op, name, next), page.dialog = op,
           next = page \/ next = closeDialog(page)
    PROVE  DashInv'
<1>0. /\ page \in DashPages /\ listed \in DashLists /\ (page.dialog \in ChangeOp <=> page.project # None)
      /\ AwayOK /\ op \in DashOp /\ None \in Kind \cup {None}
  BY DEF DashInv, DashTypes, DashOp
<1>1. page.project \in Project /\ page.at = "dashboard" /\ page.dialog \notin Kind
  BY <1>0 DEF DashPages, AwayOK, ChangeOp, Kind, None
<1>2. PICK c : c = NewCall(op, page.project, name, None)
  OBVIOUS
<1>3. c \in DashCallRows /\ c.op = op /\ c.project = page.project /\ c.name = name /\ c.at = "asked"
  BY <1>0, <1>1, <1>2, DashCallMade
<1>4. DashCallOK(c) /\ op \notin {"create", "import"}
  BY <1>3 DEF DashCallOK, ChangeOp
<1>5. /\ dashCalls' = dashCalls \cup {c}
      /\ listed' = [cancelQueries(listed) EXCEPT !.rows = optimistic(c), !.failed = FALSE]
      /\ page' = next /\ downloads' \subseteq downloads
      /\ UNCHANGED <<catalog, imports, importJobs, overtaken, missed, shutAcross, belated, importer, report>>
  BY <1>2 DEF Mutate, RowsDrawn, serverVars, ghostVars
<1>6. optimistic(c) \in Tables
  BY <1>0, <1>3 DEF DashLists, Tables, optimistic
<1>7. listed' = [at |-> "none", rows |-> optimistic(c), got |-> {}, known |-> listed.known, failed |-> FALSE]
  BY <1>0, <1>5 DEF cancelQueries, DashLists
<1>8. listed' \in DashLists
  BY <1>0, <1>6, <1>7 DEF Tables, DashLists
<1>9. page' = page \/ page' = [at |-> page.at, dialog |-> None, project |-> None, scope |-> page.scope]
  BY <1>0, <1>5 DEF closeDialog, setDialog, DashPages
<1>10. page' \in DashPages /\ (page'.dialog \in ChangeOp <=> page'.project # None) /\ page'.at = page.at
  BY <1>0, <1>9 DEF DashPages, ChangeOp, None
<1>11. DashServer' /\ AwayOK' /\ MadeOnce' /\ PollsTold' /\ DialogsTold' /\ SeenTold'
  BY <1>3, <1>4, <1>1, <1>5, <1>10, CallAsked DEF Making
<1>12. DashTypes'
  BY <1>4, <1>5, <1>8, <1>10 DEF DashInv, DashTypes, DashCallOK
<1>13. ListTold'
  BY <1>3, <1>5 DEF Unsettled, ListTold
<1> QED BY <1>11, <1>12, <1>13 DEF DashInv

\* The dialogs for it do so.
LEMMA ChangesAsk == ASSUME DashInv, RenameProjectDialog \/ DeleteProjectDialog PROVE DashInv'
  BY ChangeAsked DEF Names, RenameProjectDialog, ChangeOp, DeleteProjectDialog

\* An import is started from its dialog, in which none runs.
LEMMA ImportStarts == ASSUME DashInv, start PROVE DashInv'
<1>0. /\ listed \in DashLists /\ importer \in [Kind -> ImporterRows] /\ page \in DashPages /\ AwayOK
      /\ DialogsTold /\ "import" \in DashOp
  BY DEF DashInv, DashTypes, DashOp
<1>1. UNCHANGED <<catalog, imports, importJobs, overtaken, missed, shutAcross, belated, downloads, report, page, listed>>
  BY DEF start, serverVars, ghostVars
<1>2. PICK k \in Kind :
        /\ page.dialog = k /\ ~importBusy(k) /\ FreeProject # {}
        /\ importer' = [importer EXCEPT ![k].phase = "uploading", ![k].project = None]
        /\ AddCall("import", CHOOSE p \in FreeProject : TRUE, CHOOSE n \in Title : TRUE, k)
  BY DEF start
<1>3. PICK p : p = CHOOSE x \in FreeProject : TRUE
  OBVIOUS
<1>4. PICK name : name = CHOOSE n \in Title : TRUE
  OBVIOUS
<1>5. p \in FreeProject /\ p \in Project
  BY <1>2, <1>3 DEF FreeProject
<1>6. name \in Names /\ k \in Kind \cup {None}
  BY <1>4 DEF Names
<1>7. PICK c : c = NewCall("import", p, name, k)
  OBVIOUS
<1>8. c \in DashCallRows /\ c.op = "import" /\ c.project = p /\ c.kind = k /\ c.at = "asked" /\ c.shuts
  BY <1>0, <1>5, <1>6, <1>7, DashCallMade
<1>9. dashCalls' = dashCalls \cup {c}
  BY <1>2, <1>3, <1>4, <1>7 DEF AddCall
<1>10. DashCallOK(c)
  BY <1>8 DEF DashCallOK
<1>11. PICK i : i = [phase |-> "uploading", project |-> None, timer |-> importer[k].timer, polls |-> importer[k].polls]
  OBVIOUS
<1>12. importer' = [importer EXCEPT ![k] = i]
  <2>1. importer' = [importer EXCEPT ![k] = [importer[k] EXCEPT !.phase = "uploading", !.project = None]]
    BY <1>0, <1>2
  <2>2. importer[k] \in ImporterRows
    BY <1>0
  <2>3. PICK j : j = importer[k]
    OBVIOUS
  <2>4. i = [j EXCEPT !.phase = "uploading", !.project = None]
    <3>1. PICK h : h = [j EXCEPT !.phase = "uploading"]
      OBVIOUS
    <3>2. h = [phase |-> "uploading", project |-> j.project, timer |-> j.timer, polls |-> j.polls]
      BY <2>2, <2>3, <3>1 DEF ImporterRows
    <3>3. [h EXCEPT !.project = None] = [phase |-> "uploading", project |-> None, timer |-> j.timer, polls |-> j.polls]
      BY <3>2
    <3>4. [j EXCEPT !.phase = "uploading", !.project = None] = [h EXCEPT !.project = None]
      BY <3>1
    <3> QED BY <1>11, <2>3, <3>3, <3>4
  <2> QED BY <2>1, <2>3, <2>4
<1>13. i \in ImporterRows
  BY <1>0, <1>11 DEF ImporterRows, Phases
<1>14. importer' \in [Kind -> ImporterRows] /\ importer'[k] = i /\ \A j \in Kind : j # k => importer'[j] = importer[j]
  BY <1>0, <1>12, <1>13
<1>15. importer[k].phase \notin {"uploading", "processing"} /\ page.at = "dashboard"
  BY <1>0, <1>2 DEF importBusy, AwayOK, Kind, None
<1>16. DashServer'
  BY <1>1, StillServer
<1>17. DashTypes'
  BY <1>1, <1>9, <1>10, <1>14 DEF DashInv, DashTypes, DashCallOK
<1>18. AwayOK'
  BY <1>0, <1>1, <1>15 DEF AwayOK
<1>19. SeenTold'
  BY <1>1, <1>8, <1>9 DEF DashInv, SeenTold
<1>20. MadeOnce'
  BY <1>1, <1>5, <1>8, <1>9 DEF DashInv, MadeOnce, Making, FreeProject
<1>21. PollsTold'
  BY <1>1, <1>11, <1>14 DEF DashInv, PollsTold
<1>22. DialogsTold'
  BY <1>1, <1>0, <1>2, <1>11, <1>15, <1>14, <1>8, <1>9 DEF DialogsTold, DialogOK, DashInv, DashTypes,
     DashCallOK
<1>23. ListTold'
  BY <1>9, <1>14, <1>15, <1>1, NearExcused, ListKept DEF Excused
<1> QED BY <1>16, <1>17, <1>18, <1>19, <1>20, <1>21, <1>22, <1>23 DEF DashInv


\* A request that moves on is the same request, further on.
LEMMA CallMoves ==
    ASSUME DashInv, NEW c \in dashCalls, NEW at \in DashAt, Moved(c, at)
    PROVE  \E d \in DashCallRows :
              /\ dashCalls' = (dashCalls \ {c}) \cup {d}
              /\ d.op = c.op /\ d.project = c.project /\ d.kind = c.kind /\ d.at = at /\ (d.shuts <=> c.shuts)
<1>1. c \in DashCallRows
  BY DEF DashInv, DashTypes, DashCallOK
<1>2. PICK d : d = [c EXCEPT !.at = at]
  OBVIOUS
<1>3. d \in DashCallRows /\ d.op = c.op /\ d.project = c.project /\ d.kind = c.kind /\ d.at = at /\ d.shuts = c.shuts
  BY <1>1, <1>2, DashCallMoved
<1>4. dashCalls' = (dashCalls \ {c}) \cup {d}
  BY <1>2 DEF Moved
<1> QED BY <1>3, <1>4

\* It stays the only one that makes its project.
LEMMA OnlyOne ==
    ASSUME DashInv, NEW c \in dashCalls, NEW d, dashCalls' = (dashCalls \ {c}) \cup {d},
           d.op = c.op, d.project = c.project, Making(d) => Making(c)
    PROVE  \A e, f \in dashCalls' : Making(e) /\ Making(f) /\ e.project = f.project => e = f
  BY DEF DashInv, MadeOnce

\* A request other than an import that moves on disturbs no import.
LEMMA MovedOther ==
    ASSUME DashInv, NEW c \in dashCalls, NEW d \in DashCallRows, dashCalls' = (dashCalls \ {c}) \cup {d},
           d.op = c.op, d.project = c.project, d.kind = c.kind, c.op # "import",
           d.at \in {"settled", "kept"} => d.op \in ChangeOp, d.at # "staged",
           \A p \in Project : imports'[p].status = imports[p].status,
           UNCHANGED <<importer, page, shutAcross, report>>, downloads' \subseteq downloads, listed' = listed \/ listed' \in DashLists, missed' \in BOOLEAN, belated' \in BOOLEAN
    PROVE  /\ DashTypes' /\ AwayOK' /\ PollsTold' /\ DialogsTold'
           /\ \A p \in Project : Excused(p) => Excused(p)'
  BY DEF DashCallOK, DashInv, DashTypes, AwayOK, ImporterRows, ImportPolls, PollsTold, DialogOK,
     DialogsTold, Excused

\* What a request does to the catalog: a project that is not yet there stays so unless
\* it is the one the request makes, and a row that changes was there.
LEMMA RowsOfCall ==
    ASSUME DashServer, NEW c, DashCallOK(c), Granted(c)
    PROVE  /\ Rows(c) \in [Project -> ProjectRows]
           /\ \A p \in Project : p # c.project => Rows(c)[p] = catalog[p]
           /\ Rows(c)[c.project].status = "free" => catalog[c.project].status = "free"
           /\ c.op \in {"seen", "import"} => Rows(c) = catalog
           /\ c.op # "create" /\ Rows(c) # catalog => catalog[c.project].status = "live"
  BY DEF DashServer, DashCallOK, DashCallRows, Roles, Granted, Rows, get_owned_project,
     get_accessible_project, DashOp, ChangeOp, ProjectRows

\* Marking a report changes no import's standing.
LEMMA SeenOnly ==
    ASSUME DashServer, NEW c, DashCallOK(c)
    PROVE  /\ mark_report_seen(c) \in [Project -> ImportRows]
           /\ \A p \in Project : mark_report_seen(c)[p].status = imports[p].status
           /\ \A p \in Project : mark_report_seen(c)[p].seen => imports[p].seen \/ (c.op = "seen" /\ p = c.project)
  BY DEF DashServer, DashCallOK, DashCallRows, ImportRows, mark_report_seen

\* The server answers a request.
LEMMA ServerHandles == ASSUME DashInv, Handle PROVE DashInv'
<1>0. DashServer /\ MadeOnce /\ SeenTold /\ ListTold
  BY DEF DashInv
<1>1. UNCHANGED <<importJobs, overtaken, listed, page, importer, downloads, report, missed, shutAcross, belated>>
  BY DEF Handle, ghostVars
<1>2. PICK c \in dashCalls :
        /\ c.at = "asked" /\ c.op # "import" /\ Moved(c, IF Granted(c) THEN "done" ELSE "refused")
        /\ catalog' = (IF Granted(c) THEN Rows(c) ELSE catalog)
        /\ imports' = (IF Granted(c) THEN mark_report_seen(c) ELSE imports)
  BY DEF Handle
<1>3. DashCallOK(c) /\ c.project \in Project /\ c.op \in DashOp
  BY DEF DashInv, DashTypes, DashCallOK, DashCallRows
<1>4. PICK at \in {"done", "refused"} : at = IF Granted(c) THEN "done" ELSE "refused"
  OBVIOUS
<1>5. PICK d \in DashCallRows :
         /\ dashCalls' = (dashCalls \ {c}) \cup {d}
         /\ d.op = c.op /\ d.project = c.project /\ d.kind = c.kind /\ d.at = at /\ (d.shuts <=> c.shuts)
  BY <1>2, <1>4, CallMoves DEF DashAt
<1>6. ~Making(d)
  BY <1>4, <1>5 DEF Making
<1>7. /\ catalog' \in [Project -> ProjectRows]
      /\ \A p \in Project : p # c.project => catalog'[p] = catalog[p]
      /\ catalog'[c.project].status = "free" => catalog[c.project].status = "free"
      /\ c.op = "seen" \/ at = "refused" => catalog' = catalog
      /\ c.op # "create" /\ catalog' # catalog => catalog[c.project].status = "live"
  BY <1>0, <1>2, <1>3, <1>4, RowsOfCall DEF DashServer
<1>8. /\ imports' \in [Project -> ImportRows]
      /\ \A p \in Project : imports'[p].status = imports[p].status
      /\ \A p \in Project : imports'[p].seen => imports[p].seen \/ (c.op = "seen" /\ p = c.project)
  BY <1>0, <1>2, <1>3, SeenOnly DEF DashServer
<1>9. DashServer'
  BY <1>0, <1>1, <1>7, <1>8 DEF DashServer
<1>10. missed \in BOOLEAN /\ belated \in BOOLEAN
  BY DEF DashInv, DashTypes
<1>11. DashTypes' /\ AwayOK' /\ PollsTold' /\ DialogsTold' /\ \A p \in Project : Excused(p) => Excused(p)'
  BY <1>4, <1>5, <1>1, <1>2, <1>8, <1>10, MovedOther
<1>12. \A e, f \in dashCalls' : Making(e) /\ Making(f) /\ e.project = f.project => e = f
  BY <1>5, <1>6, OnlyOne
<1>13. MadeOnce'
  BY <1>5, <1>6, <1>0, <1>2, <1>7, <1>8, <1>1, <1>12 DEF DashInv, DashTypes, DashCallOK, DashCallRows,
     MadeOnce, Making, DashServer
<1>14. SeenTold'
  BY <1>0, <1>1, <1>5, <1>8 DEF SeenTold
<1>15. ListTold'
  <2>1. \A e : Unsettled(e)' <=> Unsettled(e)
    BY DEF Unsettled
  <2>2. CASE Unsettled(d)
    BY <1>5, <2>1, <2>2 DEF ListTold
  <2>3. CASE ~Unsettled(d)
    <3>1. catalog' = catalog
      BY <1>2, <1>3, <1>4, <1>5, <2>3, <1>7 DEF Unsettled, DashOp, ChangeOp
    <3>2. ~Unsettled(c)
      BY <1>2, <1>4, <1>5, <2>3 DEF Unsettled, ChangeOp
    <3>3. \A rows : NearList(rows) => NearList(rows)'
      BY <1>1, <1>8, <1>11, <3>1, NearExcused
    <3> QED BY <1>1, <1>5, <3>2, <3>3, ListKept
  <2> QED BY <2>2, <2>3
<1> QED BY <1>9, <1>11, <1>12, <1>13, <1>14, <1>15 DEF DashInv


\* A request is lost, or refused before it is handled.
LEMMA CallsFail == ASSUME DashInv, CallLost \/ _stage_upload PROVE DashInv'
<1>0. DashServer /\ MadeOnce /\ missed \in BOOLEAN /\ belated \in BOOLEAN
  BY DEF DashInv, DashTypes
<1>1. UNCHANGED <<catalog, imports, importJobs, overtaken, listed, page, importer, downloads, report, shutAcross, belated>>
  BY DEF CallLost, _stage_upload, serverVars, ghostVars
<1>2. PICK c \in dashCalls :
        /\ Moved(c, "refused") /\ c.at \in {"asked", "done"}
        /\ c.op = "import" => c.at = "asked" /\ missed' = missed
        /\ c.op # "import" => missed' = (missed \/ (c.at = "done" /\ c.op \in {"create", "drop"}))
  BY DEF CallLost, _stage_upload, ghostVars
<1>3. PICK d \in DashCallRows :
         /\ dashCalls' = (dashCalls \ {c}) \cup {d}
         /\ d.op = c.op /\ d.project = c.project /\ d.kind = c.kind /\ d.at = "refused" /\ (d.shuts <=> c.shuts)
  BY <1>2, CallMoves DEF DashAt
<1>4. ~Making(d) /\ missed' \in BOOLEAN /\ (missed => missed')
  BY <1>3, <1>2, <1>0 DEF Making
<1>5. DashServer' /\ SeenTold'
  BY <1>1, <1>3, StillServer DEF DashInv, SeenTold
<1>6. \A e, f \in dashCalls' : Making(e) /\ Making(f) /\ e.project = f.project => e = f
  BY <1>3, <1>4, OnlyOne
<1>7. MadeOnce'
  BY <1>3, <1>4, <1>0, <1>1, <1>6 DEF Making, MadeOnce
<1>8. DashTypes' /\ AwayOK' /\ PollsTold' /\ DialogsTold' /\ \A p \in Project : Excused(p) => Excused(p)'
  BY <1>0, <1>1, <1>3, <1>4, MovedOther, <1>2 DEF DashInv, DashTypes, DashCallOK, AwayOK, PollsTold,
     Excused, DialogsTold
<1>9. ListTold'
  BY <1>3, <1>2, <1>1, <1>8, NearExcused, <1>4, ListKept DEF Unsettled, ListTold, ChangeOp
<1> QED BY <1>5, <1>6, <1>7, <1>8, <1>9 DEF DashInv

\* An upload is stored and its job queued.
LEMMA ImportQueued == ASSUME DashInv, _create_import PROVE DashInv'
<1>0. DashServer /\ MadeOnce /\ missed \in BOOLEAN /\ belated \in BOOLEAN
  BY DEF DashInv, DashTypes
<1>1. UNCHANGED <<catalog, imports, overtaken, listed, page, importer, downloads, report, missed, shutAcross, belated>>
  BY DEF _create_import, ghostVars
<1>2. PICK c \in dashCalls :
        c.at = "asked" /\ c.op = "import" /\ Moved(c, "staged") /\ importJobs' = importJobs \cup {c.project}
  BY DEF _create_import
<1>3. PICK d \in DashCallRows :
         /\ dashCalls' = (dashCalls \ {c}) \cup {d}
         /\ d.op = c.op /\ d.project = c.project /\ d.kind = c.kind /\ d.at = "staged" /\ (d.shuts <=> c.shuts)
  BY <1>2, CallMoves DEF DashAt
<1>4. Making(c) /\ Making(d) /\ DashCallOK(c) /\ c.project \in Project
  BY <1>2, <1>3 DEF Making, DashInv, DashTypes, DashCallOK, DashCallRows
<1>5. DashServer' /\ SeenTold'
  BY <1>0, <1>1, <1>2, <1>3, <1>4 DEF DashInv, DashServer, SeenTold
<1>6. \A e, f \in dashCalls' : Making(e) /\ Making(f) /\ e.project = f.project => e = f
  BY <1>3, <1>4, OnlyOne
<1>7. MadeOnce'
  BY <1>0, <1>4, <1>3, <1>1, <1>2, <1>6 DEF MadeOnce, Making
<1>8. DashTypes'
  BY <1>2, <1>3, <1>4, <1>0, <1>1 DEF DashCallOK, DashInv, DashTypes
<1>9. AwayOK' /\ PollsTold' /\ \A p \in Project : Excused(p) => Excused(p)'
  BY <1>1, <1>2, <1>3 DEF DashInv, AwayOK, PollsTold, Excused
<1>10. DialogsTold'
  BY <1>1, <1>3 DEF DashInv, DialogsTold
<1>11. ListTold'
  BY <1>2, <1>1, <1>9, NearExcused, <1>3, ListKept DEF Unsettled, ChangeOp
<1> QED BY <1>5, <1>6, <1>7, <1>8, <1>9, <1>10, <1>11 DEF DashInv

\* The project of an import and its row are there.
LEMMA ImportCommitted == ASSUME DashInv, import_project PROVE DashInv'
<1>0. /\ catalog \in [Project -> ProjectRows] /\ imports \in [Project -> ImportRows] /\ importJobs \subseteq Project
      /\ MadeOnce /\ importer \in [Kind -> ImporterRows]
  BY DEF DashInv, DashServer, DashTypes
<1>1. UNCHANGED <<importJobs, overtaken, listed, page, importer, downloads, report, missed, shutAcross, belated>>
  BY DEF import_project, ghostVars
<1>2. PICK c \in dashCalls :
        /\ c.at = "staged" /\ Moved(c, "done")
        /\ catalog' = [catalog EXCEPT ![c.project] = [status |-> "live", name |-> c.name, role |-> "owner"]]
        /\ imports' = [imports EXCEPT ![c.project] = [status |-> "queued", source |-> c.kind, seen |-> FALSE]]
  BY DEF import_project
<1>3. PICK d \in DashCallRows :
         /\ dashCalls' = (dashCalls \ {c}) \cup {d}
         /\ d.op = c.op /\ d.project = c.project /\ d.kind = c.kind /\ d.at = "done" /\ (d.shuts <=> c.shuts)
  BY <1>2, CallMoves DEF DashAt
<1>4. DashCallOK(c) /\ c.op = "import" /\ c.project \in Project /\ c.name \in Names /\ c.kind \in Kind /\ Making(c) /\ ~Making(d)
  BY <1>2, <1>3 DEF DashInv, DashTypes, Making, DashCallOK, DashCallRows
<1>5. PICK row : row = [status |-> "live", name |-> c.name, role |-> "owner"]
  OBVIOUS
<1>6. PICK made : made = [status |-> "queued", source |-> c.kind, seen |-> FALSE]
  OBVIOUS
<1>7. row \in ProjectRows /\ made \in ImportRows /\ row.status = "live" /\ made.status = "queued" /\ ~made.seen
  BY <1>4, <1>5, <1>6 DEF ProjectRows, ImportRows, Roles, Standing
<1>8. /\ catalog' \in [Project -> ProjectRows] /\ catalog'[c.project] = row
      /\ \A p \in Project : p # c.project => catalog'[p] = catalog[p]
  BY <1>0, <1>2, <1>4, <1>5, <1>7
<1>9. /\ imports' \in [Project -> ImportRows] /\ imports'[c.project] = made
      /\ \A p \in Project : p # c.project => imports'[p] = imports[p]
  BY <1>0, <1>2, <1>4, <1>6, <1>7
<1>10. catalog[c.project].status = "free" /\ imports[c.project].status = "none"
  BY <1>0, <1>4 DEF MadeOnce
<1>11. DashServer'
  BY <1>1, <1>8, <1>9 DEF DashInv, DashServer
<1>12. \A e, f \in dashCalls' : Making(e) /\ Making(f) /\ e.project = f.project => e = f
  BY <1>3, <1>4, OnlyOne
<1>13. MadeOnce'
  BY <1>3, <1>4, <1>0, <1>8, <1>7, <1>9, <1>1, <1>12 DEF DashInv, DashTypes, DashCallOK, DashCallRows,
     MadeOnce, Making
<1>14. DashTypes'
  BY <1>3, <1>4, <1>1 DEF DashCallOK, DashInv, DashTypes
<1>15. AwayOK'
  BY <1>1, <1>3 DEF DashInv, AwayOK
<1>16. PollsTold'
  BY <1>1, <1>0, <1>10, <1>9 DEF PollsTold, DashInv, ImporterRows, ImportPolls, TERMINAL
<1>17. DialogsTold'
  BY <1>1, <1>0, <1>9, <1>10, <1>3 DEF DialogsTold, DashInv, ImporterRows, DialogOK, TERMINAL, Kept
<1>18. SeenTold'
  BY <1>7, <1>9, <1>1, <1>3 DEF DashInv, SeenTold
<1>19. ListTold'
  BY <1>4, <1>2, <1>10, <1>8, <1>1, <1>3, <1>7, <1>9, ListKept DEF Unsettled, ChangeOp,
     get_accessible_project, list_projects, Excused, DashInv, DashTypes, NearList
<1> QED BY <1>11, <1>12, <1>13, <1>14, <1>15, <1>16, <1>17, <1>18, <1>19 DEF DashInv


\* An import that is queued or runs moves on: what is said of its end is still to come.
LEMMA ImportSettles ==
    ASSUME DashInv, NEW p \in Project, NEW status \in {"running", "success", "failure", "error"}, settle(p, status),
           imports[p].status \in {"queued", "running"}, importJobs' \subseteq importJobs, p \notin importJobs',
           UNCHANGED <<catalog, overtaken, dashCalls, listed, page, importer, downloads, report, missed, shutAcross, belated>>
    PROVE  DashInv'
<1>0. /\ catalog \in [Project -> ProjectRows] /\ imports \in [Project -> ImportRows] /\ importJobs \subseteq Project
      /\ MadeOnce /\ importer \in [Kind -> ImporterRows]
  BY DEF DashInv, DashServer, DashTypes
<1>1. PICK row : row = [imports[p] EXCEPT !.status = status]
  OBVIOUS
<1>2. row = [status |-> status, source |-> imports[p].source, seen |-> imports[p].seen]
  BY <1>0, <1>1 DEF ImportRows
<1>3. row \in ImportRows /\ row.status = status /\ row.seen = imports[p].seen
  BY <1>0, <1>2 DEF ImportRows, Standing, TERMINAL
<1>4. /\ imports' \in [Project -> ImportRows] /\ imports'[p] = row
      /\ \A x \in Project : x # p => imports'[x] = imports[x]
  BY <1>0, <1>1, <1>3 DEF settle
<1>5. DashServer'
  BY <1>4 DEF DashInv, DashServer
<1>6. DashTypes' /\ AwayOK'
  BY DEF DashInv, DashTypes, AwayOK, DashCallOK
<1>7. MadeOnce'
  BY <1>0, <1>4 DEF MadeOnce, Making
<1>8. PollsTold'
  BY <1>0, <1>4 DEF PollsTold, DashInv, ImporterRows, ImportPolls, TERMINAL
<1>9. DialogsTold'
  BY <1>0, <1>4 DEF DialogsTold, DashInv, ImporterRows, DialogOK, TERMINAL, Kept
<1>10. SeenTold'
  BY <1>3, <1>4 DEF DashInv, SeenTold
<1>11. ListTold'
  BY <1>3, <1>4, ListKept DEF list_projects, get_accessible_project, Excused, NearList, TERMINAL
<1> QED BY <1>5, <1>6, <1>7, <1>8, <1>9, <1>10, <1>11 DEF DashInv

\* The worker takes an import up, and ends it.
LEMMA WorkerMoves == ASSUME DashInv, _import_once \/ _run_archive PROVE DashInv'
  BY StillList, ImportSettles DEF DashInv, DashServer, _import_once, DashTypes, AwayOK, DashCallOK,
     SeenTold, PollsTold, MadeOnce, Making, DialogsTold, _run_archive, ghostVars

\* Somebody else deletes a project, or ends the person's part in it.
LEMMA OthersAct == ASSUME DashInv, OtherTab PROVE DashInv'
  BY DEF DashInv, DashServer, Roles, OtherTab, get_accessible_project, ProjectRows, DashTypes, AwayOK,
     DashCallOK, SeenTold, PollsTold, DialogsTold, DashCallRows, MadeOnce, Making, ListTold


\* A list that is told of a change tells nothing stale: it is fetched again, or what
\* was read of it was not told.
LEMMA Retold ==
    ASSUME NEW l \in DashLists, l.at = listed.at, l.known = listed.known, listed' = invalidate_projects(l),
           NothingHeard => missed', page'.at = "dashboard" => page.at = "dashboard"
    PROVE  ListTold' /\ listed' \in DashLists
  BY ListRefetched DEF NothingHeard, ListTold

\* A change of the list is over at the server: its list is put back or kept, and fetched again.
LEMMA ChangeSettles == ASSUME DashInv, onSettled PROVE DashInv'
<1>0. DashServer /\ MadeOnce /\ missed \in BOOLEAN /\ belated \in BOOLEAN /\ listed \in DashLists
  BY DEF DashInv, DashTypes
<1>1. UNCHANGED <<catalog, imports, importJobs, overtaken, page, importer, report, shutAcross, belated>> /\ downloads' \subseteq downloads
  BY DEF onSettled, RowsDrawn, serverVars
<1>2. PICK c \in dashCalls :
        /\ c.op \in ChangeOp /\ c.at \in {"done", "refused"}
        /\ Moved(c, IF c.at = "refused" /\ c.op = "rename" THEN "kept" ELSE "settled")
        /\ listed' = invalidate_projects(IF c.at = "refused" THEN [listed EXCEPT !.rows = c.previous, !.failed = FALSE] ELSE listed)
        /\ missed' = (missed \/ NothingHeard)
  BY DEF onSettled, ChangeOp
<1>3. PICK at \in {"kept", "settled"} : at = IF c.at = "refused" /\ c.op = "rename" THEN "kept" ELSE "settled"
  OBVIOUS
<1>4. PICK d \in DashCallRows :
         /\ dashCalls' = (dashCalls \ {c}) \cup {d}
         /\ d.op = c.op /\ d.project = c.project /\ d.kind = c.kind /\ d.at = at /\ (d.shuts <=> c.shuts)
  BY <1>2, <1>3, CallMoves DEF DashAt
<1>5. ~Making(d) /\ c.op # "import" /\ d.at # "staged"
  BY <1>2, <1>3, <1>4 DEF Making, ChangeOp
<1>6. missed' \in BOOLEAN /\ (NothingHeard => missed')
  <2>1. NothingHeard \in BOOLEAN
    BY DEF NothingHeard
  <2> QED BY <1>0, <1>2, <2>1
<1>7. ListTold' /\ listed' \in DashLists
  <2>1. PICK l : l = IF c.at = "refused" THEN [listed EXCEPT !.rows = c.previous, !.failed = FALSE] ELSE listed
    OBVIOUS
  <2>2. l \in DashLists /\ l.at = listed.at /\ l.known = listed.known
    <3>1. c.previous \in Tables
      BY DEF DashInv, DashTypes, DashCallOK, DashCallRows
    <3>2. CASE c.at = "refused"
      <4>1. l = [at |-> listed.at, rows |-> c.previous, got |-> listed.got, known |-> listed.known, failed |-> FALSE]
        BY <1>0, <2>1, <3>2 DEF DashLists
      <4> QED BY <1>0, <3>1, <4>1 DEF DashLists
    <3>3. CASE c.at # "refused"
      BY <1>0, <2>1, <3>3
    <3> QED BY <3>2, <3>3
  <2>3. listed' = invalidate_projects(l)
    BY <1>2, <2>1
  <2> QED BY <1>1, <1>6, <2>2, <2>3, Retold
<1>8. DashTypes' /\ AwayOK' /\ PollsTold' /\ DialogsTold'
  BY <1>0, <1>1, <1>2, <1>4, <1>5, <1>6, <1>7, MovedOther
<1>9. DashServer' /\ SeenTold'
  BY <1>1, <1>4, StillServer DEF DashInv, SeenTold
<1>10. \A e, f \in dashCalls' : Making(e) /\ Making(f) /\ e.project = f.project => e = f
  BY <1>4, <1>5, OnlyOne
<1>11. MadeOnce'
  <2>1. \A e \in dashCalls' : Making(e) => e \in dashCalls
    BY <1>4, <1>5
  <2>2. \A e : Making(e)' <=> Making(e)
    BY DEF Making
  <2> QED BY <1>0, <1>1, <1>10, <2>1, <2>2 DEF MadeOnce
<1> QED BY <1>7, <1>8, <1>9, <1>10, <1>11 DEF DashInv

\* A request other than an import is over.  It may close the dialog that is open by then.
LEMMA CallEnds ==
    ASSUME DashInv, NEW c \in dashCalls, c.op # "import", dashCalls' = dashCalls \ {c},
           (page' = page /\ shutAcross' = shutAcross) \/ (page' = Shut(c) /\ shutAcross' = Crossed(c)),
           UNCHANGED <<catalog, imports, importJobs, overtaken, importer, downloads>>,
           listed' \in DashLists, missed' \in BOOLEAN, belated' \in BOOLEAN,
           report' \in Reports, report'.at = report.at, report'.got = report.got
    PROVE  /\ DashServer' /\ DashTypes' /\ AwayOK' /\ MadeOnce' /\ PollsTold' /\ DialogsTold'
           /\ \A rows : NearList(rows) => NearList(rows)'
           /\ page'.at = page.at
<1>0. page \in DashPages /\ shutAcross \in BOOLEAN /\ (page.dialog \in ChangeOp <=> page.project # None)
  BY DEF DashInv, DashTypes
<1>1. CASE page' = page /\ shutAcross' = shutAcross
  BY <1>1, StillServer, NearExcused DEF DashInv, DashTypes, AwayOK, DialogsTold, DashCallOK, MadeOnce,
     Making, PollsTold, Excused
<1>2. CASE page' = Shut(c) /\ shutAcross' = Crossed(c)
  <2>1. page' = page \/ page' = [at |-> page.at, dialog |-> None, project |-> None, scope |-> page.scope]
    BY <1>0, <1>2 DEF Shut, closeDialog, setDialog, DashPages
  <2>2. page' \in DashPages /\ (page'.dialog \in ChangeOp <=> page'.project # None) /\ page'.at = page.at
        /\ (page'.dialog = page.dialog \/ page'.dialog = None)
    BY <1>0, <2>1 DEF DashPages, ChangeOp, None
  <2>3. shutAcross' \in BOOLEAN /\ (shutAcross => shutAcross')
    BY <1>0, <1>2 DEF importBusy, Crossed
  <2>4. DashTypes'
    BY <2>2, <2>3 DEF DashInv, DashTypes, DashCallOK
  <2>5. AwayOK'
    BY <2>2 DEF DashInv, AwayOK
  <2>6. DialogsTold'
    BY <1>0, <2>3, <1>2 DEF DialogsTold, DashInv, Shut, Crossed, DialogOK, importBusy
  <2>7. DashServer' /\ MadeOnce' /\ PollsTold'
    BY StillServer DEF DashInv, MadeOnce, Making, PollsTold
  <2>8. \A p \in Project : Excused(p) => Excused(p)'
    BY DEF Excused
  <2> QED BY <2>2, <2>3, <2>4, <2>5, <2>6, <2>7, <2>8, NearExcused
<1> QED BY <1>1, <1>2

\* A change of the list, and a project made or dropped, are over.
LEMMA ChangesEnd == ASSUME DashInv, mutateAsync \/ useCreateProject PROVE DashInv'
<1>0. missed \in BOOLEAN /\ belated \in BOOLEAN /\ listed \in DashLists /\ report \in Reports
  BY DEF DashInv, DashTypes
<1>1. UNCHANGED <<catalog, imports, importJobs, overtaken, importer, downloads, report, belated>>
  BY DEF mutateAsync, useCreateProject, serverVars
<1>2. CASE mutateAsync
  BY <1>2, <1>0, <1>1, CallEnds, ListKept DEF mutateAsync, DashInv, DashTypes, DashCallOK, ChangeOp,
     Unsettled, SeenTold
<1>3. CASE useCreateProject
  <2>1. PICK c \in dashCalls :
          /\ c.op \in {"create", "drop"} /\ c.at \in {"done", "refused"} /\ dashCalls' = dashCalls \ {c}
          /\ listed' = IF c.at = "done" THEN invalidate_projects(listed) ELSE listed
          /\ page' = IF (c.op = "create" /\ c.at = "done") \/ c.op = "drop" THEN Shut(c) ELSE page
          /\ shutAcross' = (IF (c.op = "create" /\ c.at = "done") \/ c.op = "drop" THEN Crossed(c) ELSE shutAcross)
          /\ missed' = (missed \/ NothingHeard)
    BY <1>3 DEF useCreateProject
  <2>2. missed' \in BOOLEAN /\ (missed => missed') /\ (NothingHeard => missed')
    BY <2>1, <1>0 DEF NothingHeard
  <2>3. c.op # "import" /\ c.op # "seen"
    BY <2>1
  <2>4. (page' = page /\ shutAcross' = shutAcross) \/ (page' = Shut(c) /\ shutAcross' = Crossed(c))
    BY <2>1
  <2>5. listed' \in DashLists
    BY <1>0, <2>1, ListRefetched
  <2>6. /\ DashServer' /\ DashTypes' /\ AwayOK' /\ MadeOnce' /\ PollsTold' /\ DialogsTold'
        /\ \A rows : NearList(rows) => NearList(rows)'
        /\ page'.at = page.at
    BY <1>0, <1>1, <2>1, <2>2, <2>3, <2>4, <2>5, CallEnds
  <2>7. SeenTold'
    BY <1>1, <2>1, <2>3 DEF DashInv, SeenTold
  <2>8. ListTold'
    BY <1>0, <2>1, <2>2, <2>6, Retold, ListKept DEF Unsettled, ChangeOp
  <2> QED BY <2>6, <2>7, <2>8 DEF DashInv
<1> QED BY <1>2, <1>3

\* The answer to a dismissal is cached.
LEMMA DismissEnds == ASSUME DashInv, ReportSeen PROVE DashInv'
<1>0. /\ missed \in BOOLEAN /\ belated \in BOOLEAN /\ listed \in DashLists /\ report \in Reports
      /\ imports \in [Project -> ImportRows]
  BY DEF DashInv, DashTypes, DashServer
<1>1. UNCHANGED <<catalog, imports, importJobs, overtaken, listed, page, importer, downloads, missed, shutAcross>>
  BY DEF ReportSeen, serverVars
<1>2. PICK c \in dashCalls :
        /\ c.op = "seen" /\ c.at \in {"done", "refused"} /\ dashCalls' = dashCalls \ {c} /\ report' = markSeen(c)
        /\ belated' = (belated \/ (c.at = "refused" /\ imports[c.project].seen))
  BY DEF ReportSeen
<1>3. c.project \in Project /\ c.op # "import" /\ ~Unsettled(c)
  BY <1>2 DEF DashInv, DashTypes, DashCallOK, DashCallRows, Unsettled, ChangeOp
<1>4. belated' \in BOOLEAN /\ (belated => belated') /\ (c.at = "refused" /\ imports[c.project].seen => belated')
  BY <1>0, <1>3, <1>2 DEF ImportRows
<1>5. /\ report' \in Reports /\ report'.at = report.at /\ report'.got = report.got
      /\ \A p \in Project : report'.cached[p] = "unseen" => report.cached[p] = "unseen" /\ (c.at = "done" => p # c.project)
  BY <1>2, <1>0, <1>3 DEF markSeen, Reports, Reported
<1>6. /\ DashServer' /\ DashTypes' /\ AwayOK' /\ MadeOnce' /\ PollsTold' /\ DialogsTold'
      /\ \A rows : NearList(rows) => NearList(rows)'
      /\ page'.at = page.at
  BY <1>0, <1>1, <1>2, <1>3, <1>4, <1>5, CallEnds
<1>7. ListTold'
  BY <1>1, <1>2, <1>3, <1>6, ListKept
<1>8. SeenTold'
  BY <1>1, <1>4, <1>5, <1>2 DEF SeenTold, DashInv
<1> QED BY <1>6, <1>7, <1>8 DEF DashInv


\* An upload is answered: its dialog polls, or has failed.
LEMMA UploadEnds == ASSUME DashInv, Uploaded PROVE DashInv'
<1>0. /\ missed \in BOOLEAN /\ importer \in [Kind -> ImporterRows] /\ page \in DashPages
      /\ \A e \in dashCalls : DashCallOK(e) /\ AwayOK
  BY DEF DashInv, DashTypes
<1>1. UNCHANGED <<catalog, imports, importJobs, overtaken, listed, page, downloads, report, shutAcross, belated>>
  BY DEF Uploaded, serverVars
<1>2. PICK c \in dashCalls : \E ok \in BOOLEAN :
        /\ c.op = "import" /\ c.at \in {"done", "refused"} /\ dashCalls' = dashCalls \ {c}
        /\ ok => c.at = "done"
        /\ missed' = (missed \/ (c.at = "done" /\ ~ok))
        /\ importer' =
              IF ~c.shuts THEN importer
              ELSE IF ok THEN [importer EXCEPT ![c.kind].phase = "processing", ![c.kind].project = c.project,
                                               ![c.kind].polls = @ \cup {[project |-> c.project, at |-> "asked", got |-> None]}]
              ELSE [importer EXCEPT ![c.kind].phase = "failed"]
  BY DEF Uploaded
<1>3. PICK ok \in BOOLEAN :
        /\ c.op = "import" /\ c.at \in {"done", "refused"} /\ dashCalls' = dashCalls \ {c}
        /\ ok => c.at = "done"
        /\ missed' = (missed \/ (c.at = "done" /\ ~ok))
        /\ importer' =
              IF ~c.shuts THEN importer
              ELSE IF ok THEN [importer EXCEPT ![c.kind].phase = "processing", ![c.kind].project = c.project,
                                               ![c.kind].polls = @ \cup {[project |-> c.project, at |-> "asked", got |-> None]}]
              ELSE [importer EXCEPT ![c.kind].phase = "failed"]
  BY <1>2
<1>4. c.kind \in Kind /\ c.project \in Project /\ c.project # None
  BY <1>0, <1>3, DashWords DEF DashCallOK, DashCallRows
<1>5. missed' \in BOOLEAN /\ (missed => missed') /\ (c.at = "done" /\ ~ok => missed')
  BY <1>3, <1>0
<1>6. PICK k \in Kind : k = c.kind
  BY <1>4
<1>7. importer[k] \in ImporterRows
  BY <1>0
<1>8. PICK q : q = [project |-> c.project, at |-> "asked", got |-> None]
  OBVIOUS
<1>9. q \in ImportPolls /\ q.project = c.project /\ q.at = "asked"
  BY <1>4, <1>8 DEF ImportPolls, Standing, None
<1>10. \/ ~c.shuts /\ importer' = importer
       \/ c.shuts /\ \E i \in ImporterRows :
             /\ importer' = [importer EXCEPT ![k] = i]
             /\ \/ ok /\ i.phase = "processing" /\ i.project = c.project /\ i.polls = importer[k].polls \cup {q}
                \/ ~ok /\ i.phase = "failed" /\ i.project = importer[k].project /\ i.polls = importer[k].polls
  <2>1. CASE ~c.shuts
    BY <1>3, <2>1
  <2>2. CASE c.shuts /\ ok
    <3>1. PICK S : S = importer[k].polls \cup {q}
      OBVIOUS
    <3>2. PICK i : i = [phase |-> "processing", project |-> c.project, timer |-> importer[k].timer, polls |-> S]
      OBVIOUS
    <3>3. i \in ImporterRows
      BY <1>4, <1>7, <1>9, <3>1, <3>2 DEF ImporterRows, Phases
    <3>4. importer' = [importer EXCEPT ![k].phase = "processing", ![k].project = c.project, ![k].polls = S]
      BY <1>3, <1>6, <1>8, <2>2, <3>1
    <3>5. PICK j : j = importer[k]
      OBVIOUS
    <3>6. importer' = [importer EXCEPT ![k] = [j EXCEPT !.phase = "processing", !.project = c.project, !.polls = S]]
      BY <1>0, <3>4, <3>5
    <3>7. PICK h : h = [j EXCEPT !.phase = "processing"]
      OBVIOUS
    <3>8. h = [phase |-> "processing", project |-> j.project, timer |-> j.timer, polls |-> j.polls]
      BY <1>7, <3>5, <3>7 DEF ImporterRows
    <3>9. PICK g : g = [h EXCEPT !.project = c.project]
      OBVIOUS
    <3>10. g = [phase |-> "processing", project |-> c.project, timer |-> j.timer, polls |-> j.polls]
      BY <3>8, <3>9
    <3>11. [g EXCEPT !.polls = S] = [phase |-> "processing", project |-> c.project, timer |-> j.timer, polls |-> S]
      BY <3>10
    <3>12. [j EXCEPT !.phase = "processing", !.project = c.project, !.polls = S] = [g EXCEPT !.polls = S]
      BY <3>7, <3>9
    <3>13. importer' = [importer EXCEPT ![k] = i]
      BY <3>2, <3>5, <3>6, <3>11, <3>12
    <3>14. i.phase = "processing" /\ i.project = c.project /\ i.polls = importer[k].polls \cup {q}
      BY <3>1, <3>2
    <3> QED BY <2>2, <3>3, <3>13, <3>14
  <2>3. CASE c.shuts /\ ~ok
    <3>1. PICK i : i = [importer[k] EXCEPT !.phase = "failed"]
      OBVIOUS
    <3>2. i = [phase |-> "failed", project |-> importer[k].project, timer |-> importer[k].timer, polls |-> importer[k].polls]
      BY <1>7, <3>1 DEF ImporterRows
    <3>3. i \in ImporterRows
      BY <1>7, <3>2 DEF ImporterRows, Phases
    <3>4. importer' = [importer EXCEPT ![k] = i]
      BY <1>3, <1>6, <2>3, <3>1
    <3> QED BY <2>3, <3>2, <3>3, <3>4
  <2> QED BY <2>1, <2>2, <2>3
<1>11. importer' \in [Kind -> ImporterRows] /\ \A x \in Kind : x # k => importer'[x] = importer[x]
  BY <1>0, <1>10
<1>12. DashServer' /\ MadeOnce' /\ SeenTold'
  BY <1>1, <1>3, StillServer DEF DashInv, MadeOnce, Making, SeenTold
<1>13. DashTypes'
  BY <1>1, <1>3, <1>5, <1>11 DEF DashInv, DashTypes, DashCallOK
<1>14. AwayOK'
  BY <1>0, <1>1, <1>3, <1>10 DEF AwayOK
<1>15. PollsTold'
  BY <1>0, <1>9, <1>10, <1>1 DEF DashInv, PollsTold
<1>16. ASSUME ~shutAcross
       PROVE  /\ c.shuts /\ importer[k].phase = "uploading" /\ importer[k].project = None /\ importer[k].polls = {}
              /\ \A e \in dashCalls' : e.op = "import" => e.kind \in Kind /\ e.kind # k
  BY <1>3, <1>6, <1>16, <1>0 DEF DashInv, DialogsTold, DashCallOK, DialogOK
<1>17. DialogsTold'
  <2> SUFFICES ASSUME ~shutAcross PROVE DialogsTold'
    BY <1>1 DEF DialogsTold
  <2>1. PICK i \in ImporterRows :
             /\ importer' = [importer EXCEPT ![k] = i]
             /\ \/ ok /\ i.phase = "processing" /\ i.project = c.project /\ i.polls = importer[k].polls \cup {q}
                \/ ~ok /\ i.phase = "failed" /\ i.project = importer[k].project /\ i.polls = importer[k].polls
    BY <1>10, <1>16
  <2>2. \/ i.phase = "processing" /\ i.project = c.project /\ i.polls = {q}
        \/ i.phase = "failed" /\ i.project = None /\ i.polls = {}
    BY <1>16, <2>1
  <2>3. \A x \in Kind : DialogOK(x, importer[x], page.dialog, imports)
    BY DEF DashInv, DialogsTold
  <2>4. DialogOK(k, i, page.dialog, imports)
    BY <1>4, <1>9, <1>16, <2>2, <2>3 DEF DialogOK
  <2>5. importer'[k] = i
    BY <1>0, <2>1
  <2>6. \A x \in Kind : DialogOK(x, importer'[x], page.dialog, imports)
    BY <1>11, <2>3, <2>4, <2>5
  <2>7. \A e \in dashCalls' : e.op = "import" => e.shuts /\ importer'[e.kind].phase = "uploading"
    BY <1>3, <1>11, <1>16 DEF DashInv, DialogsTold
  <2> QED BY <1>1, <1>3, <2>6, <2>7 DEF DashInv, DialogsTold
<1>18. ListTold'
  <2>1. CASE missed'
    BY <2>1 DEF ListTold
  <2>2. CASE ~missed'
    <3>1. c.at = "done" => ok
      BY <1>5, <2>2
    <3>2. ASSUME NEW p \in Project, ~shutAcross, Excused(p) PROVE Excused(p)'
      <4>1. PICK i \in ImporterRows :
             /\ importer' = [importer EXCEPT ![k] = i]
             /\ \/ ok /\ i.phase = "processing" /\ i.project = c.project /\ i.polls = importer[k].polls \cup {q}
                \/ ~ok /\ i.phase = "failed" /\ i.project = importer[k].project /\ i.polls = importer[k].polls
        BY <1>10, <1>16, <3>2
      <4>2. importer'[k] = i
        BY <1>0, <4>1
      <4>3. importer[k].phase = "uploading"
        BY <1>16, <3>2
      <4>4. ASSUME NEW e \in dashCalls, e.op = "import", e.project = p, e.at = "done" PROVE Excused(p)'
        BY <3>1, <4>1, <4>2, <4>4, <1>3 DEF Excused
      <4>5. ASSUME NEW x \in Kind, importer[x].project = p, importer[x].phase = "processing" PROVE Excused(p)'
        BY <1>11, <4>3, <4>5 DEF Excused
      <4> QED BY <3>2, <4>4, <4>5 DEF Excused
    <3>3. \A rows : NearList(rows) => NearList(rows)'
      BY <1>1, <3>2, NearExcused
    <3>4. ~Unsettled(c)
      BY <1>3 DEF Unsettled, ChangeOp
    <3> QED BY <1>1, <1>3, <1>5, <2>2, <3>3, <3>4, ListKept
  <2> QED BY <2>1, <2>2
<1> QED BY <1>12, <1>13, <1>14, <1>15, <1>17, <1>18 DEF DashInv

\* A poll that knows the end of an import says it in the dialog; one that does not waits.
LEMMA PollEnds ==
    ASSUME DashInv, NEW k \in Kind, NEW q \in importer[k].polls, q.at = "read",
           UNCHANGED <<catalog, imports, importJobs, overtaken, dashCalls, page, downloads, report, shutAcross, belated>>,
           missed' \in BOOLEAN, missed => missed',
           NEW i \in ImporterRows, importer' = [importer EXCEPT ![k] = i], i.project = importer[k].project,
           \/ /\ q.got \in TERMINAL /\ i.phase = (IF q.got \in Kept THEN "done" ELSE "failed")
              /\ i.polls = importer[k].polls \ {q}
              /\ listed' = IF q.got \in Kept THEN invalidate_projects(listed) ELSE listed
              /\ q.got \in Kept /\ NothingHeard => missed'
           \/ /\ i.phase = importer[k].phase /\ listed' = listed
              /\ \E r \in ImportPolls : r.at = "timer" /\ r.project = q.project /\ i.polls = (importer[k].polls \ {q}) \cup {r}
    PROVE  DashInv'
<1>0. /\ importer \in [Kind -> ImporterRows] /\ page \in DashPages /\ AwayOK /\ listed \in DashLists
      /\ \A e \in dashCalls : DashCallOK(e)
  BY DEF DashInv, DashTypes
<1>1. importer' \in [Kind -> ImporterRows] /\ importer'[k] = i /\ \A x \in Kind : x # k => importer'[x] = importer[x]
  BY <1>0
<1>2. DashServer' /\ MadeOnce' /\ SeenTold'
  BY StillServer DEF DashInv, MadeOnce, Making, SeenTold
<1>3. listed' \in DashLists
  BY <1>0, ListRefetched
<1>4. DashTypes'
  BY <1>1, <1>3 DEF DashInv, DashTypes, DashCallOK
<1>5. page.at = "dashboard" /\ AwayOK'
  BY <1>0 DEF AwayOK, Idle
<1>6. PollsTold'
  BY <1>1 DEF DashInv, PollsTold
<1>7. ASSUME ~shutAcross
      PROVE  /\ importer[k].phase = "processing" /\ importer[k].polls = {q} /\ q.project = importer[k].project
             /\ q.project \in Project /\ q.project # None /\ page.dialog = k
             /\ q.got \in TERMINAL => imports[q.project].status = q.got
  BY <1>0, <1>7, DashWords DEF DashInv, DialogsTold, ImporterRows, ImportPolls, DialogOK, PollsTold
<1>8. DialogsTold'
  BY <1>7, <1>1, <1>0 DEF DialogsTold, DashInv, DialogOK, DashCallOK
<1>9. ListTold'
  BY <1>0, Retold, <1>1, <1>7, ListKept DEF list_projects, get_accessible_project, Excused, NearList
<1> QED BY <1>2, <1>4, <1>5, <1>6, <1>8, <1>9 DEF DashInv


\* A page is left for a project's: what the dashboard ran is dropped, its requests go on.
LEMMA Navigated ==
    ASSUME DashInv, page.at = "dashboard", NEW p \in Project, navigate(p), dashCalls' = Unmounted(dashCalls),
           UNCHANGED <<catalog, imports, importJobs, overtaken, shutAcross, belated>>,
           missed' \in BOOLEAN, listed' \in DashLists,
           ~shutAcross => \A c \in dashCalls : c.op # "import"
    PROVE  /\ DashServer' /\ DashTypes' /\ AwayOK' /\ MadeOnce' /\ PollsTold' /\ DialogsTold' /\ SeenTold'
           /\ page'.at # "dashboard"
           /\ (\A c \in dashCalls' : ~Unsettled(c)) => \A c \in dashCalls : ~Unsettled(c)
<1>0. page \in DashPages /\ report \in Reports /\ shutAcross \in BOOLEAN /\ belated \in BOOLEAN
      /\ \A c \in dashCalls : DashCallOK(c)
  BY DEF DashInv, DashTypes
<1>1. page' = [at |-> p, dialog |-> None, project |-> None, scope |-> page.scope]
  BY <1>0 DEF navigate, closeDialog, setDialog, DashPages
<1>2. page' \in DashPages /\ page'.dialog = None /\ page'.project = None /\ page'.at # "dashboard"
  BY <1>0, <1>1, DashWords DEF DashPages
<1>3. importer' = [k \in Kind |-> Idle]
  BY DEF navigate
<1>4. importer' \in [Kind -> ImporterRows] /\ \A k \in Kind : importer'[k] = Idle
  BY <1>3 DEF Idle, ImporterRows, Phases
<1>5. report' \in Reports /\ report'.cached = report.cached /\ downloads' = {}
      /\ \A x \in Project : report'.at[x] = "read" => report'.got[x] # None
  BY <1>0 DEF navigate, useTemplateReport, Reports, DashInv, AwayOK
<1>6. \A e \in dashCalls' : \E c \in dashCalls :
         /\ e = [c EXCEPT !.shuts = FALSE] /\ DashCallOK(e) /\ ~e.shuts
         /\ e.op = c.op /\ e.project = c.project /\ e.at = c.at
  <2> SUFFICES ASSUME NEW e \in dashCalls'
               PROVE  \E c \in dashCalls : /\ e = [c EXCEPT !.shuts = FALSE] /\ DashCallOK(e) /\ ~e.shuts
                                           /\ e.op = c.op /\ e.project = c.project /\ e.at = c.at
    OBVIOUS
  <2>1. PICK c \in dashCalls : e = [c EXCEPT !.shuts = FALSE]
    BY DEF Unmounted
  <2>2. DashCallOK(c) /\ c \in DashCallRows
    BY <1>0 DEF DashCallOK
  <2>3. e = [op |-> c.op, project |-> c.project, name |-> c.name, kind |-> c.kind, at |-> c.at, shuts |-> FALSE, previous |-> c.previous]
    BY <2>1, <2>2 DEF DashCallRows
  <2>4. e \in DashCallRows
    BY <2>2, <2>3 DEF DashCallRows
  <2> QED BY <2>1, <2>2, <2>3, <2>4 DEF DashCallOK
<1>7. \A c \in dashCalls : \E e \in dashCalls' : e.op = c.op /\ e.project = c.project /\ e.at = c.at
  <2> SUFFICES ASSUME NEW c \in dashCalls PROVE \E e \in dashCalls' : e.op = c.op /\ e.project = c.project /\ e.at = c.at
    OBVIOUS
  <2>1. PICK e : e = [c EXCEPT !.shuts = FALSE]
    OBVIOUS
  <2>2. e \in dashCalls'
    BY <2>1 DEF Unmounted
  <2>3. c \in DashCallRows
    BY <1>0 DEF DashCallOK
  <2>4. e.op = c.op /\ e.project = c.project /\ e.at = c.at
    BY <2>1, <2>3 DEF DashCallRows
  <2> QED BY <2>2, <2>4
<1>8. DashServer'
  BY StillServer
<1>9. DashTypes'
  BY <1>0, <1>2, <1>4, <1>5, <1>6 DEF DashTypes, ChangeOp, None
<1>10. AwayOK'
  BY <1>2, <1>3, <1>5, <1>6 DEF AwayOK
<1>12. MadeOnce'
  <2>1. \A e \in dashCalls' : Making(e) => catalog[e.project].status = "free"
    BY <1>6 DEF DashInv, MadeOnce, Making
  <2>2. ASSUME NEW e \in dashCalls', NEW f \in dashCalls', Making(e), Making(f), e.project = f.project PROVE e = f
    <3>1. PICK c \in dashCalls : e = [c EXCEPT !.shuts = FALSE] /\ e.op = c.op /\ e.project = c.project /\ e.at = c.at
      BY <1>6
    <3>2. PICK d \in dashCalls : f = [d EXCEPT !.shuts = FALSE] /\ f.op = d.op /\ f.project = d.project /\ f.at = d.at
      BY <1>6
    <3>3. Making(c) /\ Making(d) /\ c.project = d.project
      BY <2>2, <3>1, <3>2 DEF Making
    <3>4. c = d
      BY <3>3 DEF DashInv, MadeOnce
    <3> QED BY <3>1, <3>2, <3>4
  <2>3. \A e : Making(e)' <=> Making(e)
    BY DEF Making
  <2> QED BY <2>1, <2>2, <2>3 DEF DashInv, MadeOnce
<1>13. PollsTold'
  BY <1>4 DEF PollsTold, Idle
<1>14. DialogsTold'
  BY <1>4, <1>6 DEF DialogOK, Idle, DialogsTold
<1>15. SeenTold'
  BY <1>5, <1>7 DEF SeenTold, DashInv
<1>16. (\A c \in dashCalls' : ~Unsettled(c)) => \A c \in dashCalls : ~Unsettled(c)
  BY <1>7 DEF Unsettled
<1> QED BY <1>2, <1>8, <1>9, <1>10, <1>12, <1>13, <1>14, <1>15, <1>16

\* A row of the list, or a template that is imported, opens its project.
LEMMA PagesOpen == ASSUME DashInv, openProject \/ ProjectIndex PROVE DashInv'
<1>0. /\ missed \in BOOLEAN /\ listed \in DashLists /\ importer \in [Kind -> ImporterRows] /\ AwayOK
      /\ \A c \in dashCalls : DashCallOK(c)
  BY DEF DashInv, DashTypes
<1>1. UNCHANGED <<catalog, imports, importJobs, overtaken, shutAcross, belated, missed, listed>>
      /\ dashCalls' = Unmounted(dashCalls)
  BY DEF openProject, ProjectIndex, serverVars, ghostVars
<1>2. /\ page.at = "dashboard" /\ \E p \in Project : navigate(p)
      /\ page.dialog = None \/ (page.dialog = "template" /\ importer["template"].phase = "done")
  BY <1>0 DEF openProject, ImporterRows, Kind, AwayOK, None, ProjectIndex, Visible, visibleProjects,
     DashLists, Tables
<1>3. PICK p \in Project : navigate(p)
  BY <1>2
<1>4. ASSUME ~shutAcross PROVE \A k \in Kind : importer[k].phase \notin {"uploading", "processing"}
  BY <1>4, <1>2 DEF DashInv, DialogsTold, DialogOK, Kind, None
<1>5. ASSUME ~shutAcross PROVE \A c \in dashCalls : c.op # "import"
  BY <1>0, <1>5, <1>4 DEF DashInv, DialogsTold, DashCallOK
<1>6. /\ DashServer' /\ DashTypes' /\ AwayOK' /\ MadeOnce' /\ PollsTold' /\ DialogsTold' /\ SeenTold'
      /\ page'.at # "dashboard"
      /\ (\A c \in dashCalls' : ~Unsettled(c)) => \A c \in dashCalls : ~Unsettled(c)
  BY <1>0, <1>1, <1>2, <1>3, <1>5, Navigated
<1>7. ListTold'
  BY <1>4, <1>5, <1>1, NearExcused, <1>6, ListKept DEF Excused
<1> QED BY <1>6, <1>7 DEF DashInv

\* What was polled is taken in.
LEMMA PollsEnd == ASSUME DashInv, poll PROVE DashInv'
<1>0. /\ missed \in BOOLEAN /\ listed \in DashLists /\ importer \in [Kind -> ImporterRows] /\ AwayOK
      /\ \A c \in dashCalls : DashCallOK(c)
  BY DEF DashInv, DashTypes
<1>1. UNCHANGED <<catalog, imports, importJobs, overtaken, shutAcross, belated>>
  BY DEF poll, serverVars
<1>2. PICK k \in Kind : \E q \in importer[k].polls :
        /\ q.at = "read"
        /\ IF q.got \in TERMINAL THEN terminal(k, q) ELSE tick(k, q)
        /\ missed' = (missed \/ (q.got \in Kept /\ NothingHeard))
  BY DEF poll
<1>3. PICK q \in importer[k].polls :
        /\ q.at = "read"
        /\ IF q.got \in TERMINAL THEN terminal(k, q) ELSE tick(k, q)
        /\ missed' = (missed \/ (q.got \in Kept /\ NothingHeard))
  BY <1>2
<1>4. importer[k] \in ImporterRows /\ q \in ImportPolls /\ q.project \in Project
  BY <1>0 DEF ImporterRows, ImportPolls
<1>5. missed' \in BOOLEAN /\ (missed => missed') /\ (q.got \in Kept /\ NothingHeard => missed')
  BY <1>3, <1>0 DEF NothingHeard
<1>6. page.at = "dashboard"
  BY <1>0 DEF AwayOK, Idle
<1>7. Kept \subseteq TERMINAL
  BY DEF Kept, TERMINAL
<1>8. CASE q.got \in Kept /\ k = "zip"
  <2>1. navigate(q.project) /\ dashCalls' = Unmounted(dashCalls) /\ listed' = invalidate_projects(listed)
    BY <1>3, <1>7, <1>8 DEF terminal
  <2>2. ASSUME ~shutAcross PROVE \A c \in dashCalls : c.op # "import"
    BY <2>2, <1>0 DEF DashInv, DialogsTold, DashCallOK, DialogOK
  <2>3. listed' \in DashLists
    BY <1>0, <2>1, ListRefetched
  <2>4. /\ DashServer' /\ DashTypes' /\ AwayOK' /\ MadeOnce' /\ PollsTold' /\ DialogsTold' /\ SeenTold'
        /\ page'.at # "dashboard"
    BY <1>1, <1>4, <1>5, <1>6, <2>1, <2>2, <2>3, Navigated
  <2>5. ListTold'
    BY <1>0, <1>5, <1>8, <2>1, <2>4, Retold
  <2> QED BY <2>4, <2>5 DEF DashInv
<1>9. CASE q.got \in TERMINAL /\ ~(q.got \in Kept /\ k = "zip")
  BY <1>3, <1>9, <1>0, <1>4, <1>1, <1>5, PollEnds DEF terminal, ImporterRows, Phases
<1>10. CASE q.got \notin TERMINAL
  <2>1. /\ importer' = [Ticking(k, q, [q EXCEPT !.at = "timer", !.got = None]) EXCEPT ![k].timer = q.project]
        /\ UNCHANGED <<dashCalls, listed, page, downloads, report>>
    BY <1>3, <1>10 DEF tick
  <2>2. PICK r : r = [q EXCEPT !.at = "timer", !.got = None]
    OBVIOUS
  <2>3. r = [project |-> q.project, at |-> "timer", got |-> None]
    BY <1>4, <2>2 DEF ImportPolls
  <2>4. r \in ImportPolls /\ r.at = "timer" /\ r.project = q.project
    BY <1>4, <2>3 DEF ImportPolls, Standing, None
  <2>5. PICK S : S = (importer[k].polls \ {q}) \cup {r}
    OBVIOUS
  <2>6. PICK j : j = importer[k]
    OBVIOUS
  <2>7. PICK h : h = [j EXCEPT !.polls = S]
    OBVIOUS
  <2>8. h = [phase |-> j.phase, project |-> j.project, timer |-> j.timer, polls |-> S]
    BY <1>4, <2>6, <2>7 DEF ImporterRows
  <2>9. PICK m : m = Ticking(k, q, r)
    OBVIOUS
  <2>10. m = [importer EXCEPT ![k] = h]
    BY <2>5, <2>6, <2>7, <2>9 DEF Ticking
  <2>11. PICK i : i = [h EXCEPT !.timer = q.project]
    OBVIOUS
  <2>12. i = [phase |-> j.phase, project |-> j.project, timer |-> q.project, polls |-> S]
    BY <2>8, <2>11
  <2>13. importer' = [m EXCEPT ![k].timer = q.project]
    BY <2>1, <2>2, <2>9
  <2>14. importer' = [importer EXCEPT ![k] = i]
    BY <1>0, <2>10, <2>11, <2>13
  <2>15. i \in ImporterRows
    BY <1>4, <2>4, <2>5, <2>6, <2>12 DEF ImporterRows
  <2>16. /\ i.phase = importer[k].phase /\ i.project = importer[k].project
         /\ i.polls = (importer[k].polls \ {q}) \cup {r}
    BY <2>5, <2>6, <2>12
  <2>17. \E t \in ImportPolls : t.at = "timer" /\ t.project = q.project /\ i.polls = (importer[k].polls \ {q}) \cup {t}
    BY <2>4, <2>16
  <2>18. UNCHANGED <<catalog, imports, importJobs, overtaken, dashCalls, page, downloads, report, shutAcross, belated>>
         /\ listed' = listed /\ q.at = "read" /\ i.phase = importer[k].phase /\ i.project = importer[k].project
    BY <1>1, <1>3, <2>1, <2>16
  <2> QED BY <1>5, <2>14, <2>15, <2>17, <2>18, PollEnds
<1> QED BY <1>7, <1>8, <1>9, <1>10


\* Every step of the dashboard, of the server, of the worker and of the others keeps this.
LEMMA DashKept == DashInv /\ [dashNext]_dashVars => DashInv'
<1> SUFFICES ASSUME DashInv, [dashNext]_dashVars PROVE DashInv'
  OBVIOUS
<1>1. CASE UNCHANGED dashVars
  BY <1>1, StillServer, StillCalls, StillSeen, StillList DEF dashVars, ghostVars, DashInv, DashTypes,
     AwayOK, PollsTold, DialogsTold, DashCallOK
<1>2. CASE PollStep
  BY <1>2, PollTicks, PollsEnd DEF PollStep
<1>3. CASE ServerStep
  BY <1>3, ServerHandles, ImportQueued, ImportCommitted, WorkerMoves DEF ServerStep
<1>4. CASE AnswerStep
  BY <1>4, ListMoves, ChangeSettles, ChangesEnd, UploadEnds, ReportMoves, DismissEnds DEF AnswerStep
<1>5. CASE _stage_upload \/ CallLost \/ ListFailed \/ ReportFailed \/ OtherTab \/ onRetry
  BY <1>5, CallsFail, OthersAct, ListMoves, ReportMoves
<1>6. CASE ProjectScopeControl \/ RowActionsMenu \/ ProjectsHeader \/ onOpenChange
  BY <1>6, PageMoves
<1>7. CASE useDownloadProject \/ CreateProjectDialog \/ onDeleteEmpty \/ CompatNotice
  BY <1>7, PlainAsks
<1>8. CASE RenameProjectDialog \/ DeleteProjectDialog \/ start
  BY <1>8, ChangesAsk, ImportStarts
<1>9. CASE openProject \/ ProjectIndex \/ ProjectsPage
  BY <1>9, PagesOpen, BackToList
<1> QED BY <1>1, <1>2, <1>3, <1>4, <1>5, <1>6, <1>7, <1>8, <1>9 DEF dashNext

\* Every variable has its type.
LEMMA DashTyped == DashInv => dashTypeOK
  BY DEF DashInv, DashServer, DashTypes, Reports, ProjectRows, Roles, ImportRows, Standing, Reported,
     DashLists, ChangeOp, AwayOK, ImporterRows, Phases, dashTypeOK

\* The list converges, the dialogs tell the truth and a dismissal holds.
LEMMA DashShows == DashInv => DashboardConverges /\ ImportOutcome /\ DismissHolds
  BY DEF DashInv, DashboardConverges, ListTold, NearList, Excused, importBusy, ImportOutcome,
     DialogsTold, DialogOK, SeenTold, DismissHolds

\* The pages around the dashboard leave its projects, its list and its imports alone.
THEOREM PagesDash == Spec => dashSpec
<1>1. Init => dashInit
  BY DEF Init
<1>2. [Next]_pageVars => [dashNext]_dashVars
  BY DEF Preview, Sharing, Board, Bell, Session, Account, pageVars, Next
<1> QED BY <1>1, <1>2, PTL DEF Spec, dashSpec

\* The dashboard's variables keep their types; once
\* every change is over the list shows the projects there are, but for those whose
\* import goes on or failed; an import's dialog says what became of its project; and a
\* report that was dismissed is not shown again (modules/projects/, imports/): for any
\* projects, changes, imports and faults.
THEOREM DashboardHolds == Spec => [](dashTypeOK /\ DashboardConverges /\ ImportOutcome /\ DismissHolds)
<1>1. dashInit => DashInv
  BY DashStart
<1>2. DashInv /\ [dashNext]_dashVars => DashInv'
  BY DashKept
<1>3. DashInv => dashTypeOK /\ DashboardConverges /\ ImportOutcome /\ DismissHolds
  BY DashTyped, DashShows
<1> QED BY <1>1, <1>2, <1>3, PagesDash, PTL DEF dashSpec

\* Every page's variables keep their types, whatever the pages' users do.
THEOREM PagesTyped == Spec => []PagesTypeOK
<1>1. shareTypeOK /\ sessionTypeOK /\ bellTypeOK /\ accountTypeOK /\ compileTypeOK /\ dashTypeOK => PagesTypeOK
  BY DEF PagesTypeOK
<1> QED BY <1>1, PagesShare, ShareTypes, PagesSessions, SessionTypes, BellHolds, AccountHolds, PreviewHolds, DashboardHolds, PTL

\* At rest every page shows what is so: the compile that is followed, its document and
\* problems; members, invites and addresses; the projects and what became of an import;
\* the inbox; the sign-in link; the account and its tokens. For any people, projects,
\* compiles, tabs, requests and faults, within what the assumptions of the pages allow.
THEOREM PagesAreTrue == Spec => PagesTrue
<1>1. Spec => [](Followed /\ DrawnAlive /\ OutputsOwn) /\ ZoomWins
  BY PreviewHolds, PTL
<1>2. Spec => [](DialogConverges /\ AddressWorks)
  BY PagesShare, DialogTrue, PTL
<1>3. Spec => [](DashboardConverges /\ ImportOutcome /\ DismissHolds)
  BY DashboardHolds, PTL
<1>4. Spec => [](BellListTrue /\ LinkTrue /\ AccountTrue /\ TokensTrue)
  BY PagesSessions, LinksTrue, BellHolds, AccountHolds, PTL
<1> QED BY <1>1, <1>2, <1>3, <1>4, PTL DEF PagesTrue
=============================================================================
