---------------------------- MODULE AccessProofs ----------------------------
(***************************************************************************)
(* Proofs about who has access.  Of ProjectSharing: its types, who keeps   *)
(* access, and that joining by a link lowers nobody, for any people, links *)
(* and requests, however their transactions interleave.  Of SessionTokens: *)
(* an ended session stays dead, the server revokes no session of a person  *)
(* who is signed in, a tab that shows a user has a token, and a sign-in    *)
(* link that worked is not called dead, for any tabs, requests, refreshes. *)
(***************************************************************************)
EXTENDS ProjectSharing, SessionTokens, FiniteSetTheorems, TLAPS

shareSpec == shareInit /\ [][shareNext]_shareVars

-----------------------------------------------------------------------------
(* The inductive invariant *)

MemberRole == LinkRole \cup {"owner"}
MemberRows == [role : MemberRole, status : {"none", "active", "left"},
               via : Link \cup {NoUser}, before : LinkRole \cup {NoUser}]
LinkRows == [role : LinkRole, state : {"none", "active", "revoked"}]
InviteRows == [status : {"none", "pending", "accepted", "revoked", "declined"}, role : LinkRole, token : 0 .. MaxTokens]
Begun(i) == (i.status = "none") = (i.token = 0)

\* The rows, and the uniqueness the database keeps.
RowInv ==
    /\ members \in [User -> MemberRows] /\ links \in [Link -> LinkRows] /\ invites \in [User -> InviteRows]
    /\ \A u \in User : Begun(invites[u])
    /\ owner_id \in User /\ given \in [User -> BOOLEAN] /\ raced \in BOOLEAN
    /\ Unique(members, links)

\* What a row m grants is in order, when the links are ls and g says that the
\* owner gave it by hand: a link it came from is on, by hand it is active, and a
\* link on top of it can be taken back; an owner owes nothing to a link.
Access(m, ls, g) ==
    /\ m.via # NoUser => m.status = "active" /\ ls[m.via].state = "active"
    /\ g => m.status = "active" /\ (m.via # NoUser => m.before # NoUser)
    /\ m.role = "owner" => m.status = "active" /\ m.via = NoUser
AccessInv == ~raced => \A u \in User : Access(members[u], links, given[u])

\* The rows of a plan are rows.
PlanRows(p) ==
    /\ DOMAIN p.members \subseteq User /\ \A u \in DOMAIN p.members : p.members[u] \in MemberRows
    /\ DOMAIN p.links \subseteq Link /\ \A l \in DOMAIN p.links : p.links[l] \in LinkRows
    /\ \A u \in DOMAIN p.invites : p.invites[u] \in InviteRows /\ Begun(p.invites[u]) /\ p.invites[u].status # "none"
    /\ DOMAIN p.hand \subseteq User /\ \A u \in DOMAIN p.hand : p.hand[u] \in BOOLEAN

\* A plan of what was read keeps what the rows grant in order.
RowAfter(new, old, x) == IF x \in DOMAIN new THEN new[x] ELSE old[x]
RowsAfter(new, old) == [x \in DOMAIN old |-> RowAfter(new, old, x)]
Keeps(p, ms, ls) ==
    \A u \in User, g \in BOOLEAN :
        Access(ms[u], ls, g)
            => Access(RowAfter(p.members, ms, u), RowsAfter(p.links, ls), IF u \in DOMAIN p.hand THEN p.hand[u] ELSE g)

\* A plan of what was read lowers nobody who stays.
Lifts(p, ms) ==
    \A u \in User : Active(ms[u]) /\ Active(RowAfter(p.members, ms, u)) => RANK(RowAfter(p.members, ms, u).role) >= RANK(ms[u].role)

UserOps == {"role", "remove", "transfer", "invite", "uninvite", "accept", "decline"}
LinkOps == {"link", "unlink", "join"}
Fields == {"op", "by", "user", "role", "link", "token", "mine", "at", "plan", "saw"}
Formed(c) ==
    /\ DOMAIN c = Fields
    /\ c.op \in UserOps \cup LinkOps /\ c.by \in User /\ c.role \in LinkRole
    /\ c.op \in UserOps => c.user \in User
    /\ c.op \in LinkOps => c.link \in Link
    /\ c.at \in {"asked", "read", "done", "refused"}

\* What a request has read is rows, its plan is made of them, and an invite that
\* was there then is there now.
Planned(c) ==
    /\ c.saw[1] \in [User -> MemberRows] /\ c.saw[2] \in [Link -> LinkRows] /\ c.saw[3] \in [User -> InviteRows]
    /\ \A u \in User : Begun(c.saw[3][u])
    /\ PlanRows(c.plan) /\ Keeps(c.plan, c.saw[1], c.saw[2])
    /\ c.op = "join" => Lifts(c.plan, c.saw[1])
    /\ c.op = "transfer" => c.plan.owner \in User
Older(c, is) == \A u \in User : c.saw[3][u].status # "none" => is[u].status # "none"
CallInv == \A c \in shareCalls : Formed(c) /\ (c.at = "read" => Planned(c) /\ Older(c, invites))

-----------------------------------------------------------------------------
(* The transactions *)

\* What a plan without rows of a kind leaves.
LEMMA NoRowsIs == DOMAIN NoRows = {}
BY DEF NoRows

\* The columns that differ, laid over a row of what was read, are the new row.
LEMMA ColumnsMakeRow ==
    ASSUME NEW m \in MemberRows, NEW n \in MemberRows
    PROVE  Overlay(ColumnsOf(m, n), m) = n
BY DEF Overlay, ColumnsOf, MemberRows

\* The same of a link.
LEMMA ColumnsMakeLink ==
    ASSUME NEW m \in LinkRows, NEW n \in LinkRows
    PROVE  Overlay(ColumnsOf(m, n), m) = n
BY DEF Overlay, ColumnsOf, LinkRows

\* Columns of rows over a row that changed meanwhile are a row.
LEMMA ColumnsKeepRow ==
    ASSUME NEW m \in MemberRows, NEW n \in MemberRows, NEW now \in MemberRows
    PROVE  Overlay(ColumnsOf(m, n), now) \in MemberRows
BY DEF Overlay, ColumnsOf, MemberRows

\* The same of a link.
LEMMA ColumnsKeepLink ==
    ASSUME NEW m \in LinkRows, NEW n \in LinkRows, NEW now \in LinkRows
    PROVE  Overlay(ColumnsOf(m, n), now) \in LinkRows
BY DEF Overlay, ColumnsOf, LinkRows

\* The same of an invite, which once sent stays so.
LEMMA ColumnsKeepInvite ==
    ASSUME NEW m \in InviteRows, NEW n \in InviteRows, NEW now \in InviteRows,
           Begun(m), Begun(n), Begun(now), n.status # "none", m.status # "none" => now.status # "none"
    PROVE  /\ Overlay(ColumnsOf(m, n), now) \in InviteRows
           /\ Begun(Overlay(ColumnsOf(m, n), now))
           /\ Overlay(ColumnsOf(m, n), now).status # "none"
  BY DEF Overlay, ColumnsOf, InviteRows, Begun

\* A plan that is sound for what was read.
Sound(p, c) ==
    /\ PlanRows(p) /\ Keeps(p, members, links)
    /\ c.op = "join" => Lifts(p, members)
    /\ c.op = "transfer" => p.owner \in User

\* Links that a plan does not touch are what they were.
LEMMA SameLinks == ASSUME RowInv PROVE RowsAfter(NoRows, links) = links
BY NoRowsIs DEF RowsAfter, RowAfter, RowInv

\* A plan of invites alone is sound.
LEMMA InvitesAlone ==
    ASSUME RowInv, NEW c, NEW i \in InviteRows, Begun(i), i.status # "none", NEW u, NEW o,
           c.op \notin {"join", "transfer"}
    PROVE  Sound(Plan(NoRows, NoRows, Row(u, i), o, NoRows), c)
  BY NoRowsIs, SameLinks DEF Row, Plan, PlanRows, Keeps, RowAfter, Sound

\* A plan of one membership, by hand or not, with an invite or not, is sound if
\* its row is in order after one that was.
LEMMA OneMember ==
    ASSUME RowInv, NEW c, NEW u \in User, NEW r \in MemberRows, NEW is, NEW o, NEW hand,
           \A x \in DOMAIN is : is[x] \in InviteRows /\ Begun(is[x]) /\ is[x].status # "none",
           DOMAIN hand \subseteq {u}, \A x \in DOMAIN hand : hand[x] \in BOOLEAN,
           \A g \in BOOLEAN : Access(members[u], links, g) => Access(r, links, IF u \in DOMAIN hand THEN hand[u] ELSE g),
           c.op = "join" => (Active(members[u]) /\ Active(r) => RANK(r.role) >= RANK(members[u].role)),
           c.op # "transfer"
    PROVE  Sound(Plan(Row(u, r), NoRows, is, o, hand), c)
  BY NoRowsIs, SameLinks DEF Row, Plan, PlanRows, Keeps, RowAfter, Lifts, RANK, Sound

\* One membership that is given or taken by hand.
LEMMA OneByHand ==
    ASSUME RowInv, NEW c, NEW u \in User, NEW r \in MemberRows, NEW is, NEW o, NEW h \in BOOLEAN,
           \A x \in DOMAIN is : is[x] \in InviteRows /\ Begun(is[x]) /\ is[x].status # "none",
           \A g \in BOOLEAN : Access(members[u], links, g) => Access(r, links, h),
           c.op \notin {"join", "transfer"}
    PROVE  Sound(Plan(Row(u, r), NoRows, is, o, Row(u, h)), c)
  BY OneMember DEF Row

\* One membership that is neither.
LEMMA OneElse ==
    ASSUME RowInv, NEW c, NEW u \in User, NEW r \in MemberRows, NEW o,
           \A g \in BOOLEAN : Access(members[u], links, g) => Access(r, links, g),
           c.op = "join" => (Active(members[u]) /\ Active(r) => RANK(r.role) >= RANK(members[u].role)),
           c.op # "transfer"
    PROVE  Sound(Plan(Row(u, r), NoRows, NoRows, o, NoRows), c)
  BY NoRowsIs, OneMember

\* A row detached from its link is a row, in order if it is active.
LEMMA Detached ==
    ASSUME NEW m \in MemberRows
    PROVE  /\ detach_from_link(m) \in MemberRows
           /\ detach_from_link(m).via = NoUser /\ detach_from_link(m).before = NoUser
           /\ detach_from_link(m).status = m.status /\ detach_from_link(m).role = m.role
BY DEF detach_from_link, MemberRows

\* A role changed by the owner.
LEMMA RolePlan ==
    ASSUME RowInv, NEW c, Formed(c), c.op = "role", change_role(c) # Refusal
    PROVE  Sound(change_role(c), c)
<1> DEFINE m == [members[c.user] EXCEPT !.role = c.role]
           r == detach_from_link(m)
<1>1. c.user \in User /\ c.role \in LinkRole /\ members[c.user] \in MemberRows
  BY DEF Formed, UserOps, RowInv
<1>2. change_role(c) = Plan(Row(c.user, r), NoRows, NoRows, owner_id, Row(c.user, TRUE)) /\ Active(members[c.user])
  BY DEF change_role
<1>3. m \in MemberRows /\ m.status = "active" /\ m.role = c.role
  BY <1>1, <1>2 DEF MemberRows, MemberRole, Active
<1> HIDE DEF m
<1>4. r \in MemberRows /\ r.via = NoUser /\ r.status = "active"
  BY <1>3, Detached
<1> HIDE DEF r
<1>5. \A g \in BOOLEAN : Access(members[c.user], links, g) => Access(r, links, TRUE)
  BY <1>4 DEF Access
<1>6. Sound(Plan(Row(c.user, r), NoRows, NoRows, owner_id, Row(c.user, TRUE)), c)
  BY <1>1, <1>4, <1>5, OneByHand, NoRowsIs
<1>7. change_role(c) = Plan(Row(c.user, r), NoRows, NoRows, owner_id, Row(c.user, TRUE))
  BY <1>2
<1> QED
  BY <1>6, <1>7

\* A member removed, or who leaves.
LEMMA RemovePlan ==
    ASSUME RowInv, NEW c, Formed(c), c.op = "remove", remove_member(c) # Refusal
    PROVE  Sound(remove_member(c), c)
<1> DEFINE m == [members[c.user] EXCEPT !.status = "left"]
           r == detach_from_link(m)
<1>1. c.user \in User /\ members[c.user] \in MemberRows
  BY DEF Formed, UserOps, RowInv
<1>2. /\ remove_member(c) = Plan(Row(c.user, r), NoRows, NoRows, owner_id, Row(c.user, FALSE))
      /\ members[c.user].role # "owner"
  BY DEF remove_member
<1>3. m \in MemberRows /\ m.role # "owner"
  BY <1>1, <1>2 DEF MemberRows
<1> HIDE DEF m
<1>4. r \in MemberRows /\ r.via = NoUser /\ r.role # "owner"
  BY <1>3, Detached
<1> HIDE DEF r
<1>5. \A g \in BOOLEAN : Access(members[c.user], links, g) => Access(r, links, FALSE)
  BY <1>4 DEF Access
<1>6. Sound(Plan(Row(c.user, r), NoRows, NoRows, owner_id, Row(c.user, FALSE)), c)
  BY <1>1, <1>4, <1>5, OneByHand, NoRowsIs
<1>7. remove_member(c) = Plan(Row(c.user, r), NoRows, NoRows, owner_id, Row(c.user, FALSE))
  BY <1>2
<1> QED
  BY <1>6, <1>7

\* Ownership handed over: two rows, both by hand.
LEMMA TransferPlan ==
    ASSUME RowInv, NEW c, Formed(c), c.op = "transfer", transfer_ownership(c) # Refusal
    PROVE  Sound(transfer_ownership(c), c)
<1> DEFINE a == [members[c.by] EXCEPT !.role = "editor"]
           b == [members[c.user] EXCEPT !.role = "owner"]
           ra == detach_from_link(a)
           rb == detach_from_link(b)
           ms == Overlay(Row(c.by, ra), Row(c.user, rb))
           hand == Overlay(Row(c.by, TRUE), Row(c.user, TRUE))
           p == Plan(ms, NoRows, NoRows, c.user, hand)
<1>1. c.user \in User /\ c.by \in User /\ members[c.user] \in MemberRows /\ members[c.by] \in MemberRows
  BY DEF Formed, UserOps, RowInv
<1>2. /\ transfer_ownership(c) = p
      /\ Active(members[c.user]) /\ Active(members[c.by]) /\ c.user # c.by
  BY DEF transfer_ownership, require_owner
<1>3. a \in MemberRows /\ a.status = "active" /\ a.role = "editor" /\ b \in MemberRows /\ b.status = "active" /\ b.role = "owner"
  BY <1>1, <1>2 DEF MemberRows, MemberRole, LinkRole, Active
<1> HIDE DEF a, b
<1>4. /\ ra \in MemberRows /\ ra.via = NoUser /\ ra.status = "active"
      /\ rb \in MemberRows /\ rb.via = NoUser /\ rb.status = "active"
  BY <1>3, Detached
<1> HIDE DEF ra, rb
<1>5. /\ DOMAIN ms = {c.by, c.user} /\ ms[c.by] = ra /\ ms[c.user] = rb
      /\ DOMAIN hand = {c.by, c.user} /\ hand[c.by] = TRUE /\ hand[c.user] = TRUE
  BY <1>2 DEF Row, Overlay
<1> HIDE DEF ms, hand
<1>6. p.members = ms /\ p.links = NoRows /\ p.invites = NoRows /\ p.hand = hand /\ p.owner = c.user
  BY DEF Plan
<1> HIDE DEF p
<1>7. PlanRows(p)
  BY <1>1, <1>4, <1>5, <1>6, NoRowsIs DEF PlanRows
<1>8. Keeps(p, members, links)
  BY <1>6, SameLinks, <1>4, <1>5 DEF Keeps, RowAfter, Access
<1> QED
  BY <1>1, <1>2, <1>6, <1>7, <1>8 DEF Sound

\* What a link that is turned off granted is taken back: nothing of it is left,
\* and what the owner gave by hand stays.
LEMMA TakenBackRows ==
    ASSUME RowInv, NEW ls \in SUBSET Link
    PROVE  /\ DOMAIN _take_back(ls) = {x \in User : members[x].via \in ls}
           /\ \A u \in DOMAIN _take_back(ls) :
                /\ _take_back(ls)[u] \in MemberRows
                /\ \A g \in BOOLEAN, any \in [Link -> LinkRows] :
                    Access(members[u], links, g) => Access(_take_back(ls)[u], any, g)
<1> DEFINE tb == _take_back(ls)
<1>1. /\ DOMAIN tb = {x \in User : members[x].via \in ls}
      /\ \A u \in DOMAIN tb : tb[u] = detach_from_link(Returned(members[u]))
  BY DEF _take_back
<1> HIDE DEF tb
<1>2. ASSUME NEW u \in DOMAIN tb
      PROVE  /\ tb[u] \in MemberRows
             /\ \A g \in BOOLEAN, any \in [Link -> LinkRows] : Access(members[u], links, g) => Access(tb[u], any, g)
  <2> DEFINE m == members[u]
             r == Returned(m)
  <2>1. m \in MemberRows /\ m.via # NoUser
    BY <1>1, SharingAssumption DEF RowInv
  <2> HIDE DEF m
  <2>2. r \in MemberRows
    BY <2>1 DEF Returned, MemberRows, MemberRole
  <2>3. tb[u] = detach_from_link(r)
    BY <1>1 DEF m
  <2>4. m.role # "owner" /\ m.before # NoUser => r.status = m.status /\ r.role = m.before
    BY <2>1 DEF Returned, MemberRows
  <2>5. m.role # "owner" /\ m.before = NoUser => r.status = "left" /\ r.role = m.role
    BY <2>1 DEF Returned, MemberRows
  <2>6. m.before \in LinkRole \cup {NoUser} /\ NoUser # "owner" /\ "owner" \notin LinkRole
    BY <2>1 DEF MemberRows, NoUser, LinkRole
  <2> HIDE DEF r
  <2>7. tb[u] \in MemberRows /\ tb[u].via = NoUser /\ tb[u].status = r.status /\ tb[u].role = r.role
    BY <2>2, <2>3, Detached
  <2>8. ASSUME NEW g \in BOOLEAN, NEW any \in [Link -> LinkRows], Access(m, links, g)
        PROVE  Access(tb[u], any, g)
    BY <2>1, <2>8, <2>4, <2>5, <2>6, <2>7 DEF Access
  <2> QED
    BY <2>7, <2>8 DEF m
<1> QED
  BY <1>1, <1>2 DEF tb

\* A plan that turns links off and takes back what they granted is sound.
LEMMA LinkPlan ==
    ASSUME RowInv, NEW c, c.op \notin {"join", "transfer"}, NEW off \in SUBSET Link, NEW ls, NEW o,
           DOMAIN ls \subseteq Link, \A l \in DOMAIN ls : ls[l] \in LinkRows,
           \A l \in Link \ off : l \in DOMAIN ls => ls[l].state = "active"
    PROVE  Sound(Plan(_take_back(off), ls, NoRows, o, NoRows), c)
<1> DEFINE tb == _take_back(off)
           p == Plan(tb, ls, NoRows, o, NoRows)
           new == RowsAfter(ls, links)
<1>1. /\ DOMAIN tb = {x \in User : members[x].via \in off}
      /\ \A u \in DOMAIN tb : tb[u] \in MemberRows
      /\ \A u \in DOMAIN tb : \A g \in BOOLEAN, any \in [Link -> LinkRows] :
            Access(members[u], links, g) => Access(tb[u], any, g)
  BY TakenBackRows
<1> HIDE DEF tb
<1>2. p.members = tb /\ p.links = ls /\ p.invites = NoRows /\ p.hand = NoRows
  BY DEF Plan
<1> HIDE DEF p
<1>3. links \in [Link -> LinkRows] /\ members \in [User -> MemberRows]
  BY DEF RowInv
<1>4. new \in [Link -> LinkRows]
  BY <1>3 DEF RowsAfter, RowAfter
<1>5. \A l \in Link \ off : links[l].state = "active" => new[l].state = "active"
  BY <1>3 DEF RowsAfter, RowAfter
<1> HIDE DEF new
<1>6. PlanRows(p)
  <2>1. DOMAIN p.members \subseteq User /\ \A x \in DOMAIN p.members : p.members[x] \in MemberRows
    BY <1>1, <1>2
  <2>2. DOMAIN p.links \subseteq Link /\ \A l \in DOMAIN p.links : p.links[l] \in LinkRows
    BY <1>2
  <2>3. DOMAIN p.hand = {} /\ DOMAIN p.invites = {}
    BY <1>2, NoRowsIs
  <2> QED
    BY <2>1, <2>2, <2>3 DEF PlanRows
<1>7. Keeps(p, members, links)
  <2> SUFFICES ASSUME NEW x \in User, NEW g \in BOOLEAN, Access(members[x], links, g)
               PROVE  Access(RowAfter(p.members, members, x), new, IF x \in DOMAIN p.hand THEN p.hand[x] ELSE g)
    BY <1>2 DEF Keeps, new
  <2>1. (IF x \in DOMAIN p.hand THEN p.hand[x] ELSE g) = g
    BY <1>2, NoRowsIs
  <2>2. CASE x \in DOMAIN tb
    BY <2>1, <2>2, <1>1, <1>2, <1>4 DEF RowAfter
  <2>3. CASE x \notin DOMAIN tb
    <3>1. RowAfter(p.members, members, x) = members[x]
      BY <2>3, <1>2 DEF RowAfter
    <3>2. members[x].via \in (Link \ off) \cup {NoUser}
      BY <2>3, <1>1, <1>3 DEF MemberRows
    <3>3. Access(members[x], new, g)
      BY <3>2, <1>5 DEF Access
    <3> QED
      BY <2>1, <3>1, <3>3
  <2> QED
    BY <2>2, <2>3
<1> QED
  BY <1>6, <1>7 DEF Sound, p, tb

\* A link turned on, in the place of the one there was for its role.
LEMMA CreateLinkPlan ==
    ASSUME RowInv, NEW c, Formed(c), c.op = "link", create_share_link(c) # Refusal
    PROVE  Sound(create_share_link(c), c)
<1> DEFINE old == _active_link_for_role(c.role)
           a == [l \in old |-> [links[l] EXCEPT !.state = "revoked"]]
           b == Row(c.link, [role |-> c.role, state |-> "active"])
           ls == Overlay(a, b)
<1>1. c.link \in Link /\ c.role \in LinkRole /\ links \in [Link -> LinkRows] /\ old \in SUBSET Link
  BY DEF Formed, LinkOps, RowInv, _active_link_for_role
<1>2. create_share_link(c) = Plan(_take_back(old), ls, NoRows, owner_id, NoRows)
  BY DEF create_share_link
<1> HIDE DEF old
<1>3. DOMAIN a = old /\ \A l \in old : a[l] \in LinkRows
  BY <1>1 DEF LinkRows
<1>4. DOMAIN b = {c.link} /\ b[c.link] \in LinkRows /\ b[c.link].state = "active"
  BY <1>1 DEF Row, LinkRows
<1> HIDE DEF a, b
<1>5. /\ DOMAIN ls \subseteq Link /\ \A l \in DOMAIN ls : ls[l] \in LinkRows
      /\ \A l \in Link \ old : l \in DOMAIN ls => ls[l].state = "active"
  BY <1>1, <1>3, <1>4 DEF Overlay
<1> HIDE DEF ls
<1>6. Sound(Plan(_take_back(old), ls, NoRows, owner_id, NoRows), c)
  BY <1>1, <1>5, LinkPlan
<1> QED
  BY <1>2, <1>6

\* A link turned off.
LEMMA RevokeLinkPlan ==
    ASSUME RowInv, NEW c, Formed(c), c.op = "unlink", revoke_share_link(c) # Refusal
    PROVE  Sound(revoke_share_link(c), c)
  BY LinkPlan DEF Formed, LinkOps, RowInv, revoke_share_link, Row, LinkRows

\* A link joined: a member's role is lifted or kept, a guest becomes a member.
LEMMA JoinPlan ==
    ASSUME RowInv, NEW c, Formed(c), c.op = "join", join_share_link(c) # Refusal
    PROVE  Sound(join_share_link(c), c)
<1> DEFINE m == members[c.by]
           r == IF Active(m) THEN _upgrade(m, c.link) ELSE _grant(c.link)
<1>1. c.by \in User /\ c.link \in Link /\ m \in MemberRows /\ links[c.link] \in LinkRows /\ c.link # NoUser
  BY SharingAssumption DEF Formed, LinkOps, RowInv
<1>2. join_share_link(c) = Plan(Row(c.by, r), NoRows, NoRows, owner_id, NoRows) /\ links[c.link].state = "active"
  BY DEF join_share_link
<1>3. links[c.link].role \in LinkRole /\ LinkRole \subseteq {"viewer", "editor"}
  BY <1>1 DEF LinkRows, LinkRole
<1>4. RANK(links[c.link].role) \in 1 .. 2 /\ RANK(m.role) \in 1 .. 3 /\ (m.role = "owner" => RANK(m.role) = 3)
  BY <1>3 DEF RANK
<1> DEFINE up == [m EXCEPT !.before = m.role, !.role = links[c.link].role, !.via = c.link]
           lifts == RANK(m.role) < RANK(links[c.link].role)
<1>5. Active(m) => r = IF lifts THEN up ELSE m
  BY <1>4 DEF _upgrade
<1>6. ~Active(m) => r = [role |-> links[c.link].role, status |-> "active", via |-> c.link, before |-> NoUser]
  BY DEF _grant
<1>7. lifts => m.role \in LinkRole
  BY <1>1, <1>4 DEF MemberRows, MemberRole
<1>8. lifts => /\ up \in MemberRows /\ up.before = m.role /\ up.role = links[c.link].role
               /\ up.via = c.link /\ up.status = m.status
  BY <1>1, <1>3, <1>7 DEF MemberRows, MemberRole
<1> HIDE DEF m, r, up
<1>9. r \in MemberRows
  <2>1. CASE Active(m)
    BY <2>1, <1>1, <1>5, <1>8
  <2>2. CASE ~Active(m)
    BY <2>2, <1>1, <1>3, <1>6 DEF MemberRows, MemberRole
  <2> QED
    BY <2>1, <2>2
<1>10. ASSUME NEW g \in BOOLEAN, Access(m, links, g) PROVE Access(r, links, g)
  <2>1. CASE Active(m) /\ lifts
    <3>1. r = up /\ up.status = "active" /\ up.role # "owner" /\ up.before # NoUser
      BY <2>1, <1>3, <1>5, <1>7, <1>8 DEF Active, LinkRole, NoUser
    <3> QED
      BY <3>1, <1>2, <1>8, <2>1 DEF Access
  <2>2. CASE Active(m) /\ ~lifts
    BY <2>2, <1>5, <1>10
  <2>3. CASE ~Active(m)
    <3>1. ~g
      BY <2>3, <1>10 DEF Access, Active
    <3>2. r.role # "owner" /\ r.status = "active" /\ r.via = c.link
      BY <2>3, <1>3, <1>6
    <3> QED
      BY <3>1, <3>2, <1>2 DEF Access
  <2> QED
    BY <2>1, <2>2, <2>3
<1>11. Active(m) => RANK(r.role) >= RANK(m.role)
  BY <1>4, <1>5, <1>8
<1>12. Sound(Plan(Row(c.by, r), NoRows, NoRows, owner_id, NoRows), c)
  BY <1>1, <1>9, <1>10, <1>11, OneElse DEF m
<1> QED
  BY <1>2, <1>12

\* An invite sent again, taken back, declined.
LEMMA InvitePlans ==
    ASSUME RowInv, NEW c, Formed(c)
    PROVE  /\ c.op = "invite" /\ create_invite(c) # Refusal => Sound(create_invite(c), c)
           /\ c.op = "uninvite" /\ revoke_invite(c) # Refusal => Sound(revoke_invite(c), c)
           /\ c.op = "decline" /\ decline_invite(c) # Refusal => Sound(decline_invite(c), c)
  BY SharingAssumption, InvitesAlone DEF Formed, UserOps, RowInv, InviteRows, create_invite, Begun,
     revoke_invite, Pending, decline_invite

\* An invite accepted: by hand, and free of links.
LEMMA AcceptPlan ==
    ASSUME RowInv, NEW c, Formed(c), c.op = "accept", accept_invite(c) # Refusal
    PROVE  Sound(accept_invite(c), c)
<1> DEFINE m == members[c.user]
           i == [invites[c.user] EXCEPT !.status = "accepted"]
           r == _grant_membership(c.user)
           m1 == [m EXCEPT !.role = invites[c.user].role, !.status = "active"]
<1>1. c.user \in User /\ m \in MemberRows /\ invites[c.user] \in InviteRows /\ Begun(invites[c.user])
  BY DEF Formed, UserOps, RowInv
<1>2. \/ accept_invite(c) = Plan(Row(c.user, m), NoRows, NoRows, owner_id, NoRows)
      \/ /\ accept_invite(c) = Plan(Row(c.user, r), NoRows, Row(c.user, i), owner_id, Row(c.user, TRUE))
         /\ invites[c.user].status = "pending"
  BY DEF accept_invite, Pending
<1>3. CASE accept_invite(c) = Plan(Row(c.user, m), NoRows, NoRows, owner_id, NoRows)
  BY <1>1, OneElse, <1>3
<1>4. CASE /\ accept_invite(c) = Plan(Row(c.user, r), NoRows, Row(c.user, i), owner_id, Row(c.user, TRUE))
           /\ invites[c.user].status = "pending"
  <2>1. i \in InviteRows /\ Begun(i) /\ i.status # "none"
    BY <1>1, <1>4 DEF InviteRows, Begun
  <2> HIDE DEF i
  <2>2. m1 \in MemberRows /\ m1.status = "active" /\ m1.role \in LinkRole
    BY <1>1 DEF InviteRows, MemberRows, MemberRole
  <2>3. r = IF m.role = "owner" THEN m ELSE detach_from_link(m1)
    BY DEF _grant_membership
  <2> HIDE DEF m1, m, r
  <2>4. r \in MemberRows
    BY <1>1, <2>2, <2>3, Detached
  <2>5. ASSUME NEW g \in BOOLEAN, Access(m, links, g) PROVE Access(r, links, TRUE)
    <3>1. CASE m.role = "owner"
      BY <3>1, <2>3, <2>5 DEF Access
    <3>2. CASE m.role # "owner"
      <4>1. r.via = NoUser /\ r.status = "active" /\ r.role \in LinkRole
        BY <3>2, <2>2, <2>3, Detached
      <4> QED
        BY <4>1 DEF Access
    <3> QED
      BY <3>1, <3>2
  <2>6. \A x \in DOMAIN Row(c.user, i) : Row(c.user, i)[x] = i
    BY DEF Row
  <2>7. Sound(Plan(Row(c.user, r), NoRows, Row(c.user, i), owner_id, Row(c.user, TRUE)), c)
    <3> DEFINE is == Row(c.user, i)
    <3>1. \A x \in DOMAIN is : is[x] \in InviteRows /\ Begun(is[x]) /\ is[x].status # "none"
      BY <2>1, <2>6
    <3> HIDE DEF is
    <3>2. \A g \in BOOLEAN : Access(members[c.user], links, g) => Access(r, links, TRUE)
      BY <2>5 DEF m
    <3>3. Sound(Plan(Row(c.user, r), NoRows, is, owner_id, Row(c.user, TRUE)), c)
      BY <1>1, <2>4, <3>1, <3>2, OneByHand
    <3> QED
      BY <3>3 DEF is
  <2> QED
    BY <1>4, <2>7 DEF i, r
<1> QED
  BY <1>2, <1>3, <1>4

\* Whatever a request decides is sound for what it read.
LEMMA Decided ==
    ASSUME RowInv, NEW c, Formed(c), Decide(c) # Refusal
    PROVE  Sound(Decide(c), c)
  BY RolePlan, RemovePlan, TransferPlan, CreateLinkPlan, RevokeLinkPlan, JoinPlan, InvitePlans,
     AcceptPlan DEF Formed, Decide, UserOps, LinkOps

-----------------------------------------------------------------------------
(* Reads and commits *)

\* The dialog's lists, its confirmation, the addresses and the others' page.
RowsOf(q) == IF q = "members" THEN User \X MemberRole \X BOOLEAN
             ELSE IF q = "invites" THEN User \X LinkRole ELSE Link \X LinkRole
Lists(q) == [at : {"none", "asked", "read", "failed"}, rows : SUBSET RowsOf(q), got : SUBSET RowsOf(q), known : BOOLEAN]
Confirms == {NoConfirm} \cup [op : {"transfer", "remove", "uninvite"}, user : User, link : {NoUser}, role : {"viewer"}]
            \cup [op : {"link"}, user : {NoUser}, link : {NoUser}, role : LinkRole]
Visits == {NoVisit}
         \cup [page : {"join"}, who : User, link : Link, role : LinkRole, has : MemberRole \cup {NoUser}, token : {0}]
         \cup [page : {"invite"}, who : User, link : {NoUser}, role : {"viewer"}, has : {NoUser}, token : 1 .. MaxTokens]
ListsOK(ls) ==
    /\ DOMAIN ls = Query
    /\ \A q \in Query : ls[q] \in Lists(q) /\ (ls[q].at # "read" => ls[q].got = {})
    /\ ls = [q \in Query |-> ls[q]]
ShareOK(s) == s \in [open : BOOLEAN, email : User \cup {NoUser}, confirm : Confirms, error : BOOLEAN, crossed : BOOLEAN]
UrlsOK(a) == a \in [LinkRole -> Link \cup {NoUser}]
DialogInv == ListsOK(lists) /\ ShareOK(share) /\ UrlsOK(urls) /\ visit \in Visits

ShareInv == RowInv /\ AccessInv /\ CallInv /\ DialogInv

\* A request that reads decides by what it read.
LEMMA ReadsStep ==
    ASSUME ShareInv, Reads
    PROVE  ShareInv'
<1> USE DEF ShareInv
<1>1. PICK c \in shareCalls : /\ c.at = "asked"
                              /\ Advance(c, IF Decide(c) = Refusal THEN [c EXCEPT !.at = "refused"]
                                            ELSE [c EXCEPT !.at = "read", !.plan = Decide(c), !.saw = <<members, links, invites>>])
                              /\ UNCHANGED <<accessVars, share, lists, urls, visit, elsewhere, shareLeft>>
  BY DEF Reads
<1>2. RowInv' /\ AccessInv' /\ DialogInv'
  BY <1>1 DEF accessVars, RowInv, AccessInv, DialogInv
<1>3. CallInv'
  <2> DEFINE d == IF Decide(c) = Refusal THEN [c EXCEPT !.at = "refused"]
                  ELSE [c EXCEPT !.at = "read", !.plan = Decide(c), !.saw = <<members, links, invites>>]
  <2>1. shareCalls' = (shareCalls \ {c}) \cup {d} /\ invites' = invites
    BY <1>1 DEF Advance, accessVars
  <2>2. Formed(c)
    BY DEF CallInv
  <2>3. CASE Decide(c) = Refusal
    BY <2>2, <2>3, <2>1 DEF Formed, Fields, CallInv
  <2>4. CASE Decide(c) # Refusal
    <3>1. d = [c EXCEPT !.at = "read", !.plan = Decide(c), !.saw = <<members, links, invites>>]
      BY <2>4
    <3> DEFINE p == Decide(c)
    <3> HIDE DEF d, p
    <3>2. /\ Formed(d) /\ d.op = c.op /\ d.plan = p
          /\ d.saw[1] = members /\ d.saw[2] = links /\ d.saw[3] = invites
      BY <2>2, <3>1 DEF Formed, Fields, p
    <3>3. Sound(p, c)
      BY <2>2, <2>4, Decided DEF p
    <3>4. Planned(d)
      BY <3>2, <3>3 DEF Planned, Sound, RowInv
    <3>5. Older(d, invites')
      BY <2>1, <3>2 DEF Older
    <3> QED
      BY <2>1, <3>2, <3>4, <3>5 DEF CallInv
  <2> QED
    BY <2>3, <2>4
<1> QED
  BY <1>2, <1>3

\* What a commit leaves in a table of rows: the planned ones, where nothing came
\* in between.
LEMMA WrittenMembers ==
    ASSUME NEW now \in [User -> MemberRows], NEW saw \in [User -> MemberRows], NEW rows,
           DOMAIN rows \subseteq User, \A u \in DOMAIN rows : rows[u] \in MemberRows
    PROVE  /\ WriteOver(now, saw, rows) \in [User -> MemberRows]
           /\ now = saw => \A u \in User : WriteOver(now, saw, rows)[u] = RowAfter(rows, now, u)
  BY ColumnsKeepRow, ColumnsMakeRow DEF WriteOver, RowAfter

\* The same of links.
LEMMA WrittenLinks ==
    ASSUME NEW now \in [Link -> LinkRows], NEW saw \in [Link -> LinkRows], NEW rows,
           DOMAIN rows \subseteq Link, \A l \in DOMAIN rows : rows[l] \in LinkRows
    PROVE  /\ WriteOver(now, saw, rows) \in [Link -> LinkRows]
           /\ now = saw => WriteOver(now, saw, rows) = RowsAfter(rows, now)
  BY ColumnsKeepLink, ColumnsMakeLink DEF WriteOver, RowAfter, RowsAfter

\* The same of invites, which are never unsent.
LEMMA WrittenInvites ==
    ASSUME NEW now \in [User -> InviteRows], NEW saw \in [User -> InviteRows], NEW rows,
           \A u \in User : Begun(now[u]) /\ Begun(saw[u]) /\ (saw[u].status # "none" => now[u].status # "none"),
           \A u \in DOMAIN rows : rows[u] \in InviteRows /\ Begun(rows[u]) /\ rows[u].status # "none"
    PROVE  /\ WriteOver(now, saw, rows) \in [User -> InviteRows]
           /\ \A u \in User : /\ Begun(WriteOver(now, saw, rows)[u])
                              /\ now[u].status # "none" => WriteOver(now, saw, rows)[u].status # "none"
  BY ColumnsKeepInvite DEF WriteOver

\* What a commit does, in one place.
Committed(c, ms, ls, is) ==
    /\ Unique(ms, ls)
    /\ members' = ms /\ links' = ls /\ invites' = is
    /\ owner_id' = IF c.op = "transfer" THEN c.plan.owner ELSE owner_id
    /\ given' = Overlay(c.plan.hand, given)
    /\ raced' = (raced \/ \E u \in User : members[u] # c.saw[1][u] \/ \E l \in Link : links[l] # c.saw[2][l])
    /\ elsewhere' = (elsewhere \/ (~MineAsked(c) /\ <<ms, ls, is>> # <<members, links, invites>>))
    /\ Advance(c, [c EXCEPT !.at = "done", !.plan = Refusal, !.saw = << >>])
    /\ UNCHANGED <<share, lists, urls, visit>>
Withdrawn(c) ==
    /\ Advance(c, [c EXCEPT !.at = "refused", !.plan = Refusal, !.saw = << >>])
    /\ UNCHANGED <<accessVars, share, lists, urls, visit, elsewhere>>

\* The rows that a commit leaves.
LEMMA CommitOutcome ==
    ASSUME Commits
    PROVE  \E c \in shareCalls :
              /\ c.at = "read"
              /\ \/ Committed(c, WriteOver(members, c.saw[1], c.plan.members), WriteOver(links, c.saw[2], c.plan.links),
                              WriteOver(invites, c.saw[3], c.plan.invites))
                 \/ Withdrawn(c)
<1>1. PICK c \in {x \in shareCalls : x.at = "read"} :
        \E ms \in {WriteOver(members, c.saw[1], c.plan.members)}, ls \in {WriteOver(links, c.saw[2], c.plan.links)},
           is \in {WriteOver(invites, c.saw[3], c.plan.invites)} :
           IF Unique(ms, ls)
           THEN /\ members' = ms /\ links' = ls /\ invites' = is
                /\ owner_id' = IF c.op = "transfer" THEN c.plan.owner ELSE owner_id
                /\ given' = Overlay(c.plan.hand, given)
                /\ raced' = (raced \/ \E u \in User : members[u] # c.saw[1][u]
                                   \/ \E l \in Link : links[l] # c.saw[2][l])
                /\ elsewhere' = (elsewhere \/ (~MineAsked(c) /\ <<ms, ls, is>> # <<members, links, invites>>))
                /\ Advance(c, [c EXCEPT !.at = "done", !.plan = Refusal, !.saw = << >>])
                /\ UNCHANGED <<share, lists, urls, visit, shareLeft>>
           ELSE /\ Advance(c, [c EXCEPT !.at = "refused", !.plan = Refusal, !.saw = << >>])
                /\ UNCHANGED <<accessVars, share, lists, urls, visit, elsewhere, shareLeft>>
  BY Zenon DEF Commits
<1>2. PICK ms, ls, is :
        /\ ms = WriteOver(members, c.saw[1], c.plan.members) /\ ls = WriteOver(links, c.saw[2], c.plan.links)
        /\ is = WriteOver(invites, c.saw[3], c.plan.invites)
        /\ Committed(c, ms, ls, is) \/ Withdrawn(c)
  BY <1>1, Zenon DEF Committed, Withdrawn
<1>3. c \in shareCalls /\ c.at = "read"
  BY <1>1
<1> QED
  BY <1>2, <1>3, Zenon

\* A commit that nothing came before finds what it read.
LEMMA NothingBetween ==
    ASSUME RowInv, NEW c, Planned(c), NEW ms, NEW ls, NEW is, Committed(c, ms, ls, is), ~raced'
    PROVE  ~raced /\ members = c.saw[1] /\ links = c.saw[2]
<1>1. raced' = (raced \/ \E u \in User : members[u] # c.saw[1][u] \/ \E l \in Link : links[l] # c.saw[2][l])
  BY DEF Committed
<1>2. ~raced /\ (\A u \in User : members[u] = c.saw[1][u])
  BY <1>1
<1>3. User # {}
  BY SharingAssumption
<1>4. \A l \in Link : links[l] = c.saw[2][l]
  BY <1>1, <1>3
<1>5. members \in [User -> MemberRows] /\ c.saw[1] \in [User -> MemberRows] /\ links \in [Link -> LinkRows] /\ c.saw[2] \in [Link -> LinkRows]
  BY DEF RowInv, Planned
<1>6. members = c.saw[1]
  BY <1>2, <1>5
<1>7. links = c.saw[2]
  BY <1>4, <1>5
<1> QED
  BY <1>2, <1>6, <1>7

\* A commit keeps the rows rows and, if nothing came in between, what they grant in order.
LEMMA CommitKeeps ==
    ASSUME ShareInv, NEW c \in shareCalls, c.at = "read",
           Committed(c, WriteOver(members, c.saw[1], c.plan.members), WriteOver(links, c.saw[2], c.plan.links),
                     WriteOver(invites, c.saw[3], c.plan.invites))
    PROVE  ShareInv'
<1> DEFINE ms == WriteOver(members, c.saw[1], c.plan.members)
           ls == WriteOver(links, c.saw[2], c.plan.links)
           is == WriteOver(invites, c.saw[3], c.plan.invites)
<1>1. Formed(c) /\ Planned(c) /\ Older(c, invites) /\ RowInv
  BY DEF ShareInv, CallInv
<1>2. /\ members \in [User -> MemberRows] /\ links \in [Link -> LinkRows] /\ invites \in [User -> InviteRows]
      /\ given \in [User -> BOOLEAN] /\ raced \in BOOLEAN /\ owner_id \in User
      /\ \A u \in User : Begun(invites[u])
  BY <1>1 DEF RowInv
<1>3. /\ c.saw[1] \in [User -> MemberRows] /\ c.saw[2] \in [Link -> LinkRows] /\ c.saw[3] \in [User -> InviteRows]
      /\ \A u \in User : Begun(c.saw[3][u])
      /\ PlanRows(c.plan) /\ Keeps(c.plan, c.saw[1], c.saw[2])
      /\ c.op = "transfer" => c.plan.owner \in User
  BY <1>1 DEF Planned
<1>4. ms \in [User -> MemberRows] /\ (members = c.saw[1] => \A u \in User : ms[u] = RowAfter(c.plan.members, members, u))
  BY <1>2, <1>3, WrittenMembers DEF PlanRows
<1>5. ls \in [Link -> LinkRows] /\ (links = c.saw[2] => ls = RowsAfter(c.plan.links, links))
  BY <1>2, <1>3, WrittenLinks DEF PlanRows
<1>6. /\ is \in [User -> InviteRows]
      /\ \A u \in User : Begun(is[u]) /\ (invites[u].status # "none" => is[u].status # "none")
  BY <1>1, <1>2, <1>3, WrittenInvites DEF Older, PlanRows
<1>7. Committed(c, ms, ls, is)
  OBVIOUS
<1> HIDE DEF ms, ls, is
<1>8. /\ Unique(ms, ls) /\ members' = ms /\ links' = ls /\ invites' = is
      /\ owner_id' = IF c.op = "transfer" THEN c.plan.owner ELSE owner_id
      /\ given' = Overlay(c.plan.hand, given)
      /\ raced' = (raced \/ \E u \in User : members[u] # c.saw[1][u] \/ \E l \in Link : links[l] # c.saw[2][l])
      /\ Advance(c, [c EXCEPT !.at = "done", !.plan = Refusal, !.saw = << >>])
      /\ UNCHANGED <<share, lists, urls, visit>>
  BY <1>7 DEF Committed
<1>9. /\ given' \in [User -> BOOLEAN]
      /\ \A u \in User : given'[u] = IF u \in DOMAIN c.plan.hand THEN c.plan.hand[u] ELSE given[u]
  BY <1>3, <1>8, <1>2 DEF PlanRows, Overlay
<1>10. RowInv'
  BY <1>8, <1>2, <1>3, <1>4, <1>5, <1>6, <1>9 DEF RowInv
<1>11. AccessInv'
  BY <1>1, <1>7, NothingBetween, <1>2, <1>3, <1>4, <1>5, <1>8, <1>9 DEF AccessInv, ShareInv, Keeps
<1>12. CallInv'
  <2> DEFINE d == [c EXCEPT !.at = "done", !.plan = Refusal, !.saw = << >>]
  <2>1. shareCalls' = (shareCalls \ {c}) \cup {d}
    BY <1>8 DEF Advance
  <2>2. Formed(d) /\ d.at = "done"
    BY <1>1 DEF Formed, Fields
  <2> HIDE DEF d
  <2>3. \A e \in shareCalls : e.at = "read" => Older(e, is)
    BY <1>6 DEF ShareInv, CallInv, Older
  <2> QED
    BY <1>8, <2>1, <2>2, <2>3 DEF ShareInv, CallInv
<1>13. DialogInv'
  BY <1>8 DEF ShareInv, DialogInv
<1> QED
  BY <1>10, <1>11, <1>12, <1>13 DEF ShareInv

\* Requests that only wait, were refused or answered.
Asked(c) == Formed(c) /\ c.at # "read"
Adds == \A d \in shareCalls' : d \in shareCalls \/ Asked(d)

\* What leaves the rows alone and adds requests that have not read keeps the invariant.
LEMMA QuietStep ==
    ASSUME ShareInv, UNCHANGED accessVars, Adds, DialogInv'
    PROVE  ShareInv'
  BY DEF ShareInv, RowInv, AccessInv, accessVars, CallInv, Adds, Asked

\* A commit.
LEMMA CommitsStep ==
    ASSUME ShareInv, Commits
    PROVE  ShareInv'
<1>1. PICK c \in shareCalls :
          /\ c.at = "read"
          /\ \/ Committed(c, WriteOver(members, c.saw[1], c.plan.members), WriteOver(links, c.saw[2], c.plan.links),
                          WriteOver(invites, c.saw[3], c.plan.invites))
             \/ Withdrawn(c)
  BY CommitOutcome
<1>2. CASE Withdrawn(c)
  BY <1>2, QuietStep DEF Withdrawn, Advance, ShareInv, CallInv, Formed, Fields, Adds, Asked, DialogInv
<1> QED
  BY <1>1, <1>2, CommitKeeps

-----------------------------------------------------------------------------
(* The dialog and the others *)

\* A request made is one that waits.
LEMMA RequestAsked ==
    ASSUME NEW op \in UserOps \cup LinkOps, NEW by \in User, NEW user, NEW role \in LinkRole, NEW link, NEW token,
           NEW mine, op \in UserOps => user \in User, op \in LinkOps => link \in Link
    PROVE  Asked(Request(op, by, user, role, link, token, mine))
BY DEF Asked, Request, Formed, Fields

\* The dialog asks.
LEMMA DialogAsks ==
    ASSUME NEW op \in UserOps \cup LinkOps, NEW user, NEW role \in LinkRole, NEW link,
           op \in UserOps => user \in User, op \in LinkOps => link \in Link, Ask(op, user, role, link)
    PROVE  Adds /\ UNCHANGED accessVars /\ UNCHANGED <<lists, urls, visit>>
<1>1. Asked(Request(op, Me, user, role, link, 0, TRUE))
  BY RequestAsked, SharingAssumption
<1> QED
  BY <1>1 DEF Ask, Adds

\* Somebody else asks.
LEMMA OthersSend ==
    ASSUME NEW op \in UserOps \cup LinkOps, NEW u \in User, NEW user, NEW link, NEW token,
           op \in UserOps => user \in User, op \in LinkOps => link \in Link, Send(op, u, user, link, token)
    PROVE  Adds /\ UNCHANGED accessVars /\ UNCHANGED <<share, lists, urls>>
  BY RequestAsked DEF LinkRole, Send, Adds

\* Queries started are lists without an answer.
LEMMA StartOK ==
    ASSUME NEW ls, ListsOK(ls), NEW qs
    PROVE  ListsOK(Start(ls, qs))
<1> DEFINE new == Start(ls, qs)
<1>1. DOMAIN new = Query /\ new = [q \in Query |-> new[q]]
  BY DEF Start
<1>2. \A q \in Query : new[q] = IF q \in qs THEN [ls[q] EXCEPT !.at = "asked", !.got = {}] ELSE ls[q]
  BY DEF Start
<1> HIDE DEF new
<1>3. ASSUME NEW q \in Query PROVE new[q] \in Lists(q) /\ (new[q].at # "read" => new[q].got = {})
  <2>1. ls[q] \in Lists(q) /\ (ls[q].at # "read" => ls[q].got = {})
    BY DEF ListsOK
  <2>2. CASE q \in qs
    BY <1>2, <2>2, <2>1 DEF Lists
  <2>3. CASE q \notin qs
    BY <1>2, <2>1, <2>3
  <2> QED
    BY <2>2, <2>3
<1> QED
  BY <1>1, <1>3 DEF ListsOK, new

\* A list with one query's record replaced.
LEMMA OneList ==
    ASSUME ListsOK(lists), NEW p \in Query, NEW r \in Lists(p), r.at # "read" => r.got = {}
    PROVE  ListsOK([lists EXCEPT ![p] = r])
  BY DEF ListsOK

\* What a query answers has the shape of its rows.
LEMMA AnswerRows ==
    ASSUME RowInv, NEW q \in Query
    PROVE  Answer(q) \in SUBSET RowsOf(q)
<1>1. \A u \in User : members[u].role \in MemberRole /\ invites[u].role \in LinkRole
  BY DEF RowInv, MemberRows, InviteRows
<1>2. \A l \in Link : links[l].role \in LinkRole
  BY DEF RowInv, LinkRows
<1>3. listMembers \subseteq User \X MemberRole \X BOOLEAN
  <2> SUFFICES ASSUME NEW x \in listMembers PROVE x \in User \X MemberRole \X BOOLEAN
    OBVIOUS
  <2>1. PICK u \in User : x = <<u, members[u].role, members[u].via # NoUser>>
    BY DEF listMembers
  <2> DEFINE b == members[u].via # NoUser
  <2>2. b \in BOOLEAN
    OBVIOUS
  <2>3. x = <<u, members[u].role, b>>
    BY <2>1
  <2> HIDE DEF b
  <2> QED
    BY <1>1, <2>2, <2>3
<1>4. listInvites \subseteq User \X LinkRole
  BY <1>1 DEF listInvites
<1>5. listShareLinks \subseteq Link \X LinkRole
  BY <1>2 DEF listShareLinks
<1>6. CASE q = "members"
  BY <1>3, <1>6 DEF Answer, RowsOf
<1>7. CASE q = "invites"
  BY <1>4, <1>7 DEF Answer, RowsOf
<1>8. CASE q \notin {"members", "invites"}
  BY <1>5, <1>8 DEF Answer, RowsOf
<1> QED
  BY <1>6, <1>7, <1>8

\* A list read, or refused.
LEMMA ListReadStep == ASSUME ShareInv, ListRead PROVE ShareInv'
<1>1. PICK q \in Query :
        /\ lists[q].at = "asked" /\ UNCHANGED <<accessVars, shareCalls, share, urls, visit>>
        /\ lists' = [lists EXCEPT ![q] = IF Readable(q) THEN [@ EXCEPT !.at = "read", !.got = Answer(q)]
                                         ELSE [@ EXCEPT !.at = "failed"]]
  BY DEF ListRead
<1> DEFINE r == IF Readable(q) THEN [lists[q] EXCEPT !.at = "read", !.got = Answer(q)] ELSE [lists[q] EXCEPT !.at = "failed"]
<1>2. RowInv /\ ListsOK(lists) /\ lists[q] \in Lists(q) /\ (lists[q].at # "read" => lists[q].got = {})
  BY DEF ShareInv, DialogInv, ListsOK
<1>3. Answer(q) \in SUBSET RowsOf(q)
  BY <1>2, AnswerRows
<1>4. r \in Lists(q) /\ (r.at # "read" => r.got = {})
  BY <1>1, <1>2, <1>3 DEF Lists
<1>5. lists' = [lists EXCEPT ![q] = r]
  BY <1>1, <1>2
<1> HIDE DEF r
<1>6. ListsOK(lists')
  BY <1>2, <1>4, <1>5, OneList
<1>7. DialogInv' /\ Adds /\ UNCHANGED accessVars
  BY <1>1, <1>6 DEF ShareInv, DialogInv, Adds
<1> QED
  BY <1>7, QuietStep

\* A list shown, and the queries it comes to enable.
LEMMA ListShownStep == ASSUME ShareInv, ListShown PROVE ShareInv'
<1>1. PICK q \in Query :
        /\ lists[q].at = "read" /\ UNCHANGED <<accessVars, shareCalls, share, urls, visit>>
        /\ lists' = useSharing([lists EXCEPT ![q] = [@ EXCEPT !.at = "none", !.rows = lists[q].got, !.got = {},
                                                              !.known = TRUE]], share.open)
  BY DEF ListShown
<1> DEFINE r == [lists[q] EXCEPT !.at = "none", !.rows = lists[q].got, !.got = {}, !.known = TRUE]
           new == [lists EXCEPT ![q] = r]
<1>2. ListsOK(lists) /\ lists[q] \in Lists(q)
  BY DEF ShareInv, DialogInv, ListsOK
<1>3. r \in Lists(q) /\ (r.at # "read" => r.got = {})
  BY <1>2 DEF Lists
<1>4. lists' = useSharing(new, share.open)
  BY <1>1
<1> HIDE DEF r
<1>5. ListsOK(new)
  BY <1>2, <1>3, OneList
<1> HIDE DEF new
<1>6. ListsOK(lists')
  BY <1>4, <1>5, StartOK DEF useSharing
<1>7. DialogInv' /\ Adds /\ UNCHANGED accessVars
  BY <1>1, <1>6 DEF ShareInv, DialogInv, Adds
<1> QED
  BY <1>7, QuietStep

\* A list fetched again after it failed, the dialog opened or closed.
LEMMA LooksStep == ASSUME ShareInv, QueryView \/ ShareDialog PROVE ShareInv'
<1>1. ListsOK(lists) /\ ShareOK(share)
  BY DEF ShareInv, DialogInv
<1>2. CASE QueryView
  BY <1>2, <1>1, StartOK, QuietStep DEF QueryView, ShareInv, DialogInv, Adds
<1>3. CASE ShareDialog
  BY <1>3, <1>1, StartOK, QuietStep DEF ShareDialog, useSharing, ShareOK, ShareInv, DialogInv, Adds
<1> QED
  BY <1>2, <1>3

\* What the dialog shows, it has from the lists.
LEMMA ShownRows ==
    ASSUME ShareInv
    PROVE  /\ Shown("members") \subseteq User \X MemberRole \X BOOLEAN
           /\ Shown("invites") \subseteq User \X LinkRole
           /\ Shown("links") \subseteq Link \X LinkRole
BY DEF ShareInv, DialogInv, ListsOK, Lists, Query, Shown, RowsOf

\* A confirmation asked for.
LEMMA ConfirmAsked ==
    ASSUME ShareInv, NEW op, NEW user, NEW role, NEW link, onConfirm(op, user, role, link),
           [op |-> op, user |-> user, role |-> role, link |-> link] \in Confirms
    PROVE  ShareInv'
  BY QuietStep DEF onConfirm, ShareInv, DialogInv, ShareOK, Adds

\* Roles, transfers, removals, invites and links of the dialog's rows.
LEMMA RowsStep ==
    ASSUME ShareInv, MemberRoleSelect \/ OwnerActions \/ LeaveButton \/ PendingInvites
    PROVE  ShareInv'
  BY ShownRows, DialogAsks, QuietStep, ConfirmAsked, SharingAssumption DEF MemberRoleSelect, MemberRow,
     UserOps, LinkOps, ShareInv, DialogInv, OwnerActions, Confirms, LeaveButton, PendingInvites

\* Links turned on and off.
LEMMA LinkRowsStep == ASSUME ShareInv, ShareLinkRows PROVE ShareInv'
  BY DialogAsks, QuietStep, ShownRows, ConfirmAsked DEF toggle, FreeLink, UserOps, LinkOps, ShareInv,
     DialogInv, LinkOf, rotate, Confirms, ShareLinkRows

\* An address typed in, an invite sent.
LEMMA InviteFormStep == ASSUME ShareInv, InviteForm PROVE ShareInv'
  BY QuietStep, DialogAsks DEF ShareInv, DialogInv, ShareOK, Adds, UserOps, LinkOps, InviteForm

\* A confirmation given or taken back.
LEMMA ConfirmStep == ASSUME ShareInv, ConfirmDialog PROVE ShareInv'
<1> DEFINE f == share.confirm
<1>1. /\ f # NoConfirm
      /\ \E b : share' = [share EXCEPT !.confirm = NoConfirm, !.crossed = b] /\ b \in BOOLEAN
      /\ \/ f.op # "link" /\ Ask(f.op, f.user, f.role, f.link)
         \/ f.op = "link" /\ FreeLink # {} /\ Ask("link", NoUser, f.role, CHOOSE l \in FreeLink : TRUE)
         \/ UNCHANGED <<accessVars, shareCalls, lists, urls, visit>>
  <2>1. (share.crossed \/ (f.op = "link" /\ busy)) \in BOOLEAN
    OBVIOUS
  <2> QED
    BY <2>1 DEF ConfirmDialog
<1>2. ShareOK(share) /\ f \in Confirms
  BY DEF ShareInv, DialogInv, ShareOK
<1>3. ShareOK(share')
  BY <1>1, <1>2 DEF ShareOK, Confirms
<1>4. f.op \in {"transfer", "remove", "uninvite", "link"} /\ f.role \in LinkRole /\ (f.op # "link" => f.user \in User)
  BY <1>1, <1>2 DEF Confirms, LinkRole
<1>5. CASE f.op # "link" /\ Ask(f.op, f.user, f.role, f.link)
  <2>1. f.op \in UserOps /\ f.op \notin LinkOps
    BY <1>4, <1>5 DEF UserOps, LinkOps
  <2> HIDE DEF f
  <2>2. Adds /\ UNCHANGED accessVars /\ UNCHANGED <<lists, urls, visit>>
    BY <1>4, <1>5, <2>1, DialogAsks
  <2>3. DialogInv'
    BY <1>3, <2>2 DEF ShareInv, DialogInv
  <2> QED
    BY <2>2, <2>3, QuietStep
<1>6. CASE f.op = "link" /\ FreeLink # {} /\ Ask("link", NoUser, f.role, CHOOSE l \in FreeLink : TRUE)
  <2>1. (CHOOSE l \in FreeLink : TRUE) \in Link
    BY <1>6 DEF FreeLink
  <2>2. Adds /\ UNCHANGED accessVars /\ UNCHANGED <<lists, urls, visit>>
    BY <1>4, <1>6, <2>1, DialogAsks DEF UserOps, LinkOps
  <2>3. DialogInv'
    BY <1>3, <2>2 DEF ShareInv, DialogInv
  <2> QED
    BY <2>2, <2>3, QuietStep
<1>7. CASE UNCHANGED <<accessVars, shareCalls, lists, urls, visit>>
  <2>1. DialogInv' /\ Adds /\ UNCHANGED accessVars
    BY <1>3, <1>7 DEF ShareInv, DialogInv, Adds
  <2> QED
    BY <2>1, QuietStep
<1> QED
  BY <1>1, <1>5, <1>6, <1>7

\* The dialog hears an answer, or does not.
LEMMA AnsweredStep == ASSUME ShareInv, ShareAnswered \/ ShareAnswerLost \/ TheirAnswer PROVE ShareInv'
<1>1. CASE ShareAnswered
  <2>1. PICK c \in shareCalls :
          /\ shareCalls' = shareCalls \ {c}
          /\ share' = IF c.op # "invite" THEN share
                      ELSE IF c.at = "done" THEN [share EXCEPT !.email = NoUser, !.error = FALSE]
                      ELSE [share EXCEPT !.error = TRUE]
          /\ urls' = IF c.at = "refused" \/ c.op \notin {"link", "unlink"} THEN urls ELSE useShareLinks(c)
          /\ \E qs : lists' = Again(qs)
          /\ UNCHANGED <<accessVars, visit>>
    BY <1>1 DEF ShareAnswered
  <2>2. ListsOK(lists) /\ ShareOK(share) /\ UrlsOK(urls) /\ Formed(c)
    BY DEF ShareInv, DialogInv, CallInv
  <2>3. ListsOK(lists')
    BY <2>1, <2>2, StartOK DEF Again
  <2>4. ShareOK(share')
    BY <2>1, <2>2 DEF ShareOK
  <2>5. UrlsOK(urls')
    BY <2>2, <2>1 DEF Formed, LinkOps, UrlsOK, useShareLinks
  <2>6. DialogInv' /\ Adds /\ UNCHANGED accessVars
    BY <2>1, <2>3, <2>4, <2>5 DEF ShareInv, DialogInv, Adds
  <2> QED
    BY <2>6, QuietStep
<1>2. CASE ShareAnswerLost
  <2>1. PICK c \in shareCalls : /\ Advance(c, [c EXCEPT !.at = "refused"])
                                /\ share' = [share EXCEPT !.crossed = @ \/ c.op \in {"link", "unlink"}]
                                /\ UNCHANGED <<accessVars, lists, urls, visit>>
    BY <1>2 DEF ShareAnswerLost
  <2> DEFINE d == [c EXCEPT !.at = "refused"]
  <2>2. Asked(d)
    BY DEF ShareInv, CallInv, Formed, Fields, Asked
  <2> HIDE DEF d
  <2>3. shareCalls' = (shareCalls \ {c}) \cup {d}
    BY <2>1 DEF Advance, d
  <2>4. ShareOK(share')
    BY <2>1 DEF ShareInv, DialogInv, ShareOK
  <2>5. DialogInv' /\ Adds /\ UNCHANGED accessVars
    BY <2>1, <2>2, <2>3, <2>4 DEF ShareInv, DialogInv, Adds
  <2> QED
    BY <2>5, QuietStep
<1>3. CASE TheirAnswer
  BY <1>3, QuietStep DEF TheirAnswer, ShareInv, DialogInv, Adds
<1> QED
  BY <1>1, <1>2, <1>3

\* The page of a link.
LEMMA LinkPageStep == ASSUME ShareInv, JoinLinkPage \/ JoinActions PROVE ShareInv'
<1>1. CASE JoinLinkPage
  <2>1. PICK u \in Guest, l \in Link :
          /\ UNCHANGED <<accessVars, shareCalls, share, lists, urls>>
          /\ visit' \in {NoVisit, [NoVisit EXCEPT !.page = "join", !.who = u, !.link = l, !.role = links[l].role,
                                                  !.has = _active_role(u)]}
    BY <1>1 DEF JoinLinkPage, Stay
  <2>2. u \in User /\ links[l].role \in LinkRole /\ _active_role(u) \in MemberRole \cup {NoUser}
    BY DEF Guest, ShareInv, RowInv, MemberRows, LinkRows, _active_role
  <2>3. visit' \in Visits
    BY <2>1, <2>2 DEF Visits, NoVisit
  <2>4. DialogInv' /\ Adds /\ UNCHANGED accessVars
    BY <2>1, <2>3 DEF ShareInv, DialogInv, Adds
  <2> QED
    BY <2>4, QuietStep
<1>2. CASE JoinActions
  BY <1>2, QuietStep, OthersSend DEF JoinActions, ShareInv, DialogInv, Visits, NoVisit, Adds, Stay,
     UserOps, LinkOps
<1> QED
  BY <1>1, <1>2

\* The page of an invite.
LEMMA InvitePageStep == ASSUME ShareInv, AcceptInvitePage \/ InviteActions PROVE ShareInv'
<1>1. CASE AcceptInvitePage
  <2>1. PICK u \in Guest, n \in 1 .. MaxTokens :
          /\ UNCHANGED <<accessVars, shareCalls, share, lists, urls>>
          /\ visit' \in {NoVisit, [NoVisit EXCEPT !.page = "invite", !.who = u, !.token = n]}
    BY <1>1 DEF AcceptInvitePage, Stay
  <2>2. visit' \in Visits
    BY <2>1 DEF Visits, NoVisit, Guest
  <2>3. DialogInv' /\ Adds /\ UNCHANGED accessVars
    BY <2>1, <2>2 DEF ShareInv, DialogInv, Adds
  <2> QED
    BY <2>3, QuietStep
<1>2. CASE InviteActions
  BY <1>2, OthersSend, QuietStep DEF InviteActions, ShareInv, DialogInv, Visits, NoVisit, UserOps,
     LinkOps
<1> QED
  BY <1>1, <1>2

\* A member leaves, the owner acts in a second tab.
LEMMA TheirStep == ASSUME ShareInv, leaveProject \/ SecondTab PROVE ShareInv'
  BY OthersSend, QuietStep, SharingAssumption DEF leaveProject, UserOps, LinkOps, Guest, ShareInv,
     DialogInv, SecondTab

\* Every step keeps the invariant.
LEMMA ShareNextStep == ASSUME ShareInv, [shareNext]_shareVars PROVE ShareInv'
<1>1. CASE shareNext
  BY <1>1, ReadsStep, CommitsStep, ListReadStep, ListShownStep, LooksStep, RowsStep, LinkRowsStep, InviteFormStep,
     ConfirmStep, AnsweredStep, LinkPageStep, InvitePageStep, TheirStep DEF shareNext, ShareStep
<1>2. CASE UNCHANGED shareVars
  BY <1>2, QuietStep DEF ShareInv, DialogInv, Adds, shareVars, accessVars
<1> QED
  BY <1>1, <1>2

\* At first the owner is the only one, members of the story have what it says, and
\* one link at most is on.
LEMMA ShareInitOK == ASSUME shareInit PROVE ShareInv
<1> DEFINE s == shareLeft
<1>1. PICK first \in Link :
        /\ members = [u \in User |->
               CASE u = Me -> [Outside EXCEPT !.role = "owner", !.status = "active"]
                 [] u \in s.hand -> [Outside EXCEPT !.role = s.handRole, !.status = "active"]
                 [] u \in s.linked -> [Outside EXCEPT !.role = s.on, !.status = "active", !.via = first]
                 [] OTHER -> Outside]
        /\ links = [l \in Link |-> IF l = first /\ s.on # NoUser THEN [role |-> s.on, state |-> "active"]
                                   ELSE [role |-> "viewer", state |-> "none"]]
  BY DEF shareInit
<1>2. /\ s.hand \cup s.linked \subseteq User \ {Me} /\ s.hand \cap s.linked = {}
      /\ s.handRole \in LinkRole /\ s.on \in LinkRole \cup {NoUser} /\ (s.linked # {} => s.on # NoUser)
      /\ Me \in User /\ MaxTokens \in Nat /\ NoUser \notin User \cup Link
  BY SharingAssumption DEF shareInit
<1> HIDE DEF s
<1>3. /\ members[Me] = [role |-> "owner", status |-> "active", via |-> NoUser, before |-> NoUser]
      /\ \A u \in User : u \in s.hand =>
            members[u] = [role |-> s.handRole, status |-> "active", via |-> NoUser, before |-> NoUser]
      /\ \A u \in User : u \in s.linked =>
            members[u] = [role |-> s.on, status |-> "active", via |-> first, before |-> NoUser]
      /\ \A u \in User : u \notin s.hand \cup s.linked \cup {Me} =>
            members[u] = [role |-> "viewer", status |-> "none", via |-> NoUser, before |-> NoUser]
  BY <1>1, <1>2 DEF Outside
<1>4. \A u \in User : members[u] \in MemberRows
  BY <1>2, <1>3 DEF MemberRows, MemberRole, LinkRole
<1>5. members \in [User -> MemberRows]
  BY <1>1, <1>4
<1>6. links \in [Link -> LinkRows]
  BY <1>1, <1>2 DEF LinkRows, LinkRole
<1>7. Unique(members, links)
  <2>1. {u \in User : members[u].role = "owner"} = {Me}
    BY <1>2, <1>3 DEF LinkRole
  <2>2. Cardinality({u \in User : members[u].role = "owner"}) <= 1
    BY <2>1, FS_Singleton
  <2>3. ASSUME NEW r \in LinkRole PROVE Cardinality({l \in Link : links[l] = [role |-> r, state |-> "active"]}) <= 1
    <3> DEFINE A == {l \in Link : links[l] = [role |-> r, state |-> "active"]}
    <3>1. A \subseteq {first}
      BY <1>1
    <3>2. IsFiniteSet({first}) /\ Cardinality({first}) = 1
      BY FS_Singleton
    <3> HIDE DEF A
    <3>3. Cardinality(A) <= 1
      BY <3>1, <3>2, FS_Subset
    <3> QED
      BY <3>3 DEF A
  <2> QED
    BY <2>2, <2>3 DEF Unique
<1>8. RowInv
  <2>1. invites \in [User -> InviteRows] /\ \A u \in User : Begun(invites[u])
    <3>1. 0 \in 0 .. MaxTokens
      BY <1>2
    <3> DEFINE i == [status |-> "none", role |-> "viewer", token |-> 0]
    <3>2. i \in InviteRows /\ Begun(i)
      BY <3>1 DEF InviteRows, LinkRole, Begun
    <3>3. invites = [u \in User |-> i]
      BY DEF shareInit
    <3> HIDE DEF i
    <3> QED
      BY <3>2, <3>3
  <2>2. owner_id \in User /\ raced \in BOOLEAN /\ given \in [User -> BOOLEAN]
    BY <1>2 DEF shareInit
  <2> QED
    BY <1>5, <1>6, <1>7, <2>1, <2>2 DEF RowInv
<1>9. AccessInv
  <2> SUFFICES ASSUME NEW u \in User PROVE Access(members[u], links, given[u])
    BY DEF AccessInv
  <2>1. given[u] = (u = Me \/ u \in s.hand)
    BY DEF shareInit, s
  <2>2. CASE u = Me \/ u \in s.hand
    BY <2>2, <1>2, <1>3 DEF Access, LinkRole
  <2>3. CASE u \in s.linked
    <3>1. links[first].state = "active"
      BY <1>1, <1>2, <2>3
    <3>2. given[u] = FALSE /\ s.on \in LinkRole
      BY <1>2, <2>1, <2>3
    <3> QED
      BY <2>3, <1>2, <1>3, <3>1, <3>2 DEF Access, LinkRole
  <2>4. CASE u \notin s.hand \cup s.linked \cup {Me}
    <3>1. given[u] = FALSE
      BY <2>1, <2>4
    <3>2. members[u] = [role |-> "viewer", status |-> "none", via |-> NoUser, before |-> NoUser]
      BY <2>4, <1>3
    <3> QED
      BY <3>1, <3>2 DEF Access
  <2> QED
    BY <2>2, <2>3, <2>4
<1>10. CallInv
  BY DEF shareInit, CallInv
<1>11. DialogInv
  <2>1. ListsOK(lists)
    <3>1. \A q \in Query : lists[q] = [at |-> IF q = "members" THEN "asked" ELSE "none", rows |-> {}, got |-> {}, known |-> FALSE]
      BY DEF shareInit
    <3>2. DOMAIN lists = Query /\ lists = [q \in Query |-> lists[q]]
      BY DEF shareInit
    <3>3. \A q \in Query : {} \in SUBSET RowsOf(q)
      OBVIOUS
    <3>4. ASSUME NEW q \in Query PROVE lists[q] \in Lists(q) /\ lists[q].got = {}
      <4>1. PICK a \in {"asked", "none"} : lists[q] = [at |-> a, rows |-> {}, got |-> {}, known |-> FALSE]
        BY <3>1
      <4> DEFINE R == RowsOf(q)
      <4>2. {} \in SUBSET R
        OBVIOUS
      <4> HIDE DEF R
      <4>3. lists[q] \in [at : {"none", "asked", "read", "failed"}, rows : SUBSET R, got : SUBSET R, known : BOOLEAN]
        BY <4>1, <4>2
      <4> QED
        BY <4>1, <4>3 DEF Lists, R
    <3> QED
      BY <3>2, <3>4 DEF ListsOK
  <2>2. ShareOK(share)
    BY DEF shareInit, ShareOK, Confirms
  <2>3. UrlsOK(urls) /\ visit \in Visits
    BY DEF shareInit, UrlsOK, Visits
  <2> QED
    BY <2>1, <2>2, <2>3 DEF DialogInv
<1> QED
  BY <1>8, <1>9, <1>10, <1>11 DEF ShareInv

-----------------------------------------------------------------------------
(* The theorems *)

\* The inductive invariant: rows, requests and the dialog have their types, a
\* request that has read holds a plan sound for what it read, and as long as no
\* transaction overtook another every row grants what it may.
THEOREM ShareInvHolds == shareSpec => []ShareInv
<1>1. shareInit => ShareInv
  BY ShareInitOK
<1>2. ShareInv /\ [shareNext]_shareVars => ShareInv'
  BY ShareNextStep
<1> QED
  BY <1>1, <1>2, PTL DEF shareSpec

\* Every variable of the share dialog and of the server keeps its type; one row at
\* most says owner and a role has one link that is on.
THEOREM ShareTypes == shareSpec => []shareTypeOK
<1>1. ShareInv => shareTypeOK
  <2> SUFFICES ASSUME ShareInv PROVE shareTypeOK
    OBVIOUS
  <2>1. RowInv /\ CallInv /\ DialogInv
    BY DEF ShareInv
  <2>2. /\ members \in [User -> [role : LinkRole \cup {"owner"}, status : {"none", "active", "left"},
                                 via : Link \cup {NoUser}, before : LinkRole \cup {NoUser}]]
        /\ links \in [Link -> [role : LinkRole, state : {"none", "active", "revoked"}]]
        /\ owner_id \in User /\ given \in [User -> BOOLEAN]
    BY <2>1 DEF RowInv, MemberRows, MemberRole, LinkRows
  <2>3. \A u \in User : invites[u].token \in 0 .. MaxTokens /\ (invites[u].status = "none") = (invites[u].token = 0)
    BY <2>1 DEF RowInv, InviteRows, Begun
  <2>4. visit.who \in User \cup {NoUser} /\ visit.token \in 0 .. MaxTokens
    BY <2>1, SharingAssumption DEF DialogInv, Visits, NoVisit
  <2>5. \A c \in shareCalls : c.at \in {"asked", "read", "done", "refused"} /\ c.by \in User
    BY <2>1 DEF CallInv, Formed
  <2>6. \A q \in Query : lists[q].at \in {"none", "asked", "read", "failed"} /\ (lists[q].at = "read" \/ lists[q].got = {})
    BY <2>1 DEF DialogInv, ListsOK, Lists
  <2>7. urls \in [LinkRole -> Link \cup {NoUser}]
    BY <2>1 DEF DialogInv, UrlsOK
  <2>8. Cardinality({u \in User : members[u].role = "owner"}) <= 1
    BY <2>1 DEF RowInv, Unique
  <2>9. \A r \in LinkRole : Cardinality(_active_link_for_role(r)) <= 1
    BY <2>1 DEF RowInv, Unique, _active_link_for_role
  <2> QED
    BY <2>2, <2>3, <2>4, <2>5, <2>6, <2>7, <2>8, <2>9 DEF shareTypeOK
<1> QED
  BY <1>1, ShareInvHolds, PTL

\* Nobody has access through a link that is off, and what the owner gave by hand
\* lasts until the owner or the member ends it, as long as no transaction overtook
\* another: for any people, links and requests under way at once.
THEOREM LinksGrantWhileOn == shareSpec => [](TakenBack /\ HandStays)
<1>1. ShareInv => TakenBack /\ HandStays
  BY DEF ShareInv, TakenBack, HandStays, AccessInv, Access, Active
<1> QED
  BY <1>1, ShareInvHolds, PTL

\* A join lowers no role, as long as no transaction overtook another: the plan of a
\* join lifts or keeps the role it read, and what is written is the plan.
THEOREM JoinsLowerNobody == shareSpec => NeverLowered
<1> DEFINE Good == \A u \in User : (/\ Active(members[u]) /\ Active(members'[u])
                                    /\ \E c \in shareCalls : c.op = "join" /\ c.at = "read" /\ c \notin shareCalls'
                                    /\ ~raced')
                                   => RANK(members'[u].role) >= RANK(members[u].role)
<1>1. ASSUME ShareInv, ShareInv', [shareNext]_shareVars PROVE [Good]_shareVars
  <2> SUFFICES ASSUME NEW u \in User, Active(members[u]), Active(members'[u]), ~raced',
                      NEW c \in shareCalls, c.op = "join", c.at = "read", c \notin shareCalls'
               PROVE  RANK(members'[u].role) >= RANK(members[u].role)
    BY Zenon
  <2>1. RANK(members[u].role) \in 1 .. 3
    BY DEF RANK
  <2>2. CASE members' = members
    BY <2>1, <2>2
  <2>3. CASE members' # members
    <3>1. Commits
      BY <1>1, <2>3 DEF shareVars, shareNext, ShareStep, accessVars, Reads, ListRead, ListShown, ShareAnswered, TheirAnswer,
         QueryView, ShareDialog, MemberRoleSelect, OwnerActions, LeaveButton, PendingInvites, ShareLinkRows, toggle, rotate,
         InviteForm, ConfirmDialog, ShareAnswerLost, JoinLinkPage, JoinActions, AcceptInvitePage, InviteActions,
         leaveProject, SecondTab, Ask, Send, Stay, onConfirm
    <3>2. PICK d \in shareCalls :
            /\ d.at = "read"
            /\ \/ Committed(d, WriteOver(members, d.saw[1], d.plan.members), WriteOver(links, d.saw[2], d.plan.links),
                            WriteOver(invites, d.saw[3], d.plan.invites))
               \/ Withdrawn(d)
      BY <3>1, CommitOutcome
    <3>3. ~Withdrawn(d)
      BY <2>3 DEF Withdrawn, accessVars
    <3>4. Committed(d, WriteOver(members, d.saw[1], d.plan.members), WriteOver(links, d.saw[2], d.plan.links),
                    WriteOver(invites, d.saw[3], d.plan.invites))
      BY <3>2, <3>3
    <3>5. d = c
      BY <3>4 DEF Committed, Advance
    <3>6. RowInv /\ Planned(d)
      BY <1>1, <3>2 DEF ShareInv, CallInv
    <3>7. members = d.saw[1]
      BY <3>4, <3>6, NothingBetween
    <3>8. members \in [User -> MemberRows] /\ PlanRows(d.plan)
      BY <3>6 DEF RowInv, Planned
    <3>9. WriteOver(members, d.saw[1], d.plan.members)[u] = RowAfter(d.plan.members, members, u)
      BY <3>8, <3>7, WrittenMembers DEF PlanRows
    <3>10. members'[u] = RowAfter(d.plan.members, members, u)
      BY <3>4, <3>9 DEF Committed
    <3>11. Lifts(d.plan, members)
      BY <3>5, <3>6, <3>7 DEF Planned
    <3> QED
      BY <3>10, <3>11 DEF Lifts
  <2> QED
    BY <2>2, <2>3
<1> QED
  BY <1>1, ShareInvHolds, PTL DEF shareSpec, NeverLowered
-----------------------------------------------------------------------------
(* The links: what a request about one may find, and what it does to them. *)

Turns == {"link", "unlink"}
Turning == {c \in shareCalls : c.mine /\ c.op \in Turns}
Stands(l, r, ls) == ls[l].state # "none" /\ ls[l].role = r
Sole(c, cs) == \A d \in cs : d.link = c.link => d = c

\* A link that is to be turned on is nobody else's yet; others were on once.
CallLink(c, cs, ls) ==
    /\ c.op = "link" => c.mine
    /\ c.op = "link" /\ c.at \in {"asked", "read"} => ls[c.link].state = "none" /\ Sole(c, cs)
    /\ c.op \in {"unlink", "join"} => ls[c.link].state # "none"
    /\ c.op = "unlink" /\ c.mine => ls[c.link].role = c.role

\* What a request that has read does to the links and the invites.
TurnsOff(l, c) == c.saw[2][l].state = "active" /\ c.plan.links[l] = [c.saw[2][l] EXCEPT !.state = "revoked"]
LinksPlan(c, ls) ==
    /\ \A l \in Link : c.saw[2][l].state # "none" => Stands(l, c.saw[2][l].role, ls)
    /\ c.op \notin Turns => DOMAIN c.plan.links = {}
    /\ c.op \in Turns => DOMAIN c.plan.invites = {}
    /\ c.op = "unlink" => \A l \in DOMAIN c.plan.links : l = c.link /\ TurnsOff(l, c)
    /\ c.op = "link" =>
         /\ c.saw[2][c.link] = ls[c.link] /\ c.link \in DOMAIN c.plan.links
         /\ c.plan.links[c.link] = [role |-> c.role, state |-> "active"]
         /\ \A l \in DOMAIN c.plan.links \ {c.link} : TurnsOff(l, c) /\ c.saw[2][l].role = c.role

LinkCalls(cs, ls) == \A c \in cs : CallLink(c, cs, ls) /\ (c.at = "read" => LinksPlan(c, ls))
LinkRowsTrue(q, ls) == \A row \in q.rows \cup q.got : Stands(row[1], row[2], ls)
LinkSeen(v, ls) == v.link # NoUser => ls[v.link].state # "none"
LinkInv == LinkCalls(shareCalls, links) /\ LinkRowsTrue(lists["links"], links) /\ LinkSeen(visit, links)

\* What a plan of what is read does to the links.
LEMMA PlansLinks ==
    ASSUME RowInv, NEW c \in shareCalls, Formed(c), c.at = "asked", Decide(c) # Refusal, LinkCalls(shareCalls, links),
           NEW d, d.op = c.op, d.link = c.link, d.role = c.role, d.plan = Decide(c), d.saw[2] = links
    PROVE  LinksPlan(d, links)
<1>1. links \in [Link -> LinkRows] /\ CallLink(c, shareCalls, links) /\ NoUser \notin Link
  BY SharingAssumption DEF RowInv, LinkCalls
<1>2. \A l \in Link : d.saw[2][l].state # "none" => Stands(l, d.saw[2][l].role, links)
  BY DEF Stands
<1>3. CASE c.op = "link"
  BY <1>1, <1>3, <1>2, NoRowsIs DEF Formed, LinkOps, CallLink, _active_link_for_role, Decide,
     create_share_link, Plan, Row, Overlay, LinksPlan, TurnsOff, Turns
<1>4. CASE c.op = "unlink"
  BY <1>4, NoRowsIs, <1>2 DEF Decide, revoke_share_link, Plan, Row, Turns, TurnsOff, LinksPlan
<1>5. CASE c.op \notin Turns
  <2>1. Decide(c).links = NoRows
    BY <1>5 DEF Decide, change_role, Plan, remove_member, transfer_ownership, join_share_link,
       create_invite, revoke_invite, accept_invite, decline_invite, Formed, UserOps, LinkOps, Turns
  <2> QED
    BY <1>2, <1>5, <2>1, NoRowsIs DEF LinksPlan, Turns
<1> QED
  BY <1>3, <1>4, <1>5 DEF Turns

\* What a commit does to one link: it is left alone, turned off, or turned on for
\* the first time.
Unturned(l, c) == links'[l] = links[l]
TurnedOff(l, c) ==
    /\ c.op \in Turns /\ links[l].state # "none" /\ links'[l] = [role |-> links[l].role, state |-> "revoked"]
    /\ c.mine => links[l].role = c.role
TurnedOn(l, c) ==
    c.op = "link" /\ l = c.link /\ links[l].state = "none" /\ links'[l] = [role |-> c.role, state |-> "active"]

\* The links after a commit.
LEMMA CommitLinks ==
    ASSUME ShareInv, LinkInv, NEW c \in shareCalls, c.at = "read",
           links' = WriteOver(links, c.saw[2], c.plan.links)
    PROVE  /\ \A l \in Link : Unturned(l, c) \/ TurnedOff(l, c) \/ TurnedOn(l, c)
           /\ c.op = "link" => TurnedOn(c.link, c)
<1> DEFINE saw == c.saw[2]
           rows == c.plan.links
           op == c.op
           role == c.role
           link == c.link
<1>1. /\ links \in [Link -> LinkRows] /\ saw \in [Link -> LinkRows]
      /\ DOMAIN rows \subseteq Link /\ \A l \in DOMAIN rows : rows[l] \in LinkRows
      /\ op \in UserOps \cup LinkOps /\ role \in LinkRole /\ (op \in LinkOps => link \in Link)
      /\ LinksPlan(c, links) /\ CallLink(c, shareCalls, links)
  BY DEF ShareInv, RowInv, CallInv, Planned, PlanRows, Formed, LinkInv, LinkCalls
<1>2. \A l \in Link : links'[l] = IF l \in DOMAIN rows THEN Overlay(ColumnsOf(saw[l], rows[l]), links[l]) ELSE links[l]
  BY <1>1 DEF WriteOver
<1>3. /\ \A l \in Link : saw[l].state # "none" => links[l].state # "none" /\ links[l].role = saw[l].role
      /\ op \notin Turns => DOMAIN rows = {}
      /\ op = "unlink" => \A l \in DOMAIN rows : l = link /\ saw[l].state = "active" /\ rows[l] = [saw[l] EXCEPT !.state = "revoked"]
      /\ op = "link" =>
         /\ saw[link] = links[link] /\ link \in DOMAIN rows /\ rows[link] = [role |-> role, state |-> "active"]
         /\ \A l \in DOMAIN rows \ {link} : saw[l].state = "active" /\ rows[l] = [saw[l] EXCEPT !.state = "revoked"] /\ saw[l].role = role
  BY <1>1 DEF LinksPlan, TurnsOff, Stands
<1>4. /\ op = "link" => links[link].state = "none"
      /\ op = "unlink" /\ c.mine => links[link].role = role
  BY <1>1 DEF CallLink
<1> HIDE DEF saw, rows, op, role, link
<1>5. ASSUME NEW l \in DOMAIN rows, saw[l].state = "active", rows[l] = [saw[l] EXCEPT !.state = "revoked"]
      PROVE  links'[l] = [role |-> links[l].role, state |-> "revoked"] /\ links[l].state # "none" /\ links[l].role = saw[l].role
  <2>1. links'[l] = Overlay(ColumnsOf(saw[l], rows[l]), links[l])
    BY <1>1, <1>2
  <2>2. saw[l] \in LinkRows /\ links[l] \in LinkRows
    BY <1>1
  <2>3. PICK s \in LinkRows, n \in LinkRows : s = saw[l] /\ n = links[l]
    BY <2>2
  <2>4. Overlay(ColumnsOf(s, [s EXCEPT !.state = "revoked"]), n) = [role |-> n.role, state |-> "revoked"]
    <3> DEFINE t == [s EXCEPT !.state = "revoked"]
               k == ColumnsOf(s, t)
    <3>1. s.state = "active" /\ DOMAIN s = {"role", "state"} /\ DOMAIN n = {"role", "state"}
          /\ n = [role |-> n.role, state |-> n.state]
      BY <1>5, <2>3 DEF LinkRows
    <3>2. t.role = s.role /\ t.state = "revoked"
      BY <3>1
    <3>3. DOMAIN k = {"state"} /\ k["state"] = "revoked"
      BY <3>1, <3>2 DEF ColumnsOf
    <3> HIDE DEF t, k
    <3>4. Overlay(k, n) = [x \in {"role", "state"} |-> IF x \in {"state"} THEN k[x] ELSE n[x]]
      BY <3>1, <3>3 DEF Overlay
    <3>5. Overlay(k, n) = [role |-> n.role, state |-> "revoked"]
      BY <3>3, <3>4
    <3> QED
      BY <3>5 DEF k, t
  <2> QED
    BY <1>1, <1>3, <1>5, <2>1, <2>3, <2>4
<1>6. ASSUME op = "link" PROVE TurnedOn(link, c) /\ link \in Link
  BY <1>1, <1>2, <1>3, <1>6, ColumnsMakeLink, <1>4 DEF TurnedOn, op, link, role
<1>7. ASSUME NEW l \in Link PROVE Unturned(l, c) \/ TurnedOff(l, c) \/ TurnedOn(l, c)
  <2>1. CASE l \notin DOMAIN rows
    BY <1>2, <2>1 DEF Unturned
  <2>2. CASE l \in DOMAIN rows /\ op = "unlink"
    BY <1>3, <1>5, <2>2, <1>4 DEF TurnedOff, Turns, op, link, role
  <2>3. CASE l \in DOMAIN rows /\ op = "link" /\ l # link
    BY <1>3, <1>5, <2>3 DEF TurnedOff, Turns, op, role
  <2>4. CASE l \in DOMAIN rows /\ op = "link" /\ l = link
    BY <1>6, <2>4
  <2> QED
    BY <1>3, <2>1, <2>2, <2>3, <2>4 DEF Turns
<1> QED
  BY <1>6, <1>7 DEF op, link


\* A request on its way to be decided or answered keeps what is known of the links.
LEMMA AdvancedCall ==
    ASSUME LinkCalls(shareCalls, links), NEW c \in shareCalls, NEW d,
           d.op = c.op, d.link = c.link, d.role = c.role, d.mine = c.mine,
           d.at \in {"asked", "read"} => c.at \in {"asked", "read"}, d.at = "read" => LinksPlan(d, links)
    PROVE  LinkCalls((shareCalls \ {c}) \cup {d}, links)
  BY DEF LinkCalls, CallLink, Sole

\* A request fewer, too.
LEMMA FewerCalls ==
    ASSUME LinkCalls(shareCalls, links), NEW c
    PROVE  LinkCalls(shareCalls \ {c}, links)
  BY DEF LinkCalls, CallLink, Sole

\* A request more, about a link that is free or was on once, or about none.
MayAsk(r) ==
    /\ r.at = "asked"
    /\ \/ r.op \notin LinkOps /\ r.link = NoUser
       \/ r.op = "link" /\ r.mine /\ r.link \in FreeLink
       \/ r.op \in {"unlink", "join"} /\ links[r.link].state # "none" /\ (r.op = "unlink" /\ r.mine => links[r.link].role = r.role)
LEMMA OneMoreCall ==
    ASSUME LinkCalls(shareCalls, links), CallInv, NEW r, MayAsk(r)
    PROVE  LinkCalls(shareCalls \cup {r}, links)
  BY SharingAssumption DEF LinkCalls, CallInv, Formed, LinkOps, CallLink, MayAsk, FreeLink, Sole

\* What was on once stays so after a commit.
LEMMA CommitStands ==
    ASSUME NEW c, \A l \in Link : Unturned(l, c) \/ TurnedOff(l, c) \/ TurnedOn(l, c)
    PROVE  \A l \in Link : \A r : Stands(l, r, links) => Stands(l, r, links')
<1> SUFFICES ASSUME NEW l \in Link, NEW r, Stands(l, r, links) PROVE Stands(l, r, links')
  OBVIOUS
<1>1. Unturned(l, c) \/ TurnedOff(l, c) \/ TurnedOn(l, c)
  OBVIOUS
<1> QED
  BY <1>1 DEF Unturned, TurnedOff, TurnedOn, Stands

\* The requests after a commit: a link that another is to turn on is not touched.
LEMMA CommitCalls ==
    ASSUME ShareInv, LinkInv, NEW c \in shareCalls, c.at = "read",
           \A l \in Link : Unturned(l, c) \/ TurnedOff(l, c) \/ TurnedOn(l, c), c.op = "link" => TurnedOn(c.link, c),
           NEW d, d.op = c.op, d.link = c.link, d.role = c.role, d.mine = c.mine, d.at = "done"
    PROVE  LinkCalls((shareCalls \ {c}) \cup {d}, links')
<1> DEFINE cs == (shareCalls \ {c}) \cup {d}
<1>1. LinkCalls(cs, links) /\ LinkCalls(shareCalls, links)
  BY AdvancedCall DEF LinkInv
<1>2. \A l \in Link : \A r : Stands(l, r, links) => Stands(l, r, links')
  BY CommitStands
<1>3. ASSUME NEW l \in Link, links[l].state # "none" PROVE links'[l].state # "none" /\ links'[l].role = links[l].role
  BY <1>2, <1>3 DEF Stands
<1>4. ASSUME NEW e \in shareCalls, e # c
      PROVE  CallLink(e, cs, links') /\ (e.at = "read" => LinksPlan(e, links'))
  <2>1. CallLink(e, cs, links) /\ CallLink(e, shareCalls, links) /\ (e.at = "read" => LinksPlan(e, links)) /\ Formed(e)
    BY <1>1, <1>4 DEF LinkCalls, ShareInv, CallInv
  <2>2. e.op \in {"link", "unlink", "join"} => e.link \in Link
    BY <2>1 DEF Formed, LinkOps
  <2>3. ASSUME e.op = "link", e.at \in {"asked", "read"} PROVE links'[e.link] = links[e.link]
    BY <1>4, <2>1, <2>2, <2>3 DEF CallLink, Sole, Unturned, TurnedOff, TurnedOn
  <2>4. CallLink(e, cs, links')
    BY <1>3, <2>1, <2>2, <2>3 DEF CallLink
  <2>5. ASSUME e.at = "read" PROVE LinksPlan(e, links')
    BY <2>1, <2>5, <1>2, <2>3 DEF LinksPlan
  <2> QED
    BY <2>4, <2>5
<1>5. CallLink(d, cs, links')
  BY <1>1, <1>3 DEF LinkCalls, ShareInv, CallInv, Formed, LinkOps, CallLink
<1> QED
  BY <1>4, <1>5 DEF LinkCalls


\* Queries started show no link they did not show.
LEMMA StartedRows ==
    ASSUME NEW ls, ListsOK(ls), NEW qs, NEW now, LinkRowsTrue(ls["links"], now)
    PROVE  LinkRowsTrue(Start(ls, qs)["links"], now)
  BY DEF Start, Query, ListsOK, Lists, LinkRowsTrue

\* The links that are on are known as they are.
LEMMA ListedStand == \A row \in listShareLinks : Stands(row[1], row[2], links)
BY DEF listShareLinks, Stands

\* Requests that read or commit keep what is known of the links.
LEMMA LinkInvServer ==
    ASSUME ShareInv, LinkInv, Reads \/ Commits
    PROVE  LinkInv'
<1>1. CASE Reads
  <2>1. PICK c \in shareCalls : /\ c.at = "asked"
                                /\ Advance(c, IF Decide(c) = Refusal THEN [c EXCEPT !.at = "refused"]
                                              ELSE [c EXCEPT !.at = "read", !.plan = Decide(c), !.saw = <<members, links, invites>>])
                                /\ UNCHANGED <<accessVars, lists, visit>>
    BY <1>1 DEF Reads
  <2> DEFINE d == IF Decide(c) = Refusal THEN [c EXCEPT !.at = "refused"]
                  ELSE [c EXCEPT !.at = "read", !.plan = Decide(c), !.saw = <<members, links, invites>>]
  <2>2. Formed(c) /\ RowInv /\ LinkCalls(shareCalls, links)
    BY DEF ShareInv, CallInv, LinkInv
  <2>3. shareCalls' = (shareCalls \ {c}) \cup {d} /\ links' = links
    BY <2>1 DEF Advance, accessVars
  <2>4. d.op = c.op /\ d.link = c.link /\ d.role = c.role /\ d.mine = c.mine
    BY <2>2 DEF Formed, Fields
  <2>5. d.at = "read" => LinksPlan(d, links)
    <3>1. CASE Decide(c) = Refusal
      BY <2>2, <3>1 DEF Formed, Fields
    <3>2. CASE Decide(c) # Refusal
      <4>1. d.plan = Decide(c) /\ d.saw[2] = links
        BY <2>2, <3>2 DEF Formed, Fields
      <4> HIDE DEF d
      <4> QED
        BY <2>1, <2>2, <2>4, <3>2, <4>1, PlansLinks
    <3> QED
      BY <3>1, <3>2
  <2> HIDE DEF d
  <2>6. LinkCalls(shareCalls', links)
    BY <2>1, <2>2, <2>3, <2>4, <2>5, AdvancedCall
  <2> QED
    BY <2>1, <2>3, <2>6 DEF LinkInv
<1>2. CASE Commits
  <2>1. PICK c \in shareCalls :
          /\ c.at = "read"
          /\ \/ Committed(c, WriteOver(members, c.saw[1], c.plan.members), WriteOver(links, c.saw[2], c.plan.links),
                          WriteOver(invites, c.saw[3], c.plan.invites))
             \/ Withdrawn(c)
    BY <1>2, CommitOutcome
  <2>2. Formed(c)
    BY DEF ShareInv, CallInv
  <2>3. CASE Withdrawn(c)
    BY <2>3, <2>2, AdvancedCall DEF Withdrawn, Advance, accessVars, Formed, Fields, LinkInv
  <2>4. CASE ~Withdrawn(c)
    <3> DEFINE d == [c EXCEPT !.at = "done", !.plan = Refusal, !.saw = << >>]
    <3>1. shareCalls' = (shareCalls \ {c}) \cup {d} /\ UNCHANGED <<lists, visit>>
          /\ links' = WriteOver(links, c.saw[2], c.plan.links)
      BY <2>1, <2>4 DEF Committed, Advance
    <3>2. d.op = c.op /\ d.link = c.link /\ d.role = c.role /\ d.mine = c.mine /\ d.at = "done"
      BY <2>2 DEF Formed, Fields
    <3> HIDE DEF d
    <3>3. /\ \A l \in Link : Unturned(l, c) \/ TurnedOff(l, c) \/ TurnedOn(l, c)
          /\ c.op = "link" => TurnedOn(c.link, c)
      BY <2>1, <3>1, CommitLinks
    <3>4. LinkCalls(shareCalls', links')
      BY <2>1, <3>1, <3>2, <3>3, CommitCalls
    <3>5. \A l \in Link : \A r : Stands(l, r, links) => Stands(l, r, links')
      BY <3>3, CommitStands
    <3>6. LinkRowsTrue(lists["links"], links')
      BY <3>5 DEF ShareInv, DialogInv, ListsOK, Lists, RowsOf, Query, LinkInv, LinkRowsTrue
    <3>7. LinkSeen(visit, links')
      BY <3>5 DEF ShareInv, DialogInv, Visits, NoVisit, LinkInv, LinkSeen, Stands
    <3> QED
      BY <3>1, <3>4, <3>6, <3>7 DEF LinkInv
  <2> QED
    BY <2>3, <2>4
<1> QED
  BY <1>1, <1>2

\* So do the lists as they are fetched and shown.
LEMMA LinkInvLists ==
    ASSUME ShareInv, LinkInv, ListRead \/ ListShown \/ QueryView \/ ShareDialog
    PROVE  LinkInv'
<1>1. ListsOK(lists) /\ LinkRowsTrue(lists["links"], links)
  BY DEF ShareInv, DialogInv, LinkInv
<1>2. links' = links /\ shareCalls' = shareCalls /\ visit' = visit
  BY DEF ListRead, ListShown, QueryView, ShareDialog, accessVars
<1>3. LinkRowsTrue(lists'["links"], links)
  <2>1. CASE ListRead
    <3>1. PICK q \in Query : lists' = [lists EXCEPT ![q] = IF Readable(q) THEN [@ EXCEPT !.at = "read", !.got = Answer(q)]
                                                           ELSE [@ EXCEPT !.at = "failed"]]
      BY <2>1 DEF ListRead
    <3> DEFINE l == lists["links"]
               new == lists'["links"]
    <3>2. l \in Lists("links") /\ DOMAIN lists = Query
      BY <1>1 DEF ListsOK, Query
    <3>3. new = l \/ (q = "links" /\ new = [l EXCEPT !.at = "failed"])
          \/ (q = "links" /\ new = [l EXCEPT !.at = "read", !.got = Answer(q)])
      BY <3>1, <3>2 DEF Query
    <3> HIDE DEF l, new
    <3>4. new.rows = l.rows /\ (new.got = l.got \/ new.got = listShareLinks)
      BY <3>2, <3>3 DEF Lists, Answer
    <3> QED
      BY <1>1, <3>4, ListedStand DEF LinkRowsTrue, l, new
  <2>2. CASE ListShown
    <3>1. PICK q \in Query : lists' = useSharing([lists EXCEPT ![q] = [@ EXCEPT !.at = "none", !.rows = lists[q].got, !.got = {},
                                                                               !.known = TRUE]], share.open)
      BY <2>2 DEF ListShown
    <3> DEFINE r == [lists[q] EXCEPT !.at = "none", !.rows = lists[q].got, !.got = {}, !.known = TRUE]
               ls == [lists EXCEPT ![q] = r]
               l == lists["links"]
               new == ls["links"]
    <3>2. lists[q] \in Lists(q) /\ DOMAIN lists = Query
      BY <1>1 DEF ListsOK
    <3>3. r \in Lists(q) /\ r.rows = lists[q].got /\ r.got = {} /\ r.at = "none"
      BY <3>2 DEF Lists
    <3>4. lists' = useSharing(ls, share.open)
      BY <3>1
    <3>5. new = IF q = "links" THEN r ELSE l
      BY <3>2 DEF Query
    <3> HIDE DEF r
    <3>6. ListsOK(ls)
      BY <1>1, <3>3, OneList
    <3>7. LinkRowsTrue(new, links)
      BY <1>1, <3>3, <3>5 DEF LinkRowsTrue
    <3> HIDE DEF ls
    <3> QED
      BY <3>4, <3>6, <3>7, StartedRows DEF useSharing
  <2>3. CASE QueryView \/ ShareDialog
    BY <2>3, <1>1, StartedRows DEF QueryView, ShareDialog, useSharing
  <2> QED
    BY <2>1, <2>2, <2>3
<1> QED
  BY <1>2, <1>3 DEF LinkInv

\* What leaves the links, the lists and the page of the others alone and asks for
\* nothing that it may not.
LEMMA LinkInvAsks ==
    ASSUME ShareInv, LinkInv, links' = links, LinkRowsTrue(lists'["links"], links), LinkSeen(visit', links),
           \/ shareCalls' = shareCalls
           \/ \E r : MayAsk(r) /\ shareCalls' = shareCalls \cup {r}
           \/ \E c : shareCalls' = shareCalls \ {c}
    PROVE  LinkInv'
  BY OneMoreCall, FewerCalls DEF ShareInv, LinkInv


\* A request the dialog makes.
LEMMA DialogMayAsk ==
    ASSUME NEW op, NEW user, NEW role, NEW link, Ask(op, user, role, link),
           \/ op \notin LinkOps /\ link = NoUser
           \/ op = "link" /\ link \in FreeLink
           \/ op = "unlink" /\ Stands(link, role, links)
    PROVE  /\ links' = links /\ lists' = lists /\ visit' = visit
           /\ \E r : MayAsk(r) /\ shareCalls' = shareCalls \cup {r}
  BY DEF Request, Ask, accessVars, MayAsk, Stands

\* A request of somebody else's.
LEMMA OthersMayAsk ==
    ASSUME NEW op, NEW u, NEW user, NEW link, NEW token, Send(op, u, user, link, token),
           \/ op \notin LinkOps /\ link = NoUser
           \/ op \in {"unlink", "join"} /\ links[link].state # "none"
    PROVE  /\ links' = links /\ lists' = lists
           /\ \E r : MayAsk(r) /\ shareCalls' = shareCalls \cup {r}
  BY DEF Request, Send, accessVars, MayAsk

\* The dialog's buttons ask for links that are free or shown.
LEMMA LinkInvDialog ==
    ASSUME ShareInv, LinkInv,
           MemberRoleSelect \/ OwnerActions \/ LeaveButton \/ PendingInvites \/ ShareLinkRows \/ InviteForm \/ ConfirmDialog
    PROVE  LinkInv'
<1>1. LinkRowsTrue(lists["links"], links) /\ LinkSeen(visit, links)
  BY DEF LinkInv
<1>2. CASE UNCHANGED <<accessVars, shareCalls, lists, visit>>
  BY <1>1, <1>2, LinkInvAsks DEF accessVars
<1>3. CASE \E op, user, role : Ask(op, user, role, NoUser) /\ op \notin LinkOps
  BY <1>1, <1>3, DialogMayAsk, LinkInvAsks
<1>4. CASE \E r : FreeLink # {} /\ Ask("link", NoUser, r, CHOOSE l \in FreeLink : TRUE)
  BY <1>4, <1>1, DialogMayAsk, LinkInvAsks
<1>5. CASE \E r \in LinkRole : \E l \in LinkOf(r) : Ask("unlink", NoUser, r, l)
  BY <1>5, <1>1, DialogMayAsk, LinkInvAsks DEF LinkOf, LinkRowsTrue, Shown
<1>6. CASE MemberRoleSelect
  BY <1>3, <1>6 DEF MemberRoleSelect, LinkOps
<1>7. CASE OwnerActions \/ LeaveButton \/ PendingInvites
  BY <1>2, <1>7 DEF OwnerActions, LeaveButton, PendingInvites, onConfirm
<1>8. CASE ShareLinkRows
  BY <1>4, <1>5, <1>2, <1>8 DEF toggle, rotate, onConfirm, ShareLinkRows
<1>9. CASE InviteForm
  BY <1>2, <1>3, <1>9 DEF InviteForm, LinkOps
<1>10. CASE ConfirmDialog
  <2> DEFINE f == share.confirm
  <2>1. f # NoConfirm /\ f \in Confirms
    BY <1>10 DEF ConfirmDialog, ShareInv, DialogInv, ShareOK
  <2>2. f.op # "link" => f.op \notin LinkOps /\ f.link = NoUser
    BY <2>1 DEF Confirms, LinkOps
  <2>3. \/ f.op # "link" /\ Ask(f.op, f.user, f.role, f.link)
        \/ f.op = "link" /\ FreeLink # {} /\ Ask("link", NoUser, f.role, CHOOSE l \in FreeLink : TRUE)
        \/ UNCHANGED <<accessVars, shareCalls, lists, urls, visit, elsewhere>>
    BY <1>10 DEF ConfirmDialog
  <2> HIDE DEF f
  <2> QED
    BY <1>2, <1>3, <1>4, <2>2, <2>3
<1> QED
  BY <1>6, <1>7, <1>8, <1>9, <1>10

\* So do the answers, and the others on their pages.
LEMMA LinkInvOthers ==
    ASSUME ShareInv, LinkInv,
           \/ ShareAnswered \/ ShareAnswerLost \/ TheirAnswer
           \/ JoinLinkPage \/ JoinActions \/ AcceptInvitePage \/ InviteActions \/ leaveProject \/ SecondTab
    PROVE  LinkInv'
<1>1. LinkRowsTrue(lists["links"], links) /\ LinkSeen(visit, links) /\ LinkSeen(NoVisit, links) /\ ListsOK(lists)
  BY DEF LinkInv, LinkSeen, NoVisit, ShareInv, DialogInv
<1>2. CASE ShareAnswered
  BY <1>2, <1>1, StartedRows, LinkInvAsks DEF ShareAnswered, Again, accessVars
<1>3. CASE ShareAnswerLost
  <2>1. PICK c \in shareCalls : c.at = "done" /\ Advance(c, [c EXCEPT !.at = "refused"]) /\ UNCHANGED <<accessVars, lists, visit>>
    BY <1>3 DEF ShareAnswerLost
  <2> DEFINE d == [c EXCEPT !.at = "refused"]
  <2>2. d.op = c.op /\ d.link = c.link /\ d.role = c.role /\ d.mine = c.mine /\ d.at = "refused"
    BY DEF ShareInv, CallInv, Formed, Fields
  <2>3. shareCalls' = (shareCalls \ {c}) \cup {d} /\ links' = links /\ UNCHANGED <<lists, visit>>
    BY <2>1 DEF Advance, accessVars
  <2> HIDE DEF d
  <2>4. LinkCalls(shareCalls', links)
    BY <2>2, <2>3, AdvancedCall DEF LinkInv
  <2> QED
    BY <1>1, <2>3, <2>4 DEF LinkInv
<1>4. CASE TheirAnswer
  BY <1>4, <1>1, LinkInvAsks DEF TheirAnswer, accessVars
<1>5. CASE JoinLinkPage
  BY <1>5, <1>1, LinkInvAsks DEF JoinLinkPage, NoVisit, LinkSeen, Stay, accessVars
<1>6. CASE JoinActions
  BY <1>6, <1>1, SharingAssumption, LinkInvAsks, OthersMayAsk DEF JoinActions, ShareInv, DialogInv,
     Visits, NoVisit, LinkSeen, Stay, accessVars
<1>7. CASE AcceptInvitePage
  BY <1>7, <1>1, LinkInvAsks DEF AcceptInvitePage, NoVisit, Stay, accessVars, LinkSeen
<1>8. CASE InviteActions
  BY <1>8, <1>1, OthersMayAsk, LinkInvAsks DEF InviteActions, LinkOps
<1>9. CASE leaveProject
  BY <1>9, <1>1, OthersMayAsk, LinkInvAsks DEF leaveProject, LinkOps
<1>10. CASE SecondTab
  BY <1>10, <1>1, OthersMayAsk, LinkInvAsks DEF SecondTab, LinkOps
<1> QED
  BY <1>2, <1>3, <1>4, <1>5, <1>6, <1>7, <1>8, <1>9, <1>10

\* Every step.
LEMMA LinkInvNext == ASSUME ShareInv, LinkInv, [shareNext]_shareVars PROVE LinkInv'
  BY LinkInvServer, LinkInvLists, LinkInvDialog, LinkInvOthers DEF shareNext, ShareStep, shareVars,
     LinkInv

\* What is known of the links holds at all times.
LEMMA LinkInvStart == ASSUME shareInit PROVE LinkInv
BY DEF shareInit, LinkInv, LinkCalls, LinkRowsTrue, LinkSeen, Query, NoVisit


-----------------------------------------------------------------------------
(* The lists: what they show, unless an answer is on its way that says they   *)
(* are to be fetched again.                                                  *)

Affects(c) == IF c.op \in Turns THEN invalidateLinks ELSE invalidate
Heard(q) == \A c \in shareCalls : c.mine /\ c.at = "done" => q \notin Affects(c)
QueryTrue(q) ==
    Heard(q) =>
        /\ lists[q].at = "read" => lists[q].got = Answer(q)
        /\ Enabled(lists, share.open, q) /\ lists[q].at = "none" => lists[q].rows = Answer(q)
ListInv == ~elsewhere => \A q \in Query : QueryTrue(q)

\* Queries started keep their rows; the others are left alone.
LEMMA StartedLists ==
    ASSUME NEW ls, ListsOK(ls), NEW qs
    PROVE  \A q \in Query : /\ Start(ls, qs)[q].rows = ls[q].rows
                            /\ q \in qs => Start(ls, qs)[q].at = "asked"
                            /\ q \notin qs => Start(ls, qs)[q] = ls[q]
  BY DEF Start, ListsOK, Lists

\* The server's rows decide the answers.
LEMMA SameAnswers ==
    ASSUME UNCHANGED <<members, links, invites>>
    PROVE  \A q : Answer(q)' = Answer(q)
BY DEF Answer, listMembers, listInvites, listShareLinks, Pending

\* Which queries are enabled depends on the members shown.
LEMMA SameEnabled ==
    ASSUME NEW ls, NEW new, new["members"].rows = ls["members"].rows, NEW open
    PROVE  \A q : Enabled(new, open, q) = Enabled(ls, open, q)
BY DEF Enabled

\* To show that the lists are true it is enough to look at one that nothing is to
\* be heard about.
LEMMA ListInvFrom ==
    ASSUME \A q \in Query : ~elsewhere' /\ Heard(q)' =>
              /\ lists'[q].at = "read" => lists'[q].got = Answer(q)'
              /\ Enabled(lists', share'.open, q) /\ lists'[q].at = "none" => lists'[q].rows = Answer(q)'
    PROVE  ListInv'
BY DEF ListInv, QueryTrue, Enabled

\* What leaves the rows of the server and the dialog's lists alone and answers no
\* request of the dialog's that was carried out.
LEMMA ListInvQuiet ==
    ASSUME ListInv, UNCHANGED <<members, links, invites>>, lists' = lists, share'.open = share.open, elsewhere' = elsewhere,
           \A c \in shareCalls : c.mine /\ c.at = "done" => c \in shareCalls'
    PROVE  ListInv'
  BY SameAnswers, ListInvFrom DEF Heard, Affects, ListInv, QueryTrue


\* The lists as they are fetched and shown.
LEMMA ListInvLists ==
    ASSUME ShareInv, ListInv, ListRead \/ ListShown \/ QueryView \/ ShareDialog
    PROVE  ListInv'
<1>1. ListsOK(lists) /\ ShareOK(share)
  BY DEF ShareInv, DialogInv
<1>2. UNCHANGED <<members, links, invites, shareCalls>>
  BY DEF ListRead, ListShown, QueryView, ShareDialog, accessVars
<1>3. \A q : Answer(q)' = Answer(q) /\ Heard(q)' = Heard(q)
  BY <1>2, SameAnswers DEF Heard, Affects
<1>4. CASE ListRead
  <2>1. PICK p \in Query : /\ UNCHANGED <<share, elsewhere>>
                           /\ lists' = [lists EXCEPT ![p] = IF Readable(p) THEN [@ EXCEPT !.at = "read", !.got = Answer(p)]
                                                            ELSE [@ EXCEPT !.at = "failed"]]
    BY <1>4 DEF ListRead
  <2> DEFINE l == lists[p]
             r == IF Readable(p) THEN [l EXCEPT !.at = "read", !.got = Answer(p)] ELSE [l EXCEPT !.at = "failed"]
  <2>2. l \in Lists(p) /\ DOMAIN lists = Query
    BY <1>1 DEF ListsOK
  <2>3. lists' = [lists EXCEPT ![p] = r]
    BY <2>1
  <2> HIDE DEF l
  <2>4. r.rows = l.rows /\ r.at # "none" /\ (r.at = "read" => r.got = Answer(p))
    BY <2>2 DEF Lists
  <2> HIDE DEF r
  <2>5. \A q \in Query : lists'[q] = IF q = p THEN r ELSE lists[q]
    BY <2>2, <2>3
  <2>6. lists'["members"].rows = lists["members"].rows
    BY <2>4, <2>5 DEF Query, l
  <2>7. \A q : Enabled(lists', share.open, q) = Enabled(lists, share.open, q)
    BY <2>6 DEF Enabled
  <2>8. ASSUME NEW q \in Query, ~elsewhere', Heard(q)'
        PROVE  /\ lists'[q].at = "read" => lists'[q].got = Answer(q)'
               /\ Enabled(lists', share'.open, q) /\ lists'[q].at = "none" => lists'[q].rows = Answer(q)'
    BY <1>3, <2>1, <2>8, <2>4, <2>5, <2>7 DEF ListInv, QueryTrue
  <2> QED
    BY <2>8, ListInvFrom
<1>5. CASE ListShown
  <2>1. PICK p \in Query : /\ UNCHANGED <<share, elsewhere>> /\ lists[p].at = "read"
                           /\ lists' = useSharing([lists EXCEPT ![p] = [@ EXCEPT !.at = "none", !.rows = lists[p].got, !.got = {},
                                                                                 !.known = TRUE]], share.open)
    BY <1>5 DEF ListShown
  <2> DEFINE l == lists[p]
             r == [l EXCEPT !.at = "none", !.rows = l.got, !.got = {}, !.known = TRUE]
             ls == [lists EXCEPT ![p] = r]
             on == {q \in Query : Enabled(ls, share.open, q) /\ ~Enabled(lists, share.open, q) /\ ls[q].at \in {"none", "failed"}}
  <2>2. l \in Lists(p) /\ DOMAIN lists = Query
    BY <1>1 DEF ListsOK
  <2>3. lists' = Start(ls, on)
    BY <2>1 DEF useSharing
  <2> HIDE DEF l
  <2>4. r \in Lists(p) /\ r.rows = l.got /\ r.got = {} /\ r.at = "none"
    BY <2>2 DEF Lists
  <2> HIDE DEF r
  <2>5. \A q \in Query : ls[q] = IF q = p THEN r ELSE lists[q]
    BY <2>2
  <2>6. ListsOK(ls)
    BY <1>1, <2>4, OneList
  <2> HIDE DEF ls
  <2>7. \A q \in Query : /\ lists'[q].rows = ls[q].rows
                         /\ q \in on => lists'[q].at = "asked"
                         /\ q \notin on => lists'[q] = ls[q]
    BY <2>3, <2>6, StartedLists
  <2>8. \A q : Enabled(lists', share.open, q) = Enabled(ls, share.open, q)
    BY <2>7 DEF Enabled, Query
  <2>9. ASSUME NEW q \in Query, ~elsewhere', Heard(q)'
        PROVE  /\ lists'[q].at = "read" => lists'[q].got = Answer(q)'
               /\ Enabled(lists', share'.open, q) /\ lists'[q].at = "none" => lists'[q].rows = Answer(q)'
    <3>1. QueryTrue(q) /\ Heard(q) /\ Answer(q)' = Answer(q)
      BY <1>3, <2>1, <2>9 DEF ListInv
    <3>2. CASE q \in on
      BY <2>7, <3>2
    <3>3. CASE q \notin on /\ q = p
      BY <2>1, <2>4, <2>5, <2>7, <3>1, <3>3 DEF QueryTrue, l
    <3>4. CASE q \notin on /\ q # p
      BY <2>5, <2>7, <3>4, <2>8, <2>1, <3>1 DEF QueryTrue
    <3> QED
      BY <3>2, <3>3, <3>4
  <2> QED
    BY <2>9, ListInvFrom
<1>6. CASE QueryView
  BY <1>6, <1>1, StartedLists, <1>3, ListInvFrom DEF QueryView, Enabled, Query, ListInv, QueryTrue
<1>7. CASE ShareDialog
  <2> DEFINE on == {q \in Query : Enabled(lists, ~share.open, q) /\ ~Enabled(lists, share.open, q) /\ lists[q].at \in {"none", "failed"}}
  <2>1. /\ share' = [share EXCEPT !.open = ~@] /\ lists' = Start(lists, on)
        /\ elsewhere' = (elsewhere /\ (share.open \/ \E q \in Query : lists[q].at \in {"asked", "read"}))
    BY <1>7 DEF ShareDialog, useSharing
  <2>2. \A q \in Query : /\ lists'[q].rows = lists[q].rows
                         /\ q \in on => lists'[q].at = "asked"
                         /\ q \notin on => lists'[q] = lists[q]
    BY <1>1, <2>1, StartedLists
  <2>3. share'.open = ~share.open
    BY <1>1, <2>1 DEF ShareOK
  <2>4. \A q : Enabled(lists', share'.open, q) = Enabled(lists, ~share.open, q)
    BY <2>2, <2>3 DEF Enabled, Query
  <2>5. ASSUME NEW q \in Query, ~elsewhere', Heard(q)'
        PROVE  /\ lists'[q].at = "read" => lists'[q].got = Answer(q)'
               /\ Enabled(lists', share'.open, q) /\ lists'[q].at = "none" => lists'[q].rows = Answer(q)'
    <3>1. ASSUME lists'[q].at = "read" PROVE lists'[q].got = Answer(q)'
      <4>1. lists'[q] = lists[q]
        BY <2>2, <3>1
      <4>2. ~elsewhere
        BY <2>1, <2>5, <3>1, <4>1
      <4> QED
        BY <1>3, <2>5, <3>1, <4>1, <4>2 DEF ListInv, QueryTrue
    <3>2. ASSUME Enabled(lists', share'.open, q), lists'[q].at = "none" PROVE FALSE
      <4>1. q \notin on /\ lists[q].at = "none"
        BY <2>2, <3>2
      <4>2. Enabled(lists, ~share.open, q) /\ ~Enabled(lists, share.open, q)
        BY <2>4, <3>2 DEF Enabled
      <4> QED
        BY <4>1, <4>2
    <3> QED
      BY <3>1, <3>2
  <2> QED
    BY <2>5, ListInvFrom
<1> QED
  BY <1>4, <1>5, <1>6, <1>7

\* The dialog hears an answer: what is to be fetched again is, or it is not told.
LEMMA ListInvAnswered ==
    ASSUME ShareInv, ListInv, ShareAnswered
    PROVE  ListInv'
<1>1. PICK c \in shareCalls :
        /\ c.mine /\ c.at \in {"done", "refused"} /\ shareCalls' = shareCalls \ {c}
        /\ share' = IF c.op # "invite" THEN share
                    ELSE IF c.at = "done" THEN [share EXCEPT !.email = NoUser, !.error = FALSE]
                    ELSE [share EXCEPT !.error = TRUE]
        /\ \E qs \in {IF c.at = "refused" THEN {} ELSE IF c.op \in {"link", "unlink"} THEN invalidateLinks ELSE invalidate} :
              lists' = Again(qs) /\ elsewhere' = (elsewhere \/ Unheard(qs))
        /\ UNCHANGED accessVars
  BY Zenon DEF ShareAnswered
<1>2. PICK qs : /\ qs = IF c.at = "refused" THEN {} ELSE Affects(c)
                /\ lists' = Again(qs) /\ elsewhere' = (elsewhere \/ Unheard(qs))
  BY <1>1 DEF Affects, Turns
<1> DEFINE on == {q \in qs : Enabled(lists, share.open, q) /\ (lists[q].known \/ lists[q].at \in {"none", "failed"})}
<1>3. lists' = Start(lists, on)
  BY <1>2 DEF Again
<1>4. ListsOK(lists) /\ ShareOK(share)
  BY DEF ShareInv, DialogInv
<1>5. \A q \in Query : /\ lists'[q].rows = lists[q].rows
                       /\ q \in on => lists'[q].at = "asked"
                       /\ q \notin on => lists'[q] = lists[q]
  BY <1>3, <1>4, StartedLists
<1>6. share'.open = share.open
  BY <1>1, <1>4 DEF ShareOK
<1>7. \A q : Enabled(lists', share'.open, q) = Enabled(lists, share.open, q)
  BY <1>5, <1>6 DEF Enabled, Query
<1>8. \A q : Answer(q)' = Answer(q)
  BY <1>1, SameAnswers DEF accessVars
<1>9. ASSUME NEW q \in Query, ~elsewhere', Heard(q)'
      PROVE  /\ lists'[q].at = "read" => lists'[q].got = Answer(q)'
             /\ Enabled(lists', share'.open, q) /\ lists'[q].at = "none" => lists'[q].rows = Answer(q)'
  <2>1. ~elsewhere /\ \A p \in qs : lists'[p].at # "read"
    BY <1>2, <1>9 DEF Unheard
  <2>2. CASE q \in qs
    <3>1. Enabled(lists, share.open, q) => lists'[q].at # "none"
      BY <1>5, <2>2
    <3> QED
      BY <1>7, <2>1, <2>2, <3>1
  <2>3. CASE q \notin qs
    <3>1. ASSUME NEW d \in shareCalls, d.mine, d.at = "done" PROVE q \notin Affects(d)
      <4>1. CASE d = c
        BY <1>2, <2>3, <3>1, <4>1
      <4>2. CASE d # c
        BY <1>1, <1>9, <3>1, <4>2 DEF Heard, Affects
      <4> QED
        BY <4>1, <4>2
    <3>2. Heard(q)
      BY <3>1 DEF Heard
    <3>3. lists'[q] = lists[q]
      BY <1>5, <2>3
    <3> QED
      BY <1>7, <1>8, <2>1, <3>2, <3>3 DEF ListInv, QueryTrue
  <2> QED
    BY <2>2, <2>3
<1> QED
  BY <1>9, ListInvFrom


\* A commit changes nothing of what its request does not make the dialog fetch.
LEMMA ListInvCommits ==
    ASSUME ShareInv, LinkInv, ListInv, Commits
    PROVE  ListInv'
<1>1. PICK c \in shareCalls :
        /\ c.at = "read"
        /\ \/ Committed(c, WriteOver(members, c.saw[1], c.plan.members), WriteOver(links, c.saw[2], c.plan.links),
                        WriteOver(invites, c.saw[3], c.plan.invites))
           \/ Withdrawn(c)
  BY CommitOutcome
<1>2. Formed(c) /\ LinksPlan(c, links)
  BY <1>1 DEF ShareInv, CallInv, LinkInv, LinkCalls
<1>3. CASE Withdrawn(c)
  BY <1>3, <1>1, ListInvQuiet DEF Withdrawn, Advance, accessVars
<1>4. CASE ~Withdrawn(c)
  <2> DEFINE d == [c EXCEPT !.at = "done", !.plan = Refusal, !.saw = << >>]
  <2>1. /\ members' = WriteOver(members, c.saw[1], c.plan.members) /\ links' = WriteOver(links, c.saw[2], c.plan.links)
        /\ invites' = WriteOver(invites, c.saw[3], c.plan.invites)
        /\ shareCalls' = (shareCalls \ {c}) \cup {d} /\ UNCHANGED <<share, lists>>
        /\ elsewhere' = (elsewhere \/ (~MineAsked(c) /\ <<members', links', invites'>> # <<members, links, invites>>))
    BY <1>1, <1>4 DEF Committed, Advance
  <2>2. d.op = c.op /\ d.mine = c.mine /\ d.at = "done"
    BY <1>2 DEF Formed, Fields
  <2> HIDE DEF d
  <2>3. ASSUME NEW q \in Query, Heard(q)' PROVE Heard(q)
    BY <1>1, <2>1, <2>3 DEF Heard, Affects
  <2>4. CASE <<members', links', invites'>> = <<members, links, invites>>
    BY <2>4, SameAnswers, <2>1, <2>3, ListInvFrom DEF ListInv, QueryTrue
  <2>5. CASE <<members', links', invites'>> # <<members, links, invites>>
    <3>1. c.op \in Turns => invites' = invites
      BY <1>2, <2>1 DEF ShareInv, RowInv, LinksPlan, WriteOver
    <3>2. c.op \notin Turns => links' = links
      BY <1>2, <2>1 DEF ShareInv, RowInv, LinksPlan, WriteOver
    <3>3. ASSUME NEW q \in Query, ~elsewhere', Heard(q)'
          PROVE  /\ lists'[q].at = "read" => lists'[q].got = Answer(q)'
                 /\ Enabled(lists', share'.open, q) /\ lists'[q].at = "none" => lists'[q].rows = Answer(q)'
      <4>1. QueryTrue(q) /\ c.mine
        BY <2>1, <2>5, <3>3 DEF ListInv, MineAsked
      <4>2. Heard(q) /\ q \notin Affects(d)
        BY <2>1, <2>2, <2>3, <3>3, <4>1 DEF Heard, Affects
      <4>3. (c.op \in Turns /\ q = "invites") \/ (c.op \notin Turns /\ q = "links")
        BY <2>2, <4>2 DEF Affects, Query, invalidate, invalidateLinks
      <4>4. Answer(q)' = Answer(q)
        BY <3>1, <3>2, <4>3 DEF Answer, listInvites, listShareLinks, Pending
      <4> QED
        BY <2>1, <4>1, <4>2, <4>4 DEF QueryTrue
    <3> QED
      BY <3>3, ListInvFrom
  <2> QED
    BY <2>4, <2>5
<1> QED
  BY <1>3, <1>4

\* Every step.
LEMMA ListInvNext == ASSUME ShareInv, LinkInv, ListInv, [shareNext]_shareVars PROVE ListInv'
<1>0. ShareOK(share)
  BY DEF ShareInv, DialogInv
<1>1. CASE Commits
  BY <1>1, ListInvCommits
<1>2. CASE ListRead \/ ListShown \/ QueryView \/ ShareDialog
  BY <1>2, ListInvLists
<1>3. CASE ShareAnswered
  BY <1>3, ListInvAnswered
<1>4. CASE ShareAnswerLost
  BY <1>4 DEF ShareAnswerLost, ListInv
<1>5. CASE Reads
  BY <1>5, ListInvQuiet DEF Reads, Advance, accessVars
<1>6. CASE TheirAnswer
  BY <1>6, ListInvQuiet DEF TheirAnswer, accessVars
<1>7. CASE MemberRoleSelect \/ OwnerActions \/ LeaveButton \/ PendingInvites \/ ShareLinkRows \/ InviteForm \/ ConfirmDialog
  BY <1>7, <1>0, ListInvQuiet DEF MemberRoleSelect, OwnerActions, LeaveButton, PendingInvites,
     ShareLinkRows, toggle, rotate, InviteForm, ConfirmDialog, Ask, onConfirm, accessVars, ShareOK
<1>8. CASE JoinLinkPage \/ JoinActions \/ AcceptInvitePage \/ InviteActions \/ leaveProject \/ SecondTab
  BY <1>8, ListInvQuiet DEF JoinLinkPage, JoinActions, AcceptInvitePage, InviteActions, leaveProject,
     SecondTab, Stay, Send, accessVars
<1>9. CASE UNCHANGED shareVars
  BY <1>9, ListInvQuiet DEF shareVars
<1> QED
  BY <1>1, <1>2, <1>3, <1>4, <1>5, <1>6, <1>7, <1>8, <1>9 DEF shareNext, ShareStep

\* At first the members are asked for, and nothing is shown.
LEMMA ListInvStart == ASSUME shareInit PROVE ListInv
BY DEF shareInit, ListInv, QueryTrue, Query, Enabled


-----------------------------------------------------------------------------
(* The addresses: what is remembered opens the project, or no link of its role *)
(* is on, or the answer of the request about it is on its way.               *)

Works(l, r, ls) == ls[l] = [role |-> r, state |-> "active"]
Off(r, ls) == \A l \in Link : ~Works(l, r, ls)
Alone(ts) == \A c, d \in ts : c = d
AddressInv ==
    ~share.crossed =>
        /\ Alone(Turning)
        /\ \A c \in Turning : c.op = "link" /\ c.at = "done" => Works(c.link, c.role, links) \/ Off(c.role, links)
        /\ \A r \in LinkRole : urls[r] # NoUser =>
              Works(urls[r], r, links) \/ Off(r, links) \/ \E c \in Turning : c.at = "done" /\ c.role = r

\* A role has one link at most that is on.
LEMMA OneWorks ==
    ASSUME RowInv, NEW r \in LinkRole, NEW k \in Link, NEW l \in Link, Works(k, r, links), Works(l, r, links)
    PROVE  k = l
<1> DEFINE on == {x \in Link : links[x] = [role |-> r, state |-> "active"]}
<1>1. Cardinality(on) <= 1 /\ on \subseteq Link
  BY DEF RowInv, Unique
<1>2. k \in on /\ l \in on
  BY DEF Works
<1> HIDE DEF on
<1>3. IsFiniteSet(on)
  BY <1>1, FS_Subset, SharingAssumption
<1> SUFFICES ASSUME k # l PROVE FALSE
  OBVIOUS
<1>4. Cardinality({k}) = 1 /\ IsFiniteSet({k})
  BY FS_Singleton
<1>5. Cardinality({k} \cup {l}) = 2
  <2> DEFINE one == {k}
  <2>1. IsFiniteSet(one) /\ Cardinality(one) = 1 /\ l \notin one
    BY <1>4
  <2> HIDE DEF one
  <2>2. Cardinality(one \cup {l}) = Cardinality(one) + 1
    BY <2>1, FS_AddElement
  <2> QED
    BY <2>1, <2>2 DEF one
<1>6. Cardinality({k} \cup {l}) <= Cardinality(on) /\ Cardinality(on) \in Nat
  BY <1>2, <1>3, FS_Subset, FS_CardinalityType
<1> QED
  BY <1>1, <1>5, <1>6

\* What leaves links and addresses alone and carries out no request of the dialog's.
LEMMA AddressQuiet ==
    ASSUME AddressInv, links' = links, urls' = urls, ~share'.crossed => ~share.crossed /\ Alone(Turning'),
           \A c \in Turning' : c.at = "done" => c \in Turning, \A c \in Turning : c.at = "done" => c \in Turning'
    PROVE  AddressInv'
BY DEF AddressInv

\* A request that goes on without being carried out.
LEMMA AddressAdvance ==
    ASSUME AddressInv, links' = links, urls' = urls, share' = share, NEW c \in shareCalls, c.at # "done",
           NEW d, d.op = c.op, d.mine = c.mine, d.at # "done", shareCalls' = (shareCalls \ {c}) \cup {d}
    PROVE  AddressInv'
  BY AddressQuiet DEF Turning, AddressInv, Alone

\* A request more, which is about no link or the only one of the dialog's that is.
LEMMA AddressAsk ==
    ASSUME AddressInv, links' = links, urls' = urls, NEW r, shareCalls' = shareCalls \cup {r}, r.at = "asked",
           ~share'.crossed => ~share.crossed /\ (r.mine /\ r.op \in Turns => Turning = {})
    PROVE  AddressInv'
  BY AddressQuiet DEF Turning, AddressInv, Alone

\* What the dialog asks for while nothing about links is busy.
LEMMA AddressDialogAsk ==
    ASSUME AddressInv, NEW op, NEW user, NEW role, NEW link, Ask(op, user, role, link),
           ~share'.crossed => ~share.crossed /\ (op \in Turns => ~busy)
    PROVE  AddressInv'
  BY AddressAsk DEF Ask, accessVars, Request, busy, PendingCall, Turning, Turns

\* What somebody else asks for.
LEMMA AddressOthersAsk ==
    ASSUME AddressInv, NEW op, NEW u, NEW user, NEW link, NEW token, Send(op, u, user, link, token)
    PROVE  AddressInv'
  BY AddressAsk DEF Send, accessVars, Request

\* A commit turns off the link of a role, or turns one on whose address the answer
\* will tell.
LEMMA AddressCommits ==
    ASSUME ShareInv, LinkInv, AddressInv, Commits
    PROVE  AddressInv'
<1>1. PICK c \in shareCalls :
        /\ c.at = "read"
        /\ \/ Committed(c, WriteOver(members, c.saw[1], c.plan.members), WriteOver(links, c.saw[2], c.plan.links),
                        WriteOver(invites, c.saw[3], c.plan.invites))
           \/ Withdrawn(c)
  BY CommitOutcome
<1>2. Formed(c) /\ CallLink(c, shareCalls, links) /\ RowInv /\ UrlsOK(urls)
  BY DEF ShareInv, CallInv, LinkInv, LinkCalls, DialogInv
<1>3. CASE Withdrawn(c)
  <2> DEFINE d == [c EXCEPT !.at = "refused", !.plan = Refusal, !.saw = << >>]
  <2>1. shareCalls' = (shareCalls \ {c}) \cup {d} /\ links' = links /\ UNCHANGED <<share, urls>>
    BY <1>3 DEF Withdrawn, Advance, accessVars
  <2>2. d.op = c.op /\ d.mine = c.mine /\ d.at = "refused"
    BY <1>2 DEF Formed, Fields
  <2> HIDE DEF d
  <2> QED
    BY <1>1, <2>1, <2>2, AddressAdvance
<1>4. CASE ~Withdrawn(c)
  <2> DEFINE d == [c EXCEPT !.at = "done", !.plan = Refusal, !.saw = << >>]
  <2>1. shareCalls' = (shareCalls \ {c}) \cup {d} /\ UNCHANGED <<share, urls>>
        /\ links' = WriteOver(links, c.saw[2], c.plan.links)
    BY <1>1, <1>4 DEF Committed, Advance
  <2>2. d.op = c.op /\ d.mine = c.mine /\ d.at = "done" /\ d.role = c.role /\ d.link = c.link
    BY <1>2 DEF Formed, Fields
  <2> HIDE DEF d
  <2>3. /\ \A l \in Link : Unturned(l, c) \/ TurnedOff(l, c) \/ TurnedOn(l, c)
        /\ c.op = "link" => TurnedOn(c.link, c)
    BY <1>1, <2>1, CommitLinks
  <2>4. \A l \in Link : \/ links'[l] = links[l]
                        \/ /\ c.op \in Turns /\ links[l].state # "none" /\ links'[l].state = "revoked"
                           /\ c.mine => links[l].role = c.role
                        \/ c.op = "link" /\ links[l].state = "none" /\ links'[l].role = c.role
    <3> SUFFICES ASSUME NEW l \in Link, links'[l] # links[l]
                 PROVE  \/ /\ c.op \in Turns /\ links[l].state # "none" /\ links'[l].state = "revoked"
                           /\ c.mine => links[l].role = c.role
                        \/ c.op = "link" /\ links[l].state = "none" /\ links'[l].role = c.role
      OBVIOUS
    <3>1. TurnedOff(l, c) \/ TurnedOn(l, c)
      BY <2>3 DEF Unturned
    <3> QED
      BY <3>1 DEF TurnedOff, TurnedOn
  <2>5. \A l, r, ls : Works(l, r, ls) => ls[l].role = r /\ ls[l].state = "active"
    BY DEF Works
  <2>6. CASE share.crossed
    BY <2>1, <2>6 DEF AddressInv
  <2>7. CASE ~share.crossed /\ c \in Turning
    <3>1. Turning' = {d}
      BY <2>7, <2>1, <2>2 DEF AddressInv, Alone, Turning
    <3>2. c.op = "link" => Works(c.link, c.role, links')
      BY <2>3 DEF TurnedOn, Works
    <3>3. ASSUME NEW r \in LinkRole, r # c.role, urls[r] # NoUser PROVE Works(urls[r], r, links') \/ Off(r, links')
      BY <1>1, <2>7, <3>3, <1>2, <2>4, <2>5 DEF AddressInv, Alone, Turning, UrlsOK, Works, Off
    <3> QED
      BY <2>1, <2>2, <3>1, <3>2, <3>3 DEF AddressInv, Alone
  <2>8. CASE ~share.crossed /\ c \notin Turning
    <3>1. Turning' = Turning
      BY <2>1, <2>2, <2>8 DEF Turning
    <3>2. c.op # "link"
      BY <1>2, <2>8 DEF CallLink, Turning, Turns
    <3>3. \A l \in Link : \A r : Works(l, r, links') => Works(l, r, links)
      BY <2>4, <2>5, <3>2 DEF Works
    <3>4. ASSUME NEW r, Off(r, links) PROVE Off(r, links')
      BY <3>3, <3>4 DEF Off
    <3>5. ASSUME NEW r \in LinkRole, NEW l \in Link, Works(l, r, links) PROVE Works(l, r, links') \/ Off(r, links')
      BY <1>2, <3>3, <3>5, OneWorks DEF Off
    <3>6. \A x \in Turning : x.op = "link" => x.link \in Link /\ x.role \in LinkRole
      BY DEF Turning, ShareInv, CallInv, Formed, LinkOps
    <3>7. \A r \in LinkRole : urls[r] # NoUser => urls[r] \in Link
      BY <1>2 DEF UrlsOK
    <3>8. ASSUME NEW x \in Turning, x.op = "link", x.at = "done" PROVE Works(x.link, x.role, links') \/ Off(x.role, links')
      BY <2>8, <3>4, <3>5, <3>6, <3>8 DEF AddressInv
    <3>9. ASSUME NEW r \in LinkRole, urls[r] # NoUser
          PROVE  Works(urls[r], r, links') \/ Off(r, links') \/ \E x \in Turning : x.at = "done" /\ x.role = r
      BY <2>8, <3>4, <3>5, <3>7, <3>9 DEF AddressInv
    <3> QED
      BY <2>1, <2>8, <3>1, <3>8, <3>9 DEF AddressInv
  <2> QED
    BY <2>6, <2>7, <2>8
<1> QED
  BY <1>3, <1>4


\* The dialog hears the answer: it remembers the address of the link that is on, or
\* forgets the one that is off.
LEMMA AddressAnswered ==
    ASSUME ShareInv, AddressInv, ShareAnswered
    PROVE  AddressInv'
<1>1. PICK c \in shareCalls :
        /\ c.mine /\ c.at \in {"done", "refused"} /\ shareCalls' = shareCalls \ {c}
        /\ share' = IF c.op # "invite" THEN share
                    ELSE IF c.at = "done" THEN [share EXCEPT !.email = NoUser, !.error = FALSE]
                    ELSE [share EXCEPT !.error = TRUE]
        /\ urls' = IF c.at = "refused" \/ c.op \notin {"link", "unlink"} THEN urls ELSE useShareLinks(c)
        /\ UNCHANGED accessVars
  BY Zenon DEF ShareAnswered
<1>2. ShareOK(share) /\ UrlsOK(urls) /\ Formed(c)
  BY DEF ShareInv, DialogInv, CallInv
<1>3. share'.crossed = share.crossed /\ links' = links
  BY <1>1, <1>2 DEF ShareOK, accessVars
<1>4. Turning' = Turning \ {c}
  BY <1>1 DEF Turning
<1>5. CASE c.at = "refused" \/ c.op \notin Turns
  BY <1>1, <1>5, <1>3, <1>4, AddressQuiet DEF Turns, Turning, AddressInv, Alone
<1>6. CASE c.at = "done" /\ c.op \in Turns
  BY <1>3, <1>1, <1>2, <1>6, <1>4 DEF AddressInv, Turning, Formed, Alone, useShareLinks, Turns, UrlsOK
<1> QED
  BY <1>1, <1>5, <1>6

\* Every step.
LEMMA AddressInvNext == ASSUME ShareInv, LinkInv, AddressInv, [shareNext]_shareVars PROVE AddressInv'
<1>0. ShareOK(share) /\ \A c \in shareCalls : Formed(c)
  BY DEF ShareInv, DialogInv, CallInv
<1>1. CASE Commits
  BY <1>1, AddressCommits
<1>2. CASE ShareAnswered
  BY <1>2, AddressAnswered
<1>3. CASE Reads
  <2>1. PICK c \in shareCalls :
          /\ c.at = "asked" /\ UNCHANGED <<accessVars, share, urls>>
          /\ Advance(c, IF Decide(c) = Refusal THEN [c EXCEPT !.at = "refused"]
                        ELSE [c EXCEPT !.at = "read", !.plan = Decide(c), !.saw = <<members, links, invites>>])
    BY <1>3 DEF Reads
  <2> DEFINE d == IF Decide(c) = Refusal THEN [c EXCEPT !.at = "refused"]
                  ELSE [c EXCEPT !.at = "read", !.plan = Decide(c), !.saw = <<members, links, invites>>]
  <2>2. d.op = c.op /\ d.mine = c.mine /\ d.at # "done"
    BY <1>0 DEF Formed, Fields
  <2>3. shareCalls' = (shareCalls \ {c}) \cup {d} /\ links' = links /\ urls' = urls /\ share' = share
    BY <2>1 DEF Advance, accessVars
  <2> HIDE DEF d
  <2> QED
    BY <2>1, <2>2, <2>3, AddressAdvance
<1>4. CASE ShareAnswerLost
  <2>1. PICK c \in shareCalls :
          /\ c.mine /\ Advance(c, [c EXCEPT !.at = "refused"]) /\ UNCHANGED <<accessVars, urls>>
          /\ share' = [share EXCEPT !.crossed = @ \/ c.op \in {"link", "unlink"}]
    BY <1>4 DEF ShareAnswerLost
  <2> DEFINE d == [c EXCEPT !.at = "refused"]
  <2>2. d.op = c.op
    BY <1>0 DEF Formed, Fields
  <2>3. shareCalls' = (shareCalls \ {c}) \cup {d} /\ links' = links /\ urls' = urls
    BY <2>1 DEF Advance, accessVars
  <2> HIDE DEF d
  <2>4. share'.crossed <=> (share.crossed \/ c.op \in Turns)
    BY <2>1, <1>0 DEF Turns, ShareOK
  <2>5. CASE share.crossed \/ c.op \in Turns
    BY <2>4, <2>5 DEF AddressInv
  <2>6. CASE ~(share.crossed \/ c.op \in Turns)
    BY <2>2, <2>3, <2>6, <2>4 DEF Turning, AddressInv
  <2> QED
    BY <2>5, <2>6
<1>5. CASE TheirAnswer
  BY <1>5 DEF TheirAnswer, Turning, accessVars, AddressInv
<1>6. CASE UNCHANGED <<accessVars, shareCalls, urls>> /\ share'.crossed = share.crossed
  BY <1>6 DEF AddressInv, accessVars, Turning
<1>7. CASE \E op, user, role, link : Ask(op, user, role, link) /\ (~share'.crossed => ~share.crossed /\ (op \in Turns => ~busy))
  BY <1>7, AddressDialogAsk
<1>8. CASE MemberRoleSelect \/ toggle
  BY <1>7, <1>8 DEF MemberRoleSelect, toggle, Turns
<1>9. CASE OwnerActions \/ LeaveButton \/ PendingInvites \/ rotate
  BY <1>0, <1>6, <1>9 DEF OwnerActions, LeaveButton, PendingInvites, rotate, onConfirm, ShareOK
<1>10. CASE InviteForm
  <2>1. share'.crossed = share.crossed
    BY <1>0, <1>10 DEF InviteForm, ShareOK
  <2> QED
    BY <1>6, <1>7, <1>10, <2>1 DEF InviteForm, Turns
<1>11. CASE ConfirmDialog
  <2> DEFINE f == share.confirm
             b == share.crossed \/ (f.op = "link" /\ busy)
  <2>1. /\ f # NoConfirm /\ share' = [share EXCEPT !.confirm = NoConfirm, !.crossed = b]
        /\ \/ f.op # "link" /\ Ask(f.op, f.user, f.role, f.link)
           \/ f.op = "link" /\ FreeLink # {} /\ Ask("link", NoUser, f.role, CHOOSE l \in FreeLink : TRUE)
           \/ UNCHANGED <<accessVars, shareCalls, lists, urls, visit, elsewhere>>
    BY <1>11 DEF ConfirmDialog
  <2>2. ~b => ~share.crossed /\ (f.op = "link" => ~busy)
    OBVIOUS
  <2>3. f \in Confirms
    BY <1>0 DEF ShareOK
  <2> HIDE DEF f, b
  <2>4. share'.crossed = b
    BY <1>0, <2>1 DEF ShareOK
  <2>5. f.op # "link" => f.op \notin Turns
    BY <2>1, <2>3 DEF Confirms, Turns
  <2>6. CASE UNCHANGED <<accessVars, shareCalls, lists, urls, visit, elsewhere>>
    BY <2>2, <2>4, <2>6 DEF AddressInv, accessVars, Turning
  <2> QED
    BY <1>7, <2>1, <2>2, <2>4, <2>5, <2>6
<1>12. CASE ListRead \/ ListShown \/ QueryView \/ JoinLinkPage \/ AcceptInvitePage
  BY <1>6, <1>12 DEF ListRead, ListShown, QueryView, JoinLinkPage, AcceptInvitePage, Stay
<1>13. CASE ShareDialog
  BY <1>0, <1>13, <1>6 DEF ShareDialog, ShareOK
<1>14. CASE JoinActions \/ InviteActions \/ leaveProject \/ SecondTab
  BY <1>6, AddressOthersAsk, <1>14 DEF Stay, JoinActions, InviteActions, leaveProject, SecondTab
<1>15. CASE UNCHANGED shareVars
  BY <1>6, <1>15 DEF shareVars, accessVars
<1> QED
  BY <1>1, <1>2, <1>3, <1>4, <1>5, <1>8, <1>9, <1>10, <1>11, <1>12, <1>13, <1>14, <1>15
  DEF shareNext, ShareStep, ShareLinkRows

\* At first no address is remembered.
LEMMA AddressInvStart == ASSUME shareInit PROVE AddressInv
BY DEF shareInit, AddressInv, Turning, Alone


\* What the dialog knows, and what it remembers, is inductive with the rest.
THEOREM DialogInvHolds == shareSpec => [](ShareInv /\ LinkInv /\ ListInv /\ AddressInv)
<1>1. shareInit => ShareInv /\ LinkInv /\ ListInv /\ AddressInv
  BY ShareInitOK, LinkInvStart, ListInvStart, AddressInvStart
<1>2. ShareInv /\ LinkInv /\ ListInv /\ AddressInv /\ [shareNext]_shareVars => (ShareInv /\ LinkInv /\ ListInv /\ AddressInv)'
  BY ShareNextStep, LinkInvNext, ListInvNext, AddressInvNext
<1> QED
  BY <1>1, <1>2, PTL DEF shareSpec

\* Once the dialog rests it shows the members, invites and links there are, and the
\* address it offers to copy opens the project: for any people, links and requests
\* under way, unless somebody else, a lost answer or two requests about links that
\* overlapped changed what it was not told of.
THEOREM DialogTrue == shareSpec => [](DialogConverges /\ AddressWorks)
<1>1. ListInv => DialogConverges
  BY DEF DialogConverges, ListInv, QueryTrue, Heard, Enabled, isOwner, Shown, Query, Answer
<1>2. ShareInv /\ DialogConverges /\ AddressInv => AddressWorks
  BY DEF AddressWorks, DialogConverges, CopyOffered, LinkOf, listShareLinks, Works, ShareInv, RowInv,
     LinkRows, Off, Turning, AddressInv
<1> QED
  BY <1>1, <1>2, DialogInvHolds, PTL
-----------------------------------------------------------------------------
(* The sessions                                                            *)

sessionSpec == sessionInit /\ [][sessionNext]_sessionVars

-----------------------------------------------------------------------------
(* The inductive invariant *)

PageNames == {"closed", "app", "gate", "setup", "login", "magic", "reset", "resetdone", "verify", "verified", "linkdead"}
PairRows == [sid : Nat, sv : Nat, rotated : BOOLEAN, old : BOOLEAN]
AccountRows == [state : {"none", "active", "gone"}, admin : BOOLEAN, version : Nat, cutoff : Nat,
                revoked : SUBSET Nat, dead : SUBSET Nat]
Doings == {"none", "boot", "bootme", "login", "magic", "list", "me", "password", "delete", "logout"}
WorkRows(n) == [doing : Doings, at : {"none", "post", "call", "wait"}, token : 0 .. n, again : BOOLEAN]
RefreshRows(n) == [at : {"none", "sent", "checked", "answered"}, token : 0 .. n, pair : 0 .. n, sv : Nat]
TabRows(n) ==
    [page : PageNames, access : 0 .. n, user : BOOLEAN, booting : BOOLEAN, setup : {"unknown", "needed", "done"},
     ran : BOOLEAN, won : 0 .. n, refused : BOOLEAN, crossed : BOOLEAN, refresh : RefreshRows(n),
     work : [Line -> WorkRows(n)]]

\* A tab that shows a user, or is about to, has a token or was signed out
\* meanwhile; its refresh sends a token and is answered with a pair at the end.
AsksFor == {"me", "bootme", "login", "magic"}
Backed(tb) == tb.access # 0 \/ tb.crossed
TabGood(tb, n) ==
    /\ tb \in TabRows(n)
    /\ tb.user => Backed(tb)
    /\ \A l \in Line : tb.work[l].at = "call" /\ tb.work[l].doing \in AsksFor /\ tb.work[l].token # 0 => Backed(tb)
    /\ (tb.refresh.at = "none") = (tb.refresh.token = 0)
    /\ tb.refresh.pair # 0 => tb.refresh.at = "answered"
Begins(r, st) == r = [NoRefresh EXCEPT !.at = "sent", !.token = st]
RefreshStep(old, new, st) == new = old \/ (old.at = "none" /\ st # 0 /\ Begins(new, st))
Waits(tb) == \E l \in Line : tb.work[l].at = "wait"
TabOK(tb, n) == TabGood(tb, n) /\ ((tb.refresh.at # "none") <=> Waits(tb))

SessionRows ==
    /\ accounts \in AccountRows /\ pairs \in Seq(PairRows) /\ stored \in 0 .. Len(pairs) /\ doubled \in BOOLEAN
    /\ accounts.cutoff <= Len(pairs)
TabsInv == tabs \in [Tab -> TabRows(Len(pairs))] /\ \A t \in Tab : TabOK(tabs[t], Len(pairs))

\* Sessions are numbered in turn, and an account that isn't there has none.
SidsInv ==
    /\ \E m \in Nat : Sids = 1 .. m
    /\ ended \subseteq Sids
    /\ accounts.state = "none" => Len(pairs) = 0

\* A session is over: its account is gone, its password was changed since, or
\* it was signed out. An ended session is over, and so is the pair that a
\* refresh the server has checked is about to bring.
SessionOver(a, sid, sv) == a.state # "active" \/ sv # a.version \/ sid \in a.dead
EndedInv ==
    /\ \A i \in 1 .. Len(pairs) :
        /\ pairs[i].sv <= accounts.version
        /\ pairs[i].sid \in ended => SessionOver(accounts, pairs[i].sid, pairs[i].sv)
    /\ \A t \in Tab : tabs[t].refresh.at = "checked" =>
        /\ tabs[t].refresh.sv <= accounts.version
        /\ pairs[tabs[t].refresh.token].sid \in ended => SessionOver(accounts, pairs[tabs[t].refresh.token].sid, tabs[t].refresh.sv)

\* Unless a reply was lost or two tabs sent the same token, a token that was
\* rotated belongs to a tab that is about to be handed its successor, and the
\* successor is known to nobody else.
Answers(u, i) == tabs[u].refresh.token = i /\ tabs[u].refresh.pair # 0
KeptInv ==
    ~doubled =>
        /\ accounts.revoked \subseteq accounts.dead
        /\ \A t \in Tab : tabs[t].refresh.at = "sent" /\ pairs[tabs[t].refresh.token].rotated
                => \E u \in Tab : Answers(u, tabs[t].refresh.token)
        /\ stored # 0 /\ pairs[stored].rotated => \E u \in Tab : Answers(u, stored)
        /\ \A t \in Tab : tabs[t].refresh.pair # 0 =>
            /\ ~pairs[tabs[t].refresh.pair].rotated /\ stored # tabs[t].refresh.pair
            /\ \A u \in Tab : /\ tabs[u].refresh.token # tabs[t].refresh.pair
                              /\ u # t => tabs[u].refresh.pair # tabs[t].refresh.pair
SessionInv == SessionRows /\ TabsInv /\ SidsInv /\ EndedInv /\ KeptInv

\* Most steps move the account on, end sessions or not, and change one tab.
Forward(a, b, n) ==
    /\ b \in AccountRows /\ b.cutoff <= n /\ a.version <= b.version /\ a.dead \subseteq b.dead
    /\ (a.state = "gone" => b.state = "gone") /\ (b.state = "none" => a.state = "none")
    /\ (a.revoked \subseteq a.dead => b.revoked \subseteq b.dead)
EndsMore ==
    /\ ended \subseteq ended' /\ ended' \subseteq ended \cup Sids
    /\ \A s \in ended' \ ended : s \in accounts'.dead \/ accounts'.state = "gone" \/ accounts.version < accounts'.version
TabStepped(t, tb) ==
    /\ TabOK(tb, Len(pairs)) /\ RefreshStep(tabs[t].refresh, tb.refresh, stored)
    /\ tabs' = [tabs EXCEPT ![t] = Routed(tb)]
OneTab == tabs' = tabs \/ \E t \in Tab : \E tb : TabStepped(t, tb)
Ordinary ==
    /\ pairs' = pairs /\ stored' \in {stored, 0} /\ doubled' \in BOOLEAN /\ (doubled => doubled')
    /\ Forward(accounts, accounts', Len(pairs)) /\ EndsMore /\ OneTab
SignsIn ==
    /\ accounts.state = "active" /\ pairs' = issue_token_pair /\ stored' = Len(pairs) + 1
    /\ UNCHANGED <<accounts, ended, doubled>>
    /\ \E t \in Tab : \E tb : TabOK(tb, Len(pairs) + 1) /\ tb.refresh = tabs[t].refresh /\ tabs' = [tabs EXCEPT ![t] = Routed(tb)]

-----------------------------------------------------------------------------
(* What the browser does to one tab *)

\* A tab that differs in nothing the invariant speaks of is as good.
Alike(x, y) ==
    y.access = x.access /\ y.user = x.user /\ y.crossed = x.crossed /\ y.refresh = x.refresh /\ y.work = x.work
\* Only those fields count, so the rest may take any value of its type.
LEMMA AlikeGood ==
    ASSUME NEW n \in Nat, NEW x, NEW y, TabGood(x, n), y \in TabRows(n), Alike(x, y)
    PROVE  TabGood(y, n)
BY DEF TabGood, Alike, Backed

\* The router moves a tab to another page and touches nothing else.
LEMMA RoutedGood ==
    ASSUME NEW n \in Nat, NEW tb, TabGood(tb, n)
    PROVE  TabGood(Routed(tb), n) /\ Alike(tb, Routed(tb))
<1>1. ASSUME NEW x \in TabRows(n), NEW p \in PageNames PROVE [x EXCEPT !.page = p] \in TabRows(n) /\ Alike(x, [x EXCEPT !.page = p])
  BY DEF TabRows, Alike
<1>2. ASSUME NEW x \in TabRows(n) PROVE RequireAuth(x) \in TabRows(n) /\ Alike(x, RequireAuth(x))
  <2>1. Alike(x, x)
    BY DEF Alike
  <2>2. {"gate", "setup", "login"} \subseteq PageNames
    BY DEF PageNames
  <2> QED BY <1>1, <2>1, <2>2 DEF RequireAuth, UnauthenticatedRedirect
<1>3. ASSUME NEW x \in TabRows(n) PROVE PublicOnly(x) \in TabRows(n) /\ Alike(x, PublicOnly(x))
  BY <1>1 DEF Alike, PageNames, PublicOnly
<1>4. Routed(tb) \in TabRows(n) /\ Alike(tb, Routed(tb))
  BY <1>2, <1>3 DEF TabGood, Alike, Routed
<1> QED BY <1>4, AlikeGood

\* More pairs do no harm to a tab.
LEMMA MoreGood ==
    ASSUME NEW n \in Nat, NEW m \in Nat, n <= m, NEW tb, TabGood(tb, n)
    PROVE  TabGood(tb, m)
  BY DEF WorkRows, RefreshRows, TabGood, TabRows

\* A line of work that ends, and the page with it.
LEMMA bootstrapGood ==
    ASSUME NEW n \in Nat, NEW tb, TabGood(tb, n), NEW l \in Line
    PROVE  TabGood(bootstrap(tb, l), n) /\ bootstrap(tb, l).refresh = tb.refresh /\ bootstrap(tb, l).access = tb.access
           /\ bootstrap(tb, l).crossed = tb.crossed
           /\ bootstrap(tb, l).work = [tb.work EXCEPT ![l] = NoWork]
           /\ \A p \in PageNames, b \in BOOLEAN :
                /\ TabGood([bootstrap(tb, l) EXCEPT !.page = p], n)
                /\ TabGood([bootstrap(tb, l) EXCEPT !.page = p, !.refused = b], n)
<1> DEFINE y == bootstrap(tb, l)
<1>1. NoWork \in WorkRows(n)
  BY DEF NoWork, WorkRows, Doings
<1>2. tb \in TabRows(n) /\ tb.work \in [Line -> WorkRows(n)] /\ tb.booting \in BOOLEAN
  BY DEF TabGood, TabRows
<1>3. (tb.booting /\ tb.work[l].doing \notin {"boot", "bootme"}) \in BOOLEAN
  BY <1>2
<1>4. y = [tb EXCEPT !.work = [tb.work EXCEPT ![l] = NoWork], !.booting = (tb.booting /\ tb.work[l].doing \notin {"boot", "bootme"})]
  BY <1>2 DEF bootstrap, TabRows
<1>5. [tb.work EXCEPT ![l] = NoWork] \in [Line -> WorkRows(n)]
  BY <1>1, <1>2
<1>6. y \in TabRows(n) /\ y.refresh = tb.refresh /\ y.access = tb.access /\ y.crossed = tb.crossed /\ y.user = tb.user
      /\ y.work = [tb.work EXCEPT ![l] = NoWork]
  BY <1>2, <1>3, <1>4, <1>5 DEF TabRows
<1>7. \A k \in Line : y.work[k].at = "call" => tb.work[k].at = "call" /\ y.work[k] = tb.work[k]
  BY <1>2, <1>6 DEF NoWork
<1>8. TabGood(y, n)
  BY <1>6, <1>7 DEF TabGood, Backed
<1>9. ASSUME NEW p \in PageNames, NEW b \in BOOLEAN
      PROVE TabGood([y EXCEPT !.page = p], n) /\ TabGood([y EXCEPT !.page = p, !.refused = b], n)
  BY <1>6, <1>8, AlikeGood DEF TabRows, Alike
<1> QED BY <1>6, <1>8, <1>9

\* A request that fails, whatever it was and why.
LEMMA ErrorGood ==
    ASSUME NEW n \in Nat, NEW tb, TabGood(tb, n), NEW l \in Line, NEW why
    PROVE  TabGood(toApiError(tb, l, why), n) /\ toApiError(tb, l, why).refresh = tb.refresh
           /\ toApiError(tb, l, why).work = [tb.work EXCEPT ![l] = NoWork]
<1> DEFINE y == bootstrap(tb, l)
           p == IF tb.work[l].doing = "magic" THEN "linkdead" ELSE y.page
           b == y.refused \/ (why = "refused" /\ tb.work[l].doing \in {"list", "me", "password", "delete"})
<1>1. TabGood(y, n) /\ y.refresh = tb.refresh /\ y.work = [tb.work EXCEPT ![l] = NoWork]
  BY bootstrapGood
<1>2. y \in TabRows(n)
  BY <1>1 DEF TabGood
<1>3. y.page \in PageNames /\ "linkdead" \in PageNames
  BY <1>2 DEF TabRows, PageNames
<1>4. p \in PageNames
  BY <1>3
<1>5. y.refused \in BOOLEAN
  BY <1>2 DEF TabRows
<1>6. b \in BOOLEAN
  BY <1>5
<1>7. toApiError(tb, l, why) = [y EXCEPT !.page = p, !.refused = b]
  BY <1>2 DEF toApiError, TabRows, y
<1>8. TabGood([y EXCEPT !.page = p, !.refused = b], n)
  BY bootstrapGood, <1>4, <1>6
<1>9. [y EXCEPT !.page = p, !.refused = b].refresh = y.refresh /\ [y EXCEPT !.page = p, !.refused = b].work = y.work
  BY <1>2 DEF TabRows
<1> QED BY <1>1, <1>7, <1>8, <1>9

\* A request goes out with the token the tab has.
LEMMA RequestGood ==
    ASSUME NEW n \in Nat, NEW tb, TabGood(tb, n), NEW l \in Line, NEW again \in BOOLEAN
    PROVE  TabGood(requestRaw(tb, l, again), n) /\ requestRaw(tb, l, again).refresh = tb.refresh
           /\ \A k \in Line : requestRaw(tb, l, again).work[k].at = IF k = l THEN "call" ELSE tb.work[k].at
<1> DEFINE w == [tb.work[l] EXCEPT !.at = "call", !.token = tb.access, !.again = again]
           y == [tb EXCEPT !.work = [tb.work EXCEPT ![l] = w]]
<1>1. tb \in TabRows(n) /\ tb.work \in [Line -> WorkRows(n)] /\ tb.access \in 0 .. n
  BY DEF TabGood, TabRows
<1>2. w \in WorkRows(n) /\ w.at = "call" /\ w.token = tb.access
  BY <1>1 DEF WorkRows
<1>3. requestRaw(tb, l, again) = y
  BY <1>1 DEF requestRaw, TabRows, WorkRows
<1> HIDE DEF w
<1>4. y \in TabRows(n) /\ y.refresh = tb.refresh /\ y.access = tb.access /\ y.crossed = tb.crossed /\ y.user = tb.user
      /\ y.work = [tb.work EXCEPT ![l] = w]
  BY <1>1, <1>2 DEF TabRows
<1>5. \A k \in Line : y.work[k] = IF k = l THEN w ELSE tb.work[k]
  BY <1>1, <1>4
<1>6. TabGood(y, n)
  BY <1>2, <1>4, <1>5 DEF TabGood, Backed
<1> QED BY <1>2, <1>3, <1>4, <1>5, <1>6

\* A line of work given something to do that isn't a call under way.
LEMMA LineGood ==
    ASSUME NEW n \in Nat, NEW tb, TabGood(tb, n), NEW l \in Line, NEW w \in WorkRows(n), w.at # "call"
    PROVE  /\ TabGood([tb EXCEPT !.work[l] = w], n) /\ [tb EXCEPT !.work[l] = w].refresh = tb.refresh
           /\ [tb EXCEPT !.work[l] = w].access = tb.access
           /\ \A k \in Line : [tb EXCEPT !.work[l] = w].work[k] = IF k = l THEN w ELSE tb.work[k]
  BY DEF TabGood, TabRows, Backed

\* A call of the line is the first of a piece of work, or a post without a token yet.
LEMMA StartsGood ==
    ASSUME NEW n \in Nat, NEW tb, TabGood(tb, n), NEW l \in Line, NEW op \in Doings
    PROVE  TabGood(Starts(tb, l, op), n) /\ Starts(tb, l, op).refresh = tb.refresh
           /\ \A k \in Line : Starts(tb, l, op).work[k].at = IF k = l THEN "call" ELSE tb.work[k].at
<1>1. PICK w : w = [NoWork EXCEPT !.doing = op]
  OBVIOUS
<1>2. w = [doing |-> op, at |-> "none", token |-> 0, again |-> FALSE]
  BY <1>1 DEF NoWork
<1>3. w \in WorkRows(n) /\ w.at # "call"
  BY <1>2 DEF WorkRows
<1>4. PICK y : y = [tb EXCEPT !.work[l] = w]
  OBVIOUS
<1>5. TabGood(y, n) /\ y.refresh = tb.refresh /\ \A k \in Line : y.work[k] = IF k = l THEN w ELSE tb.work[k]
  BY <1>3, <1>4, LineGood
<1>6. PICK f \in BOOLEAN : f = FALSE
  OBVIOUS
<1>7. Starts(tb, l, op) = requestRaw(y, l, f)
  BY <1>1, <1>4, <1>6 DEF Starts
<1>8. TabGood(requestRaw(y, l, f), n) /\ requestRaw(y, l, f).refresh = y.refresh
      /\ \A k \in Line : requestRaw(y, l, f).work[k].at = IF k = l THEN "call" ELSE y.work[k].at
  BY <1>5, RequestGood
<1> QED BY <1>5, <1>7, <1>8

\* A request that is put in the air is the only one its line has.
LEMMA PostsGood ==
    ASSUME NEW n \in Nat, NEW tb, TabGood(tb, n), NEW l \in Line, NEW op \in Doings, stored \in 0 .. n
    PROVE  TabGood(Posts(tb, l, op), n) /\ Posts(tb, l, op).refresh = tb.refresh
           /\ \A k \in Line : Posts(tb, l, op).work[k].at = IF k = l THEN "post" ELSE tb.work[k].at
<1> DEFINE w == [NoWork EXCEPT !.doing = op, !.at = "post", !.token = stored]
<1>1. w \in WorkRows(n) /\ w.at = "post"
  BY DEF NoWork, WorkRows
<1>2. Posts(tb, l, op) = [tb EXCEPT !.work[l] = w]
  BY DEF Posts
<1> HIDE DEF w
<1>3. TabGood([tb EXCEPT !.work[l] = w], n) /\ [tb EXCEPT !.work[l] = w].refresh = tb.refresh
      /\ \A k \in Line : [tb EXCEPT !.work[l] = w].work[k] = IF k = l THEN w ELSE tb.work[k]
  BY <1>1, LineGood
<1> QED BY <1>1, <1>2, <1>3

\* The user is shown, or dropped with the token.
LEMMA setUserGood ==
    ASSUME NEW n \in Nat, NEW tb, TabGood(tb, n), Backed(tb)
    PROVE  TabGood(setUser(tb), n) /\ setUser(tb).refresh = tb.refresh /\ setUser(tb).work = tb.work
           /\ TabGood([setUser(tb) EXCEPT !.page = "app"], n)
           /\ [setUser(tb) EXCEPT !.page = "app"].refresh = tb.refresh /\ [setUser(tb) EXCEPT !.page = "app"].work = tb.work
  BY AlikeGood DEF TabGood, setUser, TabRows, Backed, PageNames, Alike

\* Signing out in the browser drops the token and the user together, and
\* marks the fetches of the user that are still in the air.
LEMMA clearGood ==
    ASSUME NEW n \in Nat, NEW tb, TabGood(tb, n)
    PROVE  TabGood(clear(tb), n) /\ clear(tb).refresh = tb.refresh /\ clear(tb).work = tb.work
<1>1. tb \in TabRows(n)
  BY DEF TabGood
<1>2. PICK y : y = clear(tb)
  OBVIOUS
<1>3. PICK b \in BOOLEAN : b = (tb.crossed \/ AsksUser(tb))
  BY <1>1 DEF TabRows
<1>f. PICK f \in BOOLEAN : f = FALSE
  OBVIOUS
<1>4. y = [tb EXCEPT !.access = 0, !.user = f, !.crossed = b]
  BY <1>1, <1>2, <1>3, <1>f DEF clear, TabRows
<1>z. PICK a \in 0 .. n : a = 0
  OBVIOUS
<1>x. PICK x : x = [tb EXCEPT !.access = a]
  OBVIOUS
<1>v. x \in TabRows(n) /\ x.access = a /\ x.refresh = tb.refresh /\ x.work = tb.work
  BY <1>1, <1>x DEF TabRows
<1>w. y = [x EXCEPT !.user = f, !.crossed = b]
  BY <1>1, <1>4, <1>z, <1>x DEF TabRows
<1>5. y \in TabRows(n) /\ y.access = 0 /\ y.user = f /\ y.crossed = b /\ y.refresh = tb.refresh /\ y.work = tb.work
  BY <1>v, <1>w, <1>z DEF TabRows
<1>6. ASSUME NEW l \in Line, y.work[l].at = "call", y.work[l].doing \in AsksFor PROVE y.crossed
  BY <1>3, <1>5, <1>6 DEF AsksUser, AsksFor
<1>7. TabGood(y, n)
  BY <1>5, <1>6, <1>f DEF TabGood, Backed
<1> QED BY <1>2, <1>5, <1>7

\* A new pair comes in.
LEMMA setTokensGood ==
    ASSUME NEW n \in Nat, NEW tb, TabGood(tb, n), NEW i \in 1 .. n
    PROVE  TabGood(setTokens(tb, i), n) /\ setTokens(tb, i).refresh = tb.refresh /\ setTokens(tb, i).work = tb.work
<1>1. tb \in TabRows(n)
  BY DEF TabGood
<1>2. PICK y : y = setTokens(tb, i)
  OBVIOUS
<1>f. PICK f \in BOOLEAN : f = FALSE
  OBVIOUS
<1>t. y = [tb EXCEPT !.access = i, !.refused = f]
  BY <1>2, <1>f DEF setTokens
<1>z. PICK a \in 0 .. n : a = i
  OBVIOUS
<1>x. PICK x : x = [tb EXCEPT !.access = a]
  OBVIOUS
<1>v. x \in TabRows(n) /\ x.access = a /\ x.refresh = tb.refresh /\ x.work = tb.work
  BY <1>1, <1>x DEF TabRows
<1>w. y = [x EXCEPT !.refused = f]
  BY <1>1, <1>t, <1>z, <1>x DEF TabRows
<1>3. y \in TabRows(n) /\ y.access = i /\ y.refresh = tb.refresh /\ y.work = tb.work
  BY <1>v, <1>w, <1>z DEF TabRows
<1>4. TabGood(y, n)
  BY <1>3 DEF TabGood, Backed
<1> QED BY <1>2, <1>3, <1>4

\* A tab whose refresh is replaced.
LEMMA RefreshGoodTab ==
    ASSUME NEW n \in Nat, NEW tb, TabGood(tb, n), NEW r \in RefreshRows(n),
           (r.at = "none") = (r.token = 0), r.pair # 0 => r.at = "answered"
    PROVE  TabGood([tb EXCEPT !.refresh = r], n) /\ [tb EXCEPT !.refresh = r].refresh = r
           /\ [tb EXCEPT !.refresh = r].work = tb.work
  BY DEF TabGood, TabRows, Backed

\* A refused request waits for the tab's refresh, and starts it if need be.
LEMMA WaitForGood ==
    ASSUME NEW n \in Nat, NEW tb, TabGood(tb, n), NEW l \in Line, stored \in 0 .. n
    PROVE  /\ TabGood(WaitFor(tb, l), n) /\ RefreshStep(tb.refresh, WaitFor(tb, l).refresh, stored)
           /\ \A k \in Line \ {l} : WaitFor(tb, l).work[k] = tb.work[k]
           /\ IF tb.refresh.at = "none" /\ stored = 0 THEN WaitFor(tb, l).work[l].at = "none"
              ELSE WaitFor(tb, l).work[l].at = "wait" /\ WaitFor(tb, l).refresh.at # "none"
<1>1. tb \in TabRows(n) /\ tb.work \in [Line -> WorkRows(n)]
  BY DEF TabGood, TabRows
<1>2. CASE tb.refresh.at = "none" /\ stored = 0
  <2>1. PICK y : y = toApiError(tb, l, "refused")
    OBVIOUS
  <2>2. TabGood(y, n) /\ y.refresh = tb.refresh /\ y.work = [tb.work EXCEPT ![l] = NoWork]
    BY <2>1, ErrorGood
  <2>3. WaitFor(tb, l) = y
    BY <1>2, <2>1 DEF WaitFor
  <2>4. y.work[l] = NoWork /\ \A k \in Line \ {l} : y.work[k] = tb.work[k]
    BY <1>1, <2>2
  <2>5. RefreshStep(tb.refresh, y.refresh, stored)
    BY <2>2 DEF RefreshStep
  <2>6. y.work[l].at = "none"
    BY <2>4 DEF NoWork
  <2> QED BY <1>2, <2>2, <2>3, <2>4, <2>5, <2>6
<1>3. CASE ~(tb.refresh.at = "none" /\ stored = 0)
  <2>1. PICK w : w = [tb.work[l] EXCEPT !.at = "wait"]
    OBVIOUS
  <2>2. w \in WorkRows(n) /\ w.at = "wait"
    BY <1>1, <2>1 DEF WorkRows
  <2>3. PICK y : y = [tb EXCEPT !.work[l] = w]
    OBVIOUS
  <2>4. TabGood(y, n) /\ y.refresh = tb.refresh /\ \A k \in Line : y.work[k] = IF k = l THEN w ELSE tb.work[k]
    BY <2>2, <2>3, LineGood
  <2>5. WaitFor(tb, l) = refreshTokens(y)
    BY <1>1, <1>3, <2>1, <2>3 DEF WaitFor, TabRows
  <2>6. CASE tb.refresh.at # "none"
    BY <2>4, <2>5, <2>6, <2>2, <1>3 DEF refreshTokens, RefreshStep
  <2>7. CASE tb.refresh.at = "none"
    <3>1. PICK r : r = [NoRefresh EXCEPT !.at = "sent", !.token = stored]
      OBVIOUS
    <3>2. r \in RefreshRows(n) /\ r.at = "sent" /\ r.token = stored /\ r.pair = 0
      <4>1. r = [at |-> "sent", token |-> stored, pair |-> 0, sv |-> 0]
        BY <3>1 DEF NoRefresh
      <4> QED BY <4>1 DEF RefreshRows
    <3>3. stored # 0
      BY <1>3, <2>7
    <3>4. PICK z : z = [y EXCEPT !.refresh = r]
      OBVIOUS
    <3>5. TabGood(z, n) /\ z.refresh = r /\ z.work = y.work
      BY <2>4, <3>2, <3>3, <3>4, RefreshGoodTab
    <3>6. WaitFor(tb, l) = z
      BY <2>4, <2>5, <2>7, <3>1, <3>4 DEF refreshTokens, performRefresh
    <3> QED BY <2>2, <2>4, <2>7, <3>1, <3>2, <3>3, <3>5, <3>6 DEF RefreshStep, Begins
  <2> QED BY <2>6, <2>7
<1> QED BY <1>2, <1>3

\* The requests that waited go on, or fail.
LEMMA ResumedGood ==
    ASSUME NEW n \in Nat, NEW tb, TabGood(tb, n), NEW l \in Line
    PROVE  /\ TabGood(Resumed(tb, l), n) /\ Resumed(tb, l).refresh = tb.refresh
           /\ \A k \in Line : Resumed(tb, l).work[k].at = IF k = l /\ tb.work[l].at = "wait" THEN "call" ELSE tb.work[k].at
<1>1. CASE tb.work[l].at # "wait"
  BY <1>1 DEF Resumed
<1>2. CASE tb.work[l].at = "wait" /\ tb.work[l].doing = "boot"
  BY <1>2, StartsGood DEF Doings, Resumed
<1>3. CASE tb.work[l].at = "wait" /\ tb.work[l].doing # "boot"
  <2>1. PICK b \in BOOLEAN : b = TRUE
    OBVIOUS
  <2>2. Resumed(tb, l) = requestRaw(tb, l, b)
    BY <1>3, <2>1 DEF Resumed
  <2>3. TabGood(requestRaw(tb, l, b), n) /\ requestRaw(tb, l, b).refresh = tb.refresh
        /\ \A k \in Line : requestRaw(tb, l, b).work[k].at = IF k = l THEN "call" ELSE tb.work[k].at
    BY RequestGood
  <2> QED BY <1>3, <2>2, <2>3
<1> QED BY <1>1, <1>2, <1>3

\* So a line that waited for the refresh has nothing left, and another is
\* not touched.
LEMMA FailedGood ==
    ASSUME NEW n \in Nat, NEW tb, TabGood(tb, n), NEW l \in Line, NEW why
    PROVE  /\ TabGood(Failed(tb, l, why), n) /\ Failed(tb, l, why).refresh = tb.refresh
           /\ \A k \in Line : Failed(tb, l, why).work[k].at = IF k = l /\ tb.work[l].at = "wait" THEN "none" ELSE tb.work[k].at
<1>1. CASE tb.work[l].at # "wait"
  BY <1>1 DEF Failed
<1>2. CASE tb.work[l].at = "wait"
  <2>1. PICK y : y = toApiError(tb, l, why)
    OBVIOUS
  <2>2. TabGood(y, n) /\ y.refresh = tb.refresh /\ y.work = [tb.work EXCEPT ![l] = NoWork]
    BY <2>1, ErrorGood
  <2>3. Failed(tb, l, why) = y
    BY <1>2, <2>1 DEF Failed
  <2>4. tb.work \in [Line -> WorkRows(n)]
    BY DEF TabGood, TabRows
  <2>5. \A k \in Line : y.work[k].at = IF k = l THEN "none" ELSE tb.work[k].at
    BY <2>2, <2>4 DEF NoWork
  <2> QED BY <1>2, <2>2, <2>3, <2>5
<1> QED BY <1>1, <1>2

\* What a tab waits for is as before when its refresh is and no line starts or stops waiting.
LEMMA SameWaits ==
    ASSUME NEW n \in Nat, NEW x, NEW y, TabOK(x, n), TabGood(y, n), y.refresh = x.refresh,
           \A k \in Line : (y.work[k].at = "wait") <=> (x.work[k].at = "wait")
    PROVE  TabOK(y, n)
BY DEF TabOK, Waits

\* A tab changed in its page alone, or in what the page keeps for itself.
LEMMA PageGood ==
    ASSUME NEW n \in Nat, NEW x, TabOK(x, n), NEW y, y \in TabRows(n), Alike(x, y)
    PROVE  TabOK(y, n)
  BY AlikeGood, SameWaits DEF TabOK, Alike

-----------------------------------------------------------------------------
(* What each action is *)

\* The account doesn't change, and no session ends.
LEMMA Nothing ==
    ASSUME SessionInv, UNCHANGED <<accounts, ended>>
    PROVE  Forward(accounts, accounts', Len(pairs)) /\ EndsMore
BY DEF SessionInv, SessionRows, Forward, EndsMore, AccountRows

\* The facts about one tab that the actions start from.
LEMMA TabFacts ==
    ASSUME SessionInv, NEW t \in Tab
    PROVE  /\ Len(pairs) \in Nat /\ TabOK(tabs[t], Len(pairs)) /\ TabGood(tabs[t], Len(pairs)) /\ stored \in 0 .. Len(pairs)
           /\ tabs[t] \in TabRows(Len(pairs)) /\ tabs[t].refresh \in RefreshRows(Len(pairs))
           /\ tabs[t].page \in PageNames
           /\ \A l \in Line : tabs[t].work[l] \in WorkRows(Len(pairs))
  BY DEF SessionInv, SessionRows, TabsInv, TabOK, TabGood, TabRows

\* A step that only puts a tab is an ordinary one.
LEMMA PutOrdinary ==
    ASSUME SessionInv, NEW t \in Tab, NEW tb, TabOK(tb, Len(pairs)), RefreshStep(tabs[t].refresh, tb.refresh, stored),
           Put(t, tb), pairs' = pairs, stored' = stored, doubled' \in BOOLEAN, doubled => doubled',
           Forward(accounts, accounts', Len(pairs)), EndsMore
    PROVE  Ordinary
  BY DEF TabStepped, Put, OneTab, Ordinary

\* A request of a line that isn't waiting fails.
LEMMA ErrorOK ==
    ASSUME NEW n \in Nat, NEW tb, TabOK(tb, n), NEW l \in Line, tb.work[l].at # "wait", NEW why
    PROVE  TabOK(toApiError(tb, l, why), n) /\ RefreshStep(tb.refresh, toApiError(tb, l, why).refresh, stored)
<1>1. PICK y : y = toApiError(tb, l, why)
  OBVIOUS
<1>2. TabGood(tb, n)
  BY DEF TabOK
<1>3. TabGood(y, n) /\ y.refresh = tb.refresh /\ y.work = [tb.work EXCEPT ![l] = NoWork]
  BY <1>1, <1>2, ErrorGood
<1>4. tb.work \in [Line -> WorkRows(n)]
  BY <1>2 DEF TabGood, TabRows
<1>5. \A k \in Line : (y.work[k].at = "wait") <=> (tb.work[k].at = "wait")
  BY <1>3, <1>4 DEF NoWork
<1>6. TabOK(y, n)
  BY <1>3, <1>5, SameWaits
<1> QED BY <1>1, <1>3, <1>6 DEF RefreshStep

\* A line that isn't waiting calls or posts.
LEMMA StartsOK ==
    ASSUME NEW n \in Nat, NEW tb, TabOK(tb, n), NEW l \in Line, tb.work[l].at # "wait", NEW op \in Doings, stored \in 0 .. n
    PROVE  /\ TabOK(Starts(tb, l, op), n) /\ RefreshStep(tb.refresh, Starts(tb, l, op).refresh, stored)
           /\ TabOK(Posts(tb, l, op), n) /\ RefreshStep(tb.refresh, Posts(tb, l, op).refresh, stored)
           /\ Starts(tb, l, op).refresh = tb.refresh
<1>1. TabGood(tb, n)
  BY DEF TabOK
<1>2. PICK y : y = Starts(tb, l, op)
  OBVIOUS
<1>3. PICK z : z = Posts(tb, l, op)
  OBVIOUS
<1>4. TabGood(y, n) /\ y.refresh = tb.refresh /\ \A k \in Line : y.work[k].at = IF k = l THEN "call" ELSE tb.work[k].at
  BY <1>1, <1>2, StartsGood
<1>5. TabGood(z, n) /\ z.refresh = tb.refresh /\ \A k \in Line : z.work[k].at = IF k = l THEN "post" ELSE tb.work[k].at
  BY <1>1, <1>3, PostsGood
<1>6. TabOK(y, n) /\ TabOK(z, n)
  BY <1>4, <1>5, SameWaits
<1> QED BY <1>2, <1>3, <1>4, <1>5, <1>6 DEF RefreshStep

\* Requests sent and lost, pages opened and left.
LEMMA QuietSteps ==
    ASSUME SessionInv, NEW t \in Tab,
           \/ LoginPage(t) \/ SignOut(t) \/ MagicLinkCallback(t) \/ GateAnswered(t) \/ VerifyEmailPage(t) \/ ResetSucceeded(t)
           \/ request(t) \/ refreshUser(t) \/ PasswordSection(t) \/ DangerZone(t)
           \/ (\E l \in Line : CallFails(t, l) \/ PostFails(t, l))
           \/ (\E p \in Purpose : EmailRequestForm(t, p))
    PROVE  Ordinary
<1> DEFINE n == Len(pairs)
<1>1. /\ n \in Nat /\ TabOK(tabs[t], n) /\ stored \in 0 .. n /\ tabs[t].page \in PageNames /\ doubled \in BOOLEAN
      /\ TabGood(tabs[t], n) /\ tabs[t] \in TabRows(n)
  BY TabFacts DEF SessionInv, SessionRows
<1> HIDE DEF n
<1>n. n = Len(pairs)
  BY DEF n
<1>s. RefreshStep(tabs[t].refresh, tabs[t].refresh, stored)
  BY DEF RefreshStep
<1>o. "main" \in Line /\ "side" \in Line /\ {"login", "logout", "magic", "list", "me", "password", "delete"} \subseteq Doings
  BY DEF Line, Doings
<1>2. ASSUME NEW tb, TabOK(tb, n), RefreshStep(tabs[t].refresh, tb.refresh, stored), Put(t, tb),
             UNCHANGED <<accounts, pairs, stored, ended>>, doubled' \in BOOLEAN, doubled => doubled'
      PROVE  Ordinary
  BY <1>2, <1>n, Nothing, PutOrdinary
<1>3. ASSUME NEW l \in Line, NEW op \in Doings, tabs[t].work[l] = NoWork,
             Put(t, Posts(tabs[t], l, op)) \/ Put(t, Starts(tabs[t], l, op)),
             UNCHANGED <<accounts, pairs, stored, ended, doubled>>
      PROVE  Ordinary
  BY <1>3, <1>1, <1>2, StartsOK DEF NoWork
<1>4. CASE LoginPage(t)
  BY <1>3, <1>4, <1>o DEF LoginPage
<1>5. CASE SignOut(t)
  BY <1>3, <1>5, <1>o DEF SignOut
<1>6. ASSUME NEW l \in Line, NEW op \in Doings, Uses(t, l, op) PROVE Ordinary
  BY <1>3, <1>6 DEF Uses
<1>7. CASE request(t) \/ refreshUser(t) \/ PasswordSection(t) \/ DangerZone(t)
  BY <1>6, <1>7, <1>o DEF request, refreshUser, PasswordSection, DangerZone
<1>8. CASE MagicLinkCallback(t)
  <2>1. PICK b \in BOOLEAN : b = TRUE
    OBVIOUS
  <2>2. PICK x : x = [tabs[t] EXCEPT !.ran = b]
    OBVIOUS
  <2>a. x \in TabRows(n) /\ Alike(tabs[t], x)
    BY <1>1, <2>2 DEF TabRows, Alike
  <2>3. TabOK(x, n) /\ x.refresh = tabs[t].refresh /\ x.work = tabs[t].work
    BY <1>1, <2>a, PageGood DEF Alike
  <2>4. x.work["side"].at # "wait"
    BY <1>8, <2>3 DEF MagicLinkCallback, NoWork
  <2>5. TabOK(Posts(x, "side", "magic"), n) /\ RefreshStep(tabs[t].refresh, Posts(x, "side", "magic").refresh, stored)
    BY <1>1, <1>o, <2>3, <2>4, StartsOK
  <2>6. Put(t, Posts(x, "side", "magic")) /\ UNCHANGED <<accounts, pairs, stored, ended, doubled>>
    BY <1>8, <2>1, <2>2 DEF MagicLinkCallback
  <2> QED BY <1>1, <1>2, <2>5, <2>6
<1>9. CASE GateAnswered(t)
  BY <1>1, PageGood, <1>9, <1>2, <1>s DEF TabRows, Alike, PageNames, UnauthenticatedRedirect,
     GateAnswered
<1>10. CASE VerifyEmailPage(t)
  BY <1>10, <1>1, PageGood, <1>2, <1>s DEF PageNames, VerifyEmailPage, TabRows, Alike
<1>11. CASE ResetSucceeded(t)
  BY <1>1, PageGood, <1>11, <1>2, <1>s DEF PageNames, TabRows, Alike, ResetSucceeded
<1>12. ASSUME NEW l \in Line, CallFails(t, l) \/ PostFails(t, l) PROVE Ordinary
  BY <1>12, <1>1, ErrorOK, <1>2 DEF CallFails, PostFails
<1>13. ASSUME NEW p \in Purpose, EmailRequestForm(t, p) PROVE Ordinary
  BY <1>13, <1>1, Nothing DEF EmailRequestForm, Ordinary, OneTab
<1> QED BY <1>4, <1>5, <1>7, <1>8, <1>9, <1>10, <1>11, <1>12, <1>13

\* Signing in opens a session, or fails and changes nothing.
LEMMA LoginSteps ==
    ASSUME SessionInv, NEW t \in Tab, login(t) \/ completeMagicLink(t)
    PROVE  Ordinary \/ SignsIn
<1> DEFINE n == Len(pairs)
<1>1. n \in Nat /\ TabOK(tabs[t], n) /\ TabGood(tabs[t], n) /\ tabs[t] \in TabRows(n) /\ stored \in 0 .. n /\ doubled \in BOOLEAN
  BY TabFacts DEF SessionInv, SessionRows
<1> HIDE DEF n
<1>n. n = Len(pairs)
  BY DEF n
<1>o. "main" \in Line /\ "side" \in Line /\ {"login", "magic"} \subseteq Doings
  BY DEF Line, Doings
<1>2. ASSUME NEW l \in Line, tabs[t].work[l].at = "post", NEW why, Put(t, toApiError(tabs[t], l, why)),
             UNCHANGED <<accounts, pairs, stored, ended, doubled>>
      PROVE  Ordinary
  BY <1>1, <1>2, ErrorOK, <1>n, Nothing, PutOrdinary
<1>3. TabOK(tabs[t], n + 1)
  BY <1>1, MoreGood DEF TabOK
<1>4. ASSUME NEW l \in Line, tabs[t].work[l].at = "post", NEW op \in Doings, NEW x, TabOK(x, n + 1), Alike(tabs[t], x),
             Put(t, Starts(setTokens(x, n + 1), l, op)), accounts.state = "active",
             pairs' = issue_token_pair, stored' = n + 1, UNCHANGED <<accounts, ended, doubled>>
      PROVE  SignsIn
  <2>1. PICK y : y = setTokens(x, n + 1)
    OBVIOUS
  <2>2. TabGood(x, n + 1) /\ x.refresh = tabs[t].refresh /\ x.work = tabs[t].work /\ n + 1 \in 1 .. n + 1 /\ n + 1 \in Nat
    BY <1>1, <1>4 DEF TabOK, Alike
  <2>3. TabGood(y, n + 1) /\ y.refresh = x.refresh /\ y.work = x.work
    BY <2>1, <2>2, setTokensGood
  <2>4. TabOK(y, n + 1)
    BY <1>4, <2>2, <2>3, SameWaits
  <2>5. PICK z : z = Starts(y, l, op)
    OBVIOUS
  <2>6. y.work[l].at # "wait"
    BY <1>4, <2>2, <2>3
  <2>7. stored \in 0 .. n + 1
    BY <1>1
  <2>8. TabOK(z, n + 1) /\ z.refresh = y.refresh
    BY <2>2, <2>4, <2>5, <2>6, <2>7, StartsOK
  <2>9. tabs' = [tabs EXCEPT ![t] = Routed(z)]
    BY <1>4, <2>1, <2>5 DEF Put
  <2> QED BY <1>4, <1>n, <2>2, <2>3, <2>8, <2>9 DEF SignsIn
<1>5. CASE login(t)
  BY <1>5, <1>n, <1>3, <1>4, <1>o, <1>2 DEF login, LoggedIn, Alike
<1>6. CASE completeMagicLink(t)
  <2>1. tabs[t].work["side"].at = "post" /\ UNCHANGED <<accounts, ended, doubled>>
    BY <1>6 DEF completeMagicLink
  <2>2. CASE mails["magic_login"] = "fresh" /\ accounts.state = "active"
    <3>1. PICK i \in 0 .. n + 1 : i = n + 1
      BY <1>1
    <3>2. PICK x : x = [tabs[t] EXCEPT !.won = i]
      OBVIOUS
    <3>a. tabs[t] \in TabRows(n + 1) /\ n + 1 \in Nat
      BY <1>1, <1>3 DEF TabOK, TabGood
    <3>b. x \in TabRows(n + 1) /\ Alike(tabs[t], x)
      BY <3>2, <3>a DEF TabRows, Alike
    <3>3. TabOK(x, n + 1) /\ Alike(tabs[t], x)
      BY <1>3, <3>a, <3>b, PageGood
    <3>4. pairs' = issue_token_pair /\ stored' = n + 1 /\ Put(t, Starts(setTokens(x, n + 1), "side", "magic"))
      BY <1>6, <1>n, <2>2, <3>1, <3>2 DEF completeMagicLink
    <3> QED BY <1>4, <1>o, <2>1, <2>2, <3>3, <3>4
  <2>3. CASE ~(mails["magic_login"] = "fresh" /\ accounts.state = "active")
    BY <1>6, <2>3, <1>2, <1>o, <2>1 DEF completeMagicLink
  <2> QED BY <2>2, <2>3
<1> QED BY <1>5, <1>6

\* A refused call waits for the refresh, or fails when there is nothing to refresh with.
LEMMA WaitForOK ==
    ASSUME NEW n \in Nat, NEW tb, TabOK(tb, n), NEW l \in Line, tb.work[l].at # "wait", stored \in 0 .. n
    PROVE  TabOK(WaitFor(tb, l), n) /\ RefreshStep(tb.refresh, WaitFor(tb, l).refresh, stored)
<1>1. PICK y : y = WaitFor(tb, l)
  OBVIOUS
<1>2. TabGood(tb, n)
  BY DEF TabOK
<1>3. /\ TabGood(y, n) /\ RefreshStep(tb.refresh, y.refresh, stored)
      /\ \A k \in Line \ {l} : y.work[k] = tb.work[k]
      /\ IF tb.refresh.at = "none" /\ stored = 0 THEN y.work[l].at = "none"
         ELSE y.work[l].at = "wait" /\ y.refresh.at # "none"
  BY <1>1, <1>2, WaitForGood
<1>4. CASE tb.refresh.at = "none" /\ stored = 0
  BY <1>3, <1>4, <1>1, SameWaits DEF RefreshStep
<1>5. CASE ~(tb.refresh.at = "none" /\ stored = 0)
  BY <1>1, <1>3, <1>5 DEF TabOK, Waits
<1> QED BY <1>4, <1>5

\* An answered call ends its line of work, or starts to sign out.
LEMMA ServedOK ==
    ASSUME NEW n \in Nat, NEW tb, TabOK(tb, n), NEW l \in Line, tb.work[l].at = "call", tb.work[l].token # 0,
           stored \in 0 .. n
    PROVE  TabOK(Served(tb, l), n) /\ RefreshStep(tb.refresh, Served(tb, l).refresh, stored)
<1>1. TabGood(tb, n) /\ tb \in TabRows(n) /\ tb.work \in [Line -> WorkRows(n)]
  BY DEF TabOK, TabGood, TabRows
<1>2. PICK x : x = bootstrap(tb, l)
  OBVIOUS
<1>3. TabGood(x, n) /\ x.refresh = tb.refresh /\ x.access = tb.access /\ x.crossed = tb.crossed
      /\ x.work = [tb.work EXCEPT ![l] = NoWork]
  BY <1>1, <1>2, bootstrapGood
<1>4. \A k \in Line : (x.work[k].at = "wait") <=> (tb.work[k].at = "wait")
  BY <1>1, <1>3 DEF NoWork
<1>5. TabOK(x, n)
  BY <1>3, <1>4, SameWaits
<1>6. CASE tb.work[l].doing \in {"login", "magic", "bootme", "me"}
  <2>1. Backed(tb)
    BY <1>1, <1>6 DEF TabGood, AsksFor
  <2>2. Backed(x)
    BY <1>3, <2>1 DEF Backed
  <2>3. PICK y : y = setUser(x)
    OBVIOUS
  <2>4. PICK z : z = [setUser(x) EXCEPT !.page = "app"]
    OBVIOUS
  <2>5. TabGood(y, n) /\ y.refresh = x.refresh /\ y.work = x.work /\ TabGood(z, n) /\ z.refresh = x.refresh /\ z.work = x.work
    BY <1>3, <2>2, <2>3, <2>4, setUserGood
  <2>6. TabOK(y, n) /\ TabOK(z, n)
    BY <1>5, <2>5, SameWaits
  <2>7. Served(tb, l) = z \/ Served(tb, l) = y
    BY <1>2, <1>6, <2>3, <2>4 DEF Served
  <2> QED BY <1>3, <2>5, <2>6, <2>7 DEF RefreshStep
<1>7. CASE tb.work[l].doing = "list"
  BY <1>2, <1>7, <1>3, <1>5 DEF Served, RefreshStep
<1>8. CASE tb.work[l].doing \notin {"login", "magic", "bootme", "me", "list"}
  BY <1>8, StartsOK DEF Served, Doings
<1> QED BY <1>6, <1>7, <1>8

\* Ending every session of the account, or the account.
LEMMA EndsAll ==
    ASSUME SessionInv
    PROVE  /\ Forward(accounts, end_every_session, Len(pairs)) /\ end_every_session.version = accounts.version + 1
           /\ Forward(accounts, delete_account, Len(pairs)) /\ delete_account.state = "gone"
<1>1. accounts \in AccountRows /\ Len(pairs) \in Nat
  BY DEF SessionInv, SessionRows
<1>2. PICK n \in Nat : n = Len(pairs)
  BY <1>1
<1>3. PICK x : x = [accounts EXCEPT !.cutoff = n]
  OBVIOUS
<1>4. x \in AccountRows /\ x.cutoff = n /\ x.version = accounts.version /\ x.state = accounts.state
      /\ x.dead = accounts.dead /\ x.revoked = accounts.revoked
  BY <1>1, <1>3 DEF AccountRows
<1>5. PICK v \in Nat : v = accounts.version + 1
  BY <1>1 DEF AccountRows
<1>6. PICK y : y = [x EXCEPT !.version = v]
  OBVIOUS
<1>7. PICK z : z = [x EXCEPT !.state = "gone"]
  OBVIOUS
<1>8. y \in AccountRows /\ y.cutoff = n /\ y.version = v /\ y.state = x.state /\ y.dead = x.dead /\ y.revoked = x.revoked
  BY <1>4, <1>6 DEF AccountRows
<1>9. z \in AccountRows /\ z.cutoff = n /\ z.version = x.version /\ z.state = "gone" /\ z.dead = x.dead /\ z.revoked = x.revoked
  BY <1>4, <1>7 DEF AccountRows
<1>10. end_every_session = y
  BY <1>2, <1>3, <1>4, <1>5, <1>6 DEF end_every_session, revoke_user, AccountRows
<1>11. delete_account = z
  BY <1>2, <1>3, <1>7 DEF delete_account, revoke_user
<1>12. accounts.version \in Nat
  BY <1>1 DEF AccountRows
<1>13. Forward(accounts, y, n)
  BY <1>2, <1>4, <1>5, <1>8, <1>12 DEF Forward
<1>14. Forward(accounts, z, n)
  BY <1>2, <1>4, <1>9, <1>12 DEF Forward
<1> QED BY <1>2, <1>5, <1>8, <1>9, <1>10, <1>11, <1>13, <1>14

\* The answer to a request on the list of the user's calls changes the account
\* at most, and its tab.
LEMMA CallStep ==
    ASSUME SessionInv, NEW t \in Tab, NEW l \in Line, CallAnswered(t, l)
    PROVE  Ordinary
  BY TabFacts, ErrorOK, WaitForOK, Nothing, PutOrdinary, ServedOK, EndsAll DEF SessionInv, SessionRows,
     CallAnswered, _resolve_user, change_password, AccountRows, EndsMore

\* Logging out ends the stored token's session, unless the call is lost, and
\* signs the tab out either way.
LEMMA LogoutStep ==
    ASSUME SessionInv, NEW t \in Tab, LoggedOut(t)
    PROVE  Ordinary
<1> DEFINE n == Len(pairs)
<1>1. n \in Nat /\ TabOK(tabs[t], n) /\ TabGood(tabs[t], n) /\ tabs[t] \in TabRows(n) /\ doubled \in BOOLEAN
      /\ \A l \in Line : tabs[t].work[l] \in WorkRows(n)
  BY TabFacts DEF SessionInv, SessionRows
<1>p. pairs \in Seq(PairRows) /\ accounts \in AccountRows /\ accounts.cutoff <= n
  BY DEF SessionInv, SessionRows
<1> HIDE DEF n
<1>n. n = Len(pairs)
  BY DEF n
<1>o. "main" \in Line
  BY DEF Line
<1>2. PICK w : w = tabs[t].work["main"]
  OBVIOUS
<1>3. PICK lost \in BOOLEAN :
        /\ w.doing = "logout" /\ w.at = "post"
        /\ accounts' = IF lost THEN accounts ELSE logout(w.token)
        /\ ended' = IF lost \/ w.token = 0 THEN ended ELSE ended \cup {pairs[w.token].sid}
        /\ stored' = 0
        /\ Put(t, [clear(bootstrap(tabs[t], "main")) EXCEPT !.page = "login"])
        /\ UNCHANGED <<pairs, mails, doubled>>
  BY <1>2 DEF LoggedOut
<1>4. w.token \in 0 .. n
  BY <1>1, <1>2, <1>o DEF WorkRows
<1>5. PICK x : x = bootstrap(tabs[t], "main")
  OBVIOUS
<1>6. PICK y : y = clear(x)
  OBVIOUS
<1>7. PICK z : z = [y EXCEPT !.page = "login"]
  OBVIOUS
<1>8. TabGood(x, n) /\ x.refresh = tabs[t].refresh /\ x.work = [tabs[t].work EXCEPT !["main"] = NoWork]
  BY <1>1, <1>5, <1>o, bootstrapGood
<1>9. TabGood(y, n) /\ y.refresh = x.refresh /\ y.work = x.work
  BY <1>1, <1>6, <1>8, clearGood
<1>10. TabOK(y, n)
  BY <1>1, <1>2, <1>3, <1>8, <1>9, SameWaits DEF TabRows, NoWork
<1>11. TabOK(z, n) /\ z.refresh = tabs[t].refresh
  BY <1>9, <1>7, <1>1, <1>8, <1>10, PageGood DEF TabGood, PageNames, TabRows, Alike
<1>12. OneTab
  BY <1>3, <1>5, <1>6, <1>7, <1>11, <1>n DEF Put, TabStepped, RefreshStep, OneTab
<1>13. SUFFICES Forward(accounts, accounts', n) /\ EndsMore
  BY <1>1, <1>3, <1>12, <1>13, <1>n DEF Ordinary
<1>14. CASE lost \/ w.token = 0
  BY <1>3, <1>14, <1>n, Nothing DEF logout
<1>15. CASE ~lost /\ w.token # 0
  <2>1. PICK i \in 1 .. n : i = w.token
    BY <1>1, <1>4, <1>15
  <2>2. pairs[i] \in PairRows
    BY <1>p, <1>n, <2>1
  <2>3. PICK s \in Nat : s = pairs[i].sid
    BY <2>2 DEF PairRows
  <2>4. s \in Sids
    BY <1>p, <1>n, <2>1, <2>3 DEF Sids
  <2>5. PICK a : a = [accounts EXCEPT !.revoked = @ \cup {s}, !.dead = @ \cup {s}]
    OBVIOUS
  <2>6. accounts' = a /\ ended' = ended \cup {s}
    BY <1>1, <1>3, <1>15, <2>1, <2>3, <2>5 DEF logout
  <2>7. a \in AccountRows /\ a.revoked = accounts.revoked \cup {s} /\ a.dead = accounts.dead \cup {s}
        /\ a.version = accounts.version /\ a.state = accounts.state /\ a.cutoff = accounts.cutoff
    BY <1>p, <2>5 DEF AccountRows
  <2>8. accounts.version \in Nat
    BY <1>p DEF AccountRows
  <2>9. Forward(accounts, a, n)
    BY <1>p, <2>7, <2>8 DEF Forward
  <2>10. EndsMore
    BY <2>4, <2>6, <2>7 DEF EndsMore
  <2> QED BY <2>6, <2>9, <2>10
<1> QED BY <1>14, <1>15

\* The pages that make an account or reset its password.
LEMMA AccountSteps ==
    ASSUME SessionInv, NEW t \in Tab, SetupPage(t) \/ RegisterPage(t) \/ ResetPasswordPage(t)
    PROVE  Ordinary
<1> DEFINE n == Len(pairs)
<1>1. n \in Nat /\ TabOK(tabs[t], n) /\ tabs[t] \in TabRows(n) /\ doubled \in BOOLEAN
  BY TabFacts DEF SessionInv, SessionRows
<1>p. accounts \in AccountRows /\ accounts.cutoff <= n /\ accounts.version \in Nat
  BY DEF SessionInv, SessionRows, AccountRows
<1> HIDE DEF n
<1>n. n = Len(pairs)
  BY DEF n
<1>2. ASSUME NEW p \in PageNames, Put(t, [tabs[t] EXCEPT !.page = p]), UNCHANGED <<pairs, stored, doubled>>,
             Forward(accounts, accounts', n), EndsMore
      PROVE  Ordinary
  BY <1>1, PageGood, <1>2, <1>n, PutOrdinary DEF TabRows, Alike, RefreshStep
<1>o. {"login", "resetdone", "linkdead"} \subseteq PageNames
  BY DEF PageNames
<1>3. CASE SetupPage(t)
  <2>1. UNCHANGED <<pairs, stored, ended, doubled>>
    BY <1>3 DEF SetupPage
  <2>2. CASE accounts.admin
    BY <1>3, <2>2, <1>1, <2>1, Nothing DEF SetupPage, useSetupForm, Ordinary, OneTab
  <2>3. CASE ~accounts.admin
    <3>1. accounts' = createFirstAdmin /\ Put(t, [tabs[t] EXCEPT !.page = "login"])
      BY <1>3, <2>3 DEF SetupPage, useSetupForm
    <3>2. PICK s \in {"none", "active", "gone"} : s = IF accounts.state = "none" THEN "active" ELSE accounts.state
      BY <1>p DEF AccountRows
    <3>3. PICK b \in BOOLEAN : b = TRUE
      OBVIOUS
    <3>4. accounts' = [accounts EXCEPT !.state = s, !.admin = b]
      BY <1>p, <3>1, <3>2, <3>3 DEF createFirstAdmin, AccountRows
    <3>5. accounts' \in AccountRows /\ accounts'.state = s /\ accounts'.version = accounts.version
          /\ accounts'.cutoff = accounts.cutoff /\ accounts'.revoked = accounts.revoked /\ accounts'.dead = accounts.dead
      BY <1>p, <3>4 DEF AccountRows
    <3>6. Forward(accounts, accounts', n)
      BY <1>p, <3>2, <3>5 DEF Forward
    <3>7. EndsMore
      BY <2>1 DEF EndsMore
    <3> QED BY <1>2, <1>o, <2>1, <3>1, <3>6, <3>7
  <2> QED BY <2>2, <2>3
<1>4. CASE RegisterPage(t)
  BY <1>4, <1>p, <1>2, <1>o DEF RegisterPage, useRegisterForm, AccountRows, Forward, EndsMore
<1>5. CASE ResetPasswordPage(t)
  BY <1>5, <1>n, <1>p, EndsAll, <1>2, <1>o, Nothing DEF ResetPasswordPage, useResetPassword,
     complete_password_reset, EndsMore
<1> QED BY <1>3, <1>4, <1>5

\* Every step is an ordinary one, opens a session, ages a token, or is the
\* refresh's or a load's.
LEMMA StepKinds ==
    ASSUME SessionInv, sessionNext
    PROVE  \/ Ordinary \/ SignsIn \/ Expires
           \/ \E t \in Tab : \/ RefreshCheck(t) \/ refresh_tokens(t) \/ RefreshAnswered(t) \/ RefreshLost(t)
                             \/ \E at \in {"app", "magic", "reset", "verify"} : Loads(t, at)
  BY LoginSteps, CallStep, LogoutStep, QuietSteps, AccountSteps DEF TabStep, Reload, Page, Purpose,
     OpenLink, sessionNext

-----------------------------------------------------------------------------
(* The refresh and the page loads, as the tab sees them *)

\* A tab that loads starts anew.
NewTabFits(at, n) == TabOK(NewTab(at), n) /\ NewTab(at).refresh = NoRefresh /\ NewTab(at).work = [l \in Line |-> NoWork]
\* Such a tab is in order: no user, no token, nobody waits.
LEMMA NewTabGood ==
    ASSUME NEW n \in Nat, NEW at \in PageNames
    PROVE  NewTabFits(at, n)
  BY DEF NoWork, NoRefresh, Doings, WorkRows, RefreshRows, NewTab, TabRows, TabGood, TabOK, Waits,
     NewTabFits

\* It refreshes with what is stored, if anything.
LEMMA LoadedGood ==
    ASSUME NEW n \in Nat, NEW at \in PageNames, stored \in 0 .. n
    PROVE  TabOK(AuthProvider(at), n) /\ RefreshStep(NoRefresh, AuthProvider(at).refresh, stored)
<1>1. PICK x : x = NewTab(at)
  OBVIOUS
<1>2. TabOK(x, n) /\ TabGood(x, n) /\ x.refresh = NoRefresh /\ \A l \in Line : x.work[l] = NoWork
  BY <1>1, NewTabGood DEF NewTabFits, TabOK
<1>3. PICK op \in Doings : op = "boot"
  BY DEF Doings
<1>4. PICK v : v = [NoWork EXCEPT !.doing = op]
  OBVIOUS
<1>5. v = [doing |-> op, at |-> "none", token |-> 0, again |-> FALSE]
  BY <1>4 DEF NoWork
<1>6. v \in WorkRows(n) /\ v.at = "none"
  BY <1>5 DEF WorkRows
<1>7. "main" \in Line
  BY DEF Line
<1>8. PICK y : y = [x EXCEPT !.work["main"] = v]
  OBVIOUS
<1>9. TabGood(y, n) /\ y.refresh = x.refresh /\ \A k \in Line : y.work[k] = IF k = "main" THEN v ELSE x.work[k]
  BY <1>2, <1>6, <1>7, <1>8, LineGood
<1>10. TabOK(y, n)
  BY <1>2, <1>6, <1>9, SameWaits DEF NoWork
<1>11. y = [NewTab(at) EXCEPT !.work["main"].doing = "boot"]
  BY <1>2, <1>7, <1>3, <1>4, <1>1, <1>8
<1>12. PICK tb : tb = WaitFor(y, "main")
  OBVIOUS
<1>13. TabOK(tb, n) /\ RefreshStep(y.refresh, tb.refresh, stored)
  BY <1>6, <1>7, <1>9, <1>10, <1>12, WaitForOK
<1> QED BY <1>2, <1>9, <1>11, <1>12, <1>13 DEF AuthProvider

\* So it is for the tab that a page load replaces.
LEMMA LoadsTab ==
    ASSUME SessionInv, NEW t \in Tab, NEW at \in {"app", "magic", "reset", "verify"}, Loads(t, at)
    PROVE  \E tb : /\ TabOK(tb, Len(pairs)) /\ RefreshStep(NoRefresh, tb.refresh, stored)
                   /\ tabs' = [tabs EXCEPT ![t] = Routed(tb)]
  BY TabFacts, LoadedGood DEF PageNames, Loads, Put

\* The refresh is over for the tab: the requests that waited go on, or fail.
LEMMA RefreshOverTab ==
    ASSUME SessionInv, NEW t \in Tab, RefreshAnswered(t) \/ RefreshLost(t)
    PROVE  \E tb : /\ TabOK(tb, Len(pairs)) /\ tb.refresh = NoRefresh /\ tabs' = [tabs EXCEPT ![t] = Routed(tb)]
<1> DEFINE n == Len(pairs)
<1>1. /\ n \in Nat /\ TabGood(tabs[t], n) /\ tabs[t] \in TabRows(n)
      /\ tabs[t].refresh \in RefreshRows(n) /\ \A l \in Line : tabs[t].work[l] \in WorkRows(n)
  BY TabFacts
<1> HIDE DEF n
<1>o. "main" \in Line /\ "side" \in Line /\ \A l \in Line : l = "main" \/ l = "side"
  BY DEF Line
<1>2. NoRefresh \in RefreshRows(n) /\ NoRefresh.at = "none" /\ NoRefresh.token = 0 /\ NoRefresh.pair = 0
  BY <1>1 DEF NoRefresh, RefreshRows
<1>3. PICK x : x = [tabs[t] EXCEPT !.refresh = NoRefresh]
  OBVIOUS
<1>4. TabGood(x, n) /\ x.refresh = NoRefresh
  BY <1>1, <1>2, <1>3, RefreshGoodTab
\* With the failures of both lines no line waits.
<1>5. ASSUME NEW y, TabGood(y, n), y.refresh = NoRefresh, NEW why
      PROVE  TabOK(Failed(Failed(y, "main", why), "side", why), n)
             /\ Failed(Failed(y, "main", why), "side", why).refresh = NoRefresh
  BY <1>1, <1>5, <1>o, FailedGood, <1>2 DEF TabOK, Waits
<1>6. ASSUME NEW i \in 1 .. n
      PROVE  TabOK(Resumed(Resumed(setTokens(x, i), "main"), "side"), n)
             /\ Resumed(Resumed(setTokens(x, i), "main"), "side").refresh = NoRefresh
  <2>1. PICK y : y = setTokens(x, i)
    OBVIOUS
  <2>2. TabGood(y, n) /\ y.refresh = NoRefresh
    BY <1>1, <1>4, <2>1, setTokensGood
  <2>3. PICK y1 : y1 = Resumed(y, "main")
    OBVIOUS
  <2>4. PICK y2 : y2 = Resumed(y1, "side")
    OBVIOUS
  <2>5. TabGood(y1, n) /\ y1.refresh = NoRefresh
        /\ \A k \in Line : y1.work[k].at = IF k = "main" /\ y.work["main"].at = "wait" THEN "call" ELSE y.work[k].at
    BY SMTT(30), <1>1, <1>o, <2>2, <2>3, ResumedGood
  <2>6. TabGood(y2, n) /\ y2.refresh = NoRefresh
        /\ \A k \in Line : y2.work[k].at = IF k = "side" /\ y1.work["side"].at = "wait" THEN "call" ELSE y1.work[k].at
    BY SMTT(30), <1>1, <1>o, <2>4, <2>5, ResumedGood
  <2>7. \A k \in Line : y2.work[k].at # "wait"
    BY <1>o, <2>5, <2>6
  <2>8. TabOK(y2, n)
    BY <1>2, <2>6, <2>7 DEF TabOK, Waits
  <2> QED BY <2>1, <2>3, <2>4, <2>6, <2>8
<1>7. CASE RefreshLost(t)
  BY <1>4, <1>5, <1>3, <1>7 DEF RefreshLost, Put, n
<1>8. CASE RefreshAnswered(t)
  <2>1. PICK i : i = tabs[t].refresh.pair
    OBVIOUS
  <2>2. i \in 0 .. n
    BY <1>1, <2>1 DEF RefreshRows
  <2>3. CASE i = 0
    <3>1. PICK y : y = clear(x)
      OBVIOUS
    <3>2. TabGood(y, n) /\ y.refresh = NoRefresh
      BY <1>1, <1>4, <3>1, clearGood
    <3>3. PICK y2 : y2 = Failed(Failed(y, "main", "refused"), "side", "refused")
      OBVIOUS
    <3>4. TabOK(y2, n) /\ y2.refresh = NoRefresh
      BY <1>5, <3>2, <3>3
    <3>5. tabs' = [tabs EXCEPT ![t] = Routed(y2)]
      BY <1>3, <1>8, <2>1, <2>3, <3>1, <3>3 DEF RefreshAnswered, Put
    <3> QED BY <3>4, <3>5 DEF n
  <2>4. CASE i # 0
    BY <1>1, <2>2, <2>4, <1>6, <1>3, <1>8, <2>1 DEF RefreshAnswered, Put, n
  <2> QED BY <2>3, <2>4
<1> QED BY <1>7, <1>8

-----------------------------------------------------------------------------
(* The invariant is kept *)

\* A step that puts one good tab in place of another keeps the tabs good,
\* also when the list of pairs grew.
LEMMA TabPut ==
    ASSUME SessionInv, NEW t \in Tab, NEW tb, TabOK(tb, Len(pairs')), tabs' = [tabs EXCEPT ![t] = tb],
           Len(pairs') \in Nat, Len(pairs) <= Len(pairs')
    PROVE  TabsInv'
  BY MoreGood DEF SessionInv, SessionRows, TabsInv, TabOK, TabGood

\* What the pairs, the tabs' refreshes and the sessions are like.
LEMMA Facts ==
    ASSUME SessionInv
    PROVE  /\ Len(pairs) \in Nat /\ DOMAIN pairs = 1 .. Len(pairs)
           /\ \A i \in 1 .. Len(pairs) : /\ pairs[i] \in PairRows /\ pairs[i].sid \in Nat /\ pairs[i].sv \in Nat
                                         /\ pairs[i].rotated \in BOOLEAN /\ pairs[i].sid \in Sids
           /\ \A t \in Tab :
                /\ tabs[t].refresh \in RefreshRows(Len(pairs))
                /\ tabs[t].refresh.token \in 0 .. Len(pairs) /\ tabs[t].refresh.pair \in 0 .. Len(pairs) /\ tabs[t].refresh.sv \in Nat
                /\ (tabs[t].refresh.at = "none") = (tabs[t].refresh.token = 0)
                /\ tabs[t].refresh.pair # 0 => tabs[t].refresh.at = "answered"
           /\ accounts.version \in Nat /\ accounts.state \in {"none", "active", "gone"}
<1>1. pairs \in Seq(PairRows) /\ Len(pairs) \in Nat /\ DOMAIN pairs = 1 .. Len(pairs)
  BY DEF SessionInv, SessionRows
<1>2. \A i \in 1 .. Len(pairs) : pairs[i] \in PairRows
  BY <1>1
<1>3. \A i \in 1 .. Len(pairs) : pairs[i].sid \in Nat /\ pairs[i].sv \in Nat /\ pairs[i].rotated \in BOOLEAN
  BY <1>2 DEF PairRows
<1>4. \A i \in 1 .. Len(pairs) : pairs[i].sid \in Sids
  BY <1>1 DEF Sids
<1>5. ASSUME NEW t \in Tab
      PROVE  /\ tabs[t].refresh \in RefreshRows(Len(pairs))
             /\ (tabs[t].refresh.at = "none") = (tabs[t].refresh.token = 0)
             /\ tabs[t].refresh.pair # 0 => tabs[t].refresh.at = "answered"
  BY TabFacts DEF TabGood
<1>6. \A t \in Tab : tabs[t].refresh.token \in 0 .. Len(pairs) /\ tabs[t].refresh.pair \in 0 .. Len(pairs) /\ tabs[t].refresh.sv \in Nat
  BY <1>5 DEF RefreshRows
<1>7. accounts \in AccountRows
  BY DEF SessionInv, SessionRows
<1>8. accounts.version \in Nat /\ accounts.state \in {"none", "active", "gone"}
  BY <1>7 DEF AccountRows
<1> QED BY <1>1, <1>2, <1>3, <1>4, <1>5, <1>6, <1>8

\* A session that is over stays so as the account moves on.
LEMMA StaysOver ==
    ASSUME NEW a, NEW b, NEW n, Forward(a, b, n), a.state # "none", a.version \in Nat,
           NEW sid, NEW sv \in Nat, sv <= a.version, SessionOver(a, sid, sv), a.state \in {"none", "active", "gone"}
    PROVE  SessionOver(b, sid, sv)
  BY DEF Forward, AccountRows, SessionOver

\* A step that issues no pair, rotates none and changes one tab as the browser
\* may keeps the invariant.
LEMMA OrdinaryKeeps ==
    ASSUME SessionInv, Ordinary
    PROVE  SessionInv'
<1> DEFINE n == Len(pairs)
<1>1. /\ pairs' = pairs /\ stored' \in {stored, 0} /\ doubled' \in BOOLEAN /\ (doubled => doubled')
      /\ Forward(accounts, accounts', n) /\ EndsMore /\ OneTab
  BY DEF Ordinary
<1>2. n \in Nat /\ stored \in 0 .. n /\ pairs \in Seq(PairRows)
  BY DEF SessionInv, SessionRows
<1>3. SessionRows'
  BY <1>1, <1>2 DEF SessionRows, Forward
<1>4. TabsInv'
  <2>1. CASE tabs' = tabs
    BY <1>1, <2>1 DEF SessionInv, TabsInv
  <2>2. ASSUME NEW t \in Tab, NEW tb, TabStepped(t, tb) PROVE TabsInv'
    <3>1. TabGood(tb, n) /\ TabOK(tb, n)
      BY <2>2 DEF TabStepped, TabOK
    <3>2. PICK y : y = Routed(tb)
      OBVIOUS
    <3>3. TabGood(y, n) /\ Alike(tb, y)
      BY <1>2, <3>1, <3>2, RoutedGood
    <3>4. TabOK(y, n)
      BY <1>2, <3>1, <3>3, PageGood DEF TabGood
    <3>5. tabs' = [tabs EXCEPT ![t] = y]
      BY <2>2, <3>2 DEF TabStepped
    <3>6. Len(pairs') = n
      BY <1>1
    <3>7. TabOK(y, Len(pairs')) /\ Len(pairs') \in Nat /\ Len(pairs) <= Len(pairs')
      BY <1>2, <3>4, <3>6
    <3> QED BY <3>5, <3>7, TabPut
  <2> QED BY <1>1, <2>1, <2>2 DEF OneTab
\* Each tab's refresh is as it was, or begins.
<1>5. ASSUME NEW u \in Tab PROVE RefreshStep(tabs[u].refresh, tabs'[u].refresh, stored)
  BY <1>2, RoutedGood, <1>1 DEF RefreshStep, TabStepped, TabOK, SessionInv, TabsInv, Alike, OneTab
<1>6. \A u \in Tab : tabs'[u].refresh = tabs[u].refresh
        \/ (tabs[u].refresh.at = "none" /\ stored # 0 /\ tabs'[u].refresh.at = "sent"
            /\ tabs'[u].refresh.token = stored /\ tabs'[u].refresh.pair = 0)
  BY <1>5 DEF Begins, NoRefresh, RefreshStep
<1>7. SidsInv'
  BY <1>1 DEF Sids, SessionInv, SidsInv, EndsMore, Forward
<1>8. EndedInv'
  <2>1. CASE accounts.state = "none"
    BY <2>1, Facts, <1>6, <1>1 DEF SessionInv, SidsInv, EndedInv
  <2>2. CASE accounts.state # "none"
    <3>1. ASSUME NEW sid \in Sids, NEW sv \in Nat, sv <= accounts.version, sid \in ended => SessionOver(accounts, sid, sv)
          PROVE  sv <= accounts'.version /\ (sid \in ended' => SessionOver(accounts', sid, sv))
      BY <1>1, Facts, <2>2, <3>1, StaysOver DEF Forward, AccountRows, EndsMore, SessionOver
    <3>2. ASSUME NEW i \in 1 .. n
          PROVE  pairs[i].sv <= accounts'.version /\ (pairs[i].sid \in ended' => SessionOver(accounts', pairs[i].sid, pairs[i].sv))
      BY Facts, <3>1 DEF SessionInv, EndedInv
    <3>3. ASSUME NEW t \in Tab, tabs'[t].refresh.at = "checked"
          PROVE  /\ tabs'[t].refresh.sv <= accounts'.version
                 /\ pairs[tabs'[t].refresh.token].sid \in ended'
                        => SessionOver(accounts', pairs[tabs'[t].refresh.token].sid, tabs'[t].refresh.sv)
      <4>1. tabs'[t].refresh = tabs[t].refresh /\ tabs[t].refresh.at = "checked"
        BY <1>6, <3>3
      <4>2. PICK i \in 1 .. n : i = tabs[t].refresh.token
        BY <1>2, <4>1, Facts
      <4>3. pairs[i].sid \in Sids /\ tabs[t].refresh.sv \in Nat
        BY Facts
      <4>4. tabs[t].refresh.sv <= accounts.version
            /\ (pairs[i].sid \in ended => SessionOver(accounts, pairs[i].sid, tabs[t].refresh.sv))
        BY <4>1, <4>2 DEF SessionInv, EndedInv
      <4> QED BY <3>1, <4>1, <4>2, <4>3, <4>4
    <3> QED BY <1>1, <3>2, <3>3 DEF EndedInv
  <2> QED BY <2>1, <2>2
<1>9. KeptInv'
  <2>1. SUFFICES ASSUME ~doubled' PROVE
          /\ accounts'.revoked \subseteq accounts'.dead
          /\ \A t \in Tab : tabs'[t].refresh.at = "sent" /\ pairs[tabs'[t].refresh.token].rotated
                => \E u \in Tab : tabs'[u].refresh.token = tabs'[t].refresh.token /\ tabs'[u].refresh.pair # 0
          /\ stored' # 0 /\ pairs[stored'].rotated => \E u \in Tab : tabs'[u].refresh.token = stored' /\ tabs'[u].refresh.pair # 0
          /\ \A t \in Tab : tabs'[t].refresh.pair # 0 =>
              /\ ~pairs[tabs'[t].refresh.pair].rotated /\ stored' # tabs'[t].refresh.pair
              /\ \A u \in Tab : /\ tabs'[u].refresh.token # tabs'[t].refresh.pair
                                /\ u # t => tabs'[u].refresh.pair # tabs'[t].refresh.pair
    BY <1>1, <2>1 DEF KeptInv, Answers
  <2>2. /\ accounts.revoked \subseteq accounts.dead
        /\ \A t \in Tab : tabs[t].refresh.at = "sent" /\ pairs[tabs[t].refresh.token].rotated
              => \E u \in Tab : tabs[u].refresh.token = tabs[t].refresh.token /\ tabs[u].refresh.pair # 0
        /\ stored # 0 /\ pairs[stored].rotated => \E u \in Tab : tabs[u].refresh.token = stored /\ tabs[u].refresh.pair # 0
        /\ \A t \in Tab : tabs[t].refresh.pair # 0 =>
            /\ ~pairs[tabs[t].refresh.pair].rotated /\ stored # tabs[t].refresh.pair
            /\ \A u \in Tab : /\ tabs[u].refresh.token # tabs[t].refresh.pair
                              /\ u # t => tabs[u].refresh.pair # tabs[t].refresh.pair
    BY <1>1, <2>1 DEF SessionInv, KeptInv, Answers
  <2>3. \A u \in Tab : tabs[u].refresh.pair # 0 => tabs'[u].refresh = tabs[u].refresh
    BY <1>6, Facts
  <2>4. \A u \in Tab : tabs'[u].refresh.pair # 0 => tabs'[u].refresh = tabs[u].refresh
    BY <1>6
  <2>5. accounts'.revoked \subseteq accounts'.dead
    BY <1>1, <2>2 DEF Forward
  <2>6. ASSUME NEW t \in Tab, tabs'[t].refresh.at = "sent", pairs[tabs'[t].refresh.token].rotated
        PROVE  \E u \in Tab : tabs'[u].refresh.token = tabs'[t].refresh.token /\ tabs'[u].refresh.pair # 0
    <3>1. PICK u \in Tab : tabs[u].refresh.token = tabs'[t].refresh.token /\ tabs[u].refresh.pair # 0
      BY <1>6, <2>2, <2>6
    <3> QED BY <2>3, <3>1
  <2>7. ASSUME stored' # 0, pairs[stored'].rotated
        PROVE  \E u \in Tab : tabs'[u].refresh.token = stored' /\ tabs'[u].refresh.pair # 0
    <3>1. stored' = stored
      BY <1>1, <2>7
    <3>2. PICK u \in Tab : tabs[u].refresh.token = stored /\ tabs[u].refresh.pair # 0
      BY <2>2, <2>7, <3>1
    <3> QED BY <2>3, <3>1, <3>2
  <2>8. ASSUME NEW t \in Tab, tabs'[t].refresh.pair # 0
        PROVE  /\ ~pairs[tabs'[t].refresh.pair].rotated /\ stored' # tabs'[t].refresh.pair
               /\ \A u \in Tab : /\ tabs'[u].refresh.token # tabs'[t].refresh.pair
                                 /\ u # t => tabs'[u].refresh.pair # tabs'[t].refresh.pair
    <3>1. tabs'[t].refresh = tabs[t].refresh /\ tabs[t].refresh.pair # 0
      BY <2>4, <2>8
    <3>2. ~pairs[tabs[t].refresh.pair].rotated /\ stored # tabs[t].refresh.pair
      BY <2>2, <3>1
    <3>3. ASSUME NEW u \in Tab
          PROVE  tabs'[u].refresh.token # tabs[t].refresh.pair /\ (u # t => tabs'[u].refresh.pair # tabs[t].refresh.pair)
      <4>1. tabs[u].refresh.token # tabs[t].refresh.pair /\ (u # t => tabs[u].refresh.pair # tabs[t].refresh.pair)
        BY <2>2, <3>1
      <4> QED BY <1>6, <3>1, <3>2, <4>1
    <3> QED BY <1>1, <3>1, <3>2, <3>3
  <2> QED BY <2>5, <2>6, <2>7, <2>8
<1> QED BY <1>3, <1>4, <1>7, <1>8, <1>9 DEF SessionInv

\* No session ends and none opens.
LEMMA SameSessions ==
    ASSUME SessionInv, Len(pairs') = Len(pairs), DOMAIN pairs' = 1 .. Len(pairs), ended' = ended,
           \A i \in 1 .. Len(pairs) : pairs'[i].sid = pairs[i].sid /\ pairs'[i].sv = pairs[i].sv,
           accounts'.state = accounts.state, accounts'.version = accounts.version, accounts'.dead = accounts.dead,
           \A t \in Tab : tabs'[t].refresh.at = "checked" =>
               \/ tabs'[t].refresh = tabs[t].refresh
               \/ /\ tabs'[t].refresh.sv = accounts.version /\ tabs'[t].refresh.token \in 1 .. Len(pairs)
                  /\ pairs[tabs'[t].refresh.token].sid \notin ended
    PROVE  SidsInv' /\ EndedInv'
<1> DEFINE n == Len(pairs)
<1>1. n \in Nat /\ DOMAIN pairs = 1 .. n
  BY Facts
<1>2. Sids' = Sids
  BY <1>1 DEF Sids
<1>3. SidsInv'
  BY <1>2 DEF SessionInv, SidsInv
<1>4. ASSUME NEW t \in Tab, tabs'[t].refresh.at = "checked"
      PROVE  /\ tabs'[t].refresh.sv <= accounts'.version
             /\ pairs'[tabs'[t].refresh.token].sid \in ended'
                    => SessionOver(accounts', pairs'[tabs'[t].refresh.token].sid, tabs'[t].refresh.sv)
  <2>1. accounts.version \in Nat
    BY Facts
  <2>2. CASE tabs'[t].refresh = tabs[t].refresh
    BY <1>1, <1>4, <2>2, Facts DEF SessionInv, EndedInv, SessionOver
  <2>3. CASE tabs'[t].refresh.sv = accounts.version /\ tabs'[t].refresh.token \in 1 .. n
             /\ pairs[tabs'[t].refresh.token].sid \notin ended
    BY <2>1, <2>3
  <2> QED BY <1>4, <2>2, <2>3
<1>5. ASSUME NEW i \in 1 .. n
      PROVE  pairs'[i].sv <= accounts'.version /\ (pairs'[i].sid \in ended' => SessionOver(accounts', pairs'[i].sid, pairs'[i].sv))
  BY DEF SessionInv, EndedInv, SessionOver
<1>6. EndedInv'
  BY <1>5, <1>4 DEF EndedInv
<1> QED BY <1>3, <1>6

\* A token of some tab's gets too old to be used.
LEMMA ExpiresKeeps ==
    ASSUME SessionInv, Expires
    PROVE  SessionInv'
<1> DEFINE n == Len(pairs)
<1>1. PICK i \in DOMAIN pairs : pairs' = [pairs EXCEPT ![i].old = TRUE] /\ UNCHANGED <<accounts, mails, stored, tabs, ended, doubled>>
  BY DEF Expires
<1>2. n \in Nat /\ DOMAIN pairs = 1 .. n /\ pairs \in Seq(PairRows)
  BY Facts DEF SessionInv, SessionRows
<1>3. PICK b \in BOOLEAN : b = TRUE
  OBVIOUS
<1>4. PICK r : r = [pairs[i] EXCEPT !.old = b]
  OBVIOUS
<1>5. r \in PairRows /\ r.sid = pairs[i].sid /\ r.sv = pairs[i].sv /\ r.rotated = pairs[i].rotated
  BY <1>2, <1>4, Facts DEF PairRows
<1>6. pairs' = [pairs EXCEPT ![i] = r]
  BY <1>1, <1>3, <1>4
<1>7. pairs' \in Seq(PairRows) /\ Len(pairs') = n /\ DOMAIN pairs' = 1 .. n /\ \A j \in 1 .. n : pairs'[j] = IF j = i THEN r ELSE pairs[j]
  BY <1>2, <1>5, <1>6
<1> HIDE DEF n
<1>8. \A j \in 1 .. n : pairs'[j].sid = pairs[j].sid /\ pairs'[j].sv = pairs[j].sv /\ pairs'[j].rotated = pairs[j].rotated
  BY <1>5, <1>7
<1>9. SessionRows' /\ TabsInv'
  BY <1>1, <1>7 DEF SessionInv, SessionRows, TabsInv, n
<1>10. SidsInv' /\ EndedInv'
  BY <1>1, <1>7, <1>8, SameSessions DEF n
<1>11. KeptInv'
  BY <1>2, Facts, <1>8, <1>1 DEF n, SessionInv, SessionRows, KeptInv, Answers
<1> QED BY <1>9, <1>10, <1>11 DEF SessionInv

\* A session opens: its number is new, its token is known to one tab alone.
LEMMA SignsInKeeps ==
    ASSUME SessionInv, SignsIn
    PROVE  SessionInv'
<1> DEFINE n == Len(pairs)
<1>1. n \in Nat /\ DOMAIN pairs = 1 .. n /\ pairs \in Seq(PairRows) /\ stored \in 0 .. n
  BY Facts DEF SessionInv, SessionRows
<1>2. PICK m \in Nat : Sids = 1 .. m
  BY DEF SessionInv, SidsInv
<1>3. Cardinality(Sids) + 1 = m + 1
  <2>1. Cardinality(1 .. m) = m
    BY FS_Interval
  <2> QED BY <1>2, <2>1
<1>4. PICK r : r = [sid |-> m + 1, sv |-> accounts.version, rotated |-> FALSE, old |-> FALSE]
  OBVIOUS
<1>5. r \in PairRows /\ r.sid = m + 1 /\ r.sv = accounts.version /\ r.rotated = FALSE
  BY Facts, <1>4 DEF PairRows
<1>6. pairs' = Append(pairs, r)
  BY <1>3, <1>4 DEF SignsIn, issue_token_pair, Opens
<1>7. pairs' \in Seq(PairRows) /\ Len(pairs') = n + 1 /\ DOMAIN pairs' = 1 .. n + 1
      /\ pairs'[n + 1] = r /\ \A i \in 1 .. n : pairs'[i] = pairs[i]
  BY <1>1, <1>5, <1>6
<1>8. accounts.state = "active" /\ stored' = n + 1 /\ UNCHANGED <<accounts, ended, doubled>>
  BY DEF SignsIn
<1>9. SessionRows'
  BY <1>1, <1>7, <1>8 DEF SessionInv, SessionRows, AccountRows
<1>10. PICK t \in Tab : \E tb : TabOK(tb, n + 1) /\ tb.refresh = tabs[t].refresh /\ tabs' = [tabs EXCEPT ![t] = Routed(tb)]
  BY DEF SignsIn
<1>11. PICK tb : TabOK(tb, n + 1) /\ tb.refresh = tabs[t].refresh /\ tabs' = [tabs EXCEPT ![t] = Routed(tb)]
  BY <1>10
<1>12. PICK y : y = Routed(tb)
  OBVIOUS
<1>13. TabOK(y, n + 1) /\ y.refresh = tabs[t].refresh
  BY <1>1, <1>11, <1>12, RoutedGood, PageGood DEF TabOK, TabGood, Alike
<1>14. TabsInv'
  <2>1. TabOK(y, Len(pairs')) /\ Len(pairs') \in Nat /\ Len(pairs) <= Len(pairs')
    BY <1>1, <1>7, <1>13
  <2> QED BY <1>11, <1>12, <2>1, TabPut
<1>15. \A u \in Tab : tabs'[u].refresh = tabs[u].refresh
  BY <1>11, <1>12, <1>13 DEF SessionInv, TabsInv
<1>16. SidsInv'
  <2>1. Sids' = Sids \cup {m + 1}
    BY <1>7, <1>1, <1>5 DEF Sids
  <2>2. Sids' = 1 .. m + 1 /\ m + 1 \in Nat
    BY <1>2, <2>1
  <2> QED BY <1>8, <2>1, <2>2 DEF SessionInv, SidsInv
<1>17. EndedInv'
  <2>1. m + 1 \notin ended
    BY <1>2 DEF SessionInv, SidsInv
  <2>2. ASSUME NEW i \in 1 .. n + 1
        PROVE  pairs'[i].sv <= accounts.version /\ (pairs'[i].sid \in ended => SessionOver(accounts, pairs'[i].sid, pairs'[i].sv))
    <3>1. CASE i \in 1 .. n
      BY <1>7, <3>1 DEF SessionInv, EndedInv
    <3>2. CASE i = n + 1
      BY Facts, <1>5, <1>7, <2>1, <3>2
    <3> QED BY <1>1, <3>1, <3>2
  <2>3. ASSUME NEW u \in Tab, tabs[u].refresh.at = "checked"
        PROVE  /\ tabs[u].refresh.sv <= accounts.version
               /\ pairs'[tabs[u].refresh.token].sid \in ended
                    => SessionOver(accounts, pairs'[tabs[u].refresh.token].sid, tabs[u].refresh.sv)
    BY <1>1, <2>3, Facts, <1>7 DEF SessionInv, EndedInv
  <2> QED BY <1>7, <1>8, <1>15, <2>2, <2>3 DEF EndedInv
<1>18. KeptInv'
  <2>1. \A u \in Tab : /\ tabs[u].refresh.token \in 0 .. n /\ tabs[u].refresh.pair \in 0 .. n
                       /\ tabs[u].refresh.at = "sent" => tabs[u].refresh.token \in 1 .. n
                       /\ tabs[u].refresh.pair # 0 => tabs[u].refresh.pair \in 1 .. n
    BY <1>1, Facts
  <2>2. \A u \in Tab : tabs[u].refresh.at = "sent" => pairs'[tabs[u].refresh.token].rotated = pairs[tabs[u].refresh.token].rotated
    BY <1>7, <2>1
  <2>3. \A u \in Tab : tabs[u].refresh.pair # 0 => pairs'[tabs[u].refresh.pair].rotated = pairs[tabs[u].refresh.pair].rotated
    BY <1>7, <2>1
  <2>4. ~pairs'[stored'].rotated
    BY <1>5, <1>7, <1>8
  <2>5. \A u \in Tab : stored' # tabs[u].refresh.pair
    BY <1>1, <1>8, <2>1
  <2> QED BY <1>8, <1>15, <2>2, <2>3, <2>4, <2>5 DEF SessionInv, KeptInv, Answers
<1> QED BY <1>9, <1>14, <1>16, <1>17, <1>18 DEF SessionInv

\* The server checks the token of a refresh: one that was rotated ends the
\* session, and then another tab is about to be handed the successor.
LEMMA CheckKeeps ==
    ASSUME SessionInv, NEW t \in Tab, RefreshCheck(t)
    PROVE  SessionInv'
<1> DEFINE n == Len(pairs)
<1>1. n \in Nat /\ DOMAIN pairs = 1 .. n /\ pairs \in Seq(PairRows) /\ stored \in 0 .. n /\ doubled \in BOOLEAN
      /\ accounts \in AccountRows /\ accounts.cutoff <= n
  BY Facts DEF SessionInv, SessionRows
<1>2. PICK i : i = tabs[t].refresh.token
  OBVIOUS
<1>3. /\ tabs[t].refresh.at = "sent" /\ accounts' = revoke_family(accounts, i)
      /\ tabs' = [tabs EXCEPT ![t].refresh = IF RefreshGood(i) THEN [@ EXCEPT !.at = "checked", !.sv = accounts.version]
                                             ELSE [@ EXCEPT !.at = "answered"]]
      /\ doubled' = (doubled \/ Shares(t)) /\ UNCHANGED <<pairs, mails, stored, ended, sessionLeft>>
  BY <1>2 DEF RefreshCheck
<1>4. i \in 1 .. n /\ tabs[t].refresh.pair = 0 /\ tabs[t].refresh \in RefreshRows(n) /\ pairs[i].sid \in Nat /\ pairs[i].sv \in Nat
  BY <1>1, <1>2, <1>3, Facts
<1>5. PICK r : r = IF RefreshGood(i) THEN [tabs[t].refresh EXCEPT !.at = "checked", !.sv = accounts.version]
                   ELSE [tabs[t].refresh EXCEPT !.at = "answered"]
  OBVIOUS
<1>6. /\ r \in RefreshRows(n) /\ r.token = i /\ r.pair = 0
      /\ (r.at = "checked" /\ RefreshGood(i) /\ r.sv = accounts.version) \/ r.at = "answered"
  BY Facts, <1>5, <1>2, <1>4 DEF RefreshRows
<1>7. PICK y : y = [tabs[t] EXCEPT !.refresh = r]
  OBVIOUS
<1>8. TabOK(y, n) /\ y.refresh = r
  BY TabFacts, <1>4, <1>6, <1>1, <1>7, RefreshGoodTab, <1>3 DEF TabOK, Waits
<1>9. tabs' = [tabs EXCEPT ![t] = y] /\ DOMAIN tabs = Tab
  BY <1>3, <1>5, <1>7 DEF SessionInv, TabsInv
<1>10. TabsInv'
  <2>1. TabOK(y, Len(pairs')) /\ Len(pairs') \in Nat /\ Len(pairs) <= Len(pairs')
    BY <1>1, <1>3, <1>8
  <2> QED BY <1>9, <2>1, TabPut
<1>11. tabs'[t].refresh = r /\ \A u \in Tab \ {t} : tabs'[u] = tabs[u]
  BY <1>8, <1>9
<1>12. accounts' \in AccountRows /\ accounts'.cutoff = accounts.cutoff /\ accounts'.state = accounts.state
       /\ accounts'.version = accounts.version /\ accounts'.dead = accounts.dead
       /\ (accounts'.revoked = accounts.revoked \/ pairs[i].rotated)
  BY <1>4, <1>3, <1>1 DEF revoke_family, AccountRows
<1>13. SessionRows'
  BY <1>1, <1>3, <1>12 DEF SessionRows
<1>14. SidsInv' /\ EndedInv'
  <2>1. RefreshGood(i) => pairs[i].sid \notin ended
    BY <1>4 DEF RefreshGood, is_alive, SessionInv, EndedInv, SessionOver
  <2>2. \A u \in Tab : tabs'[u].refresh.at = "checked" =>
               \/ tabs'[u].refresh = tabs[u].refresh
               \/ /\ tabs'[u].refresh.sv = accounts.version /\ tabs'[u].refresh.token \in 1 .. Len(pairs)
                  /\ pairs[tabs'[u].refresh.token].sid \notin ended
    BY <1>4, <1>6, <1>11, <2>1
  <2> QED BY <1>1, <1>3, <1>12, <2>2, SameSessions
<1>15. KeptInv'
  <2>1. SUFFICES ASSUME ~doubled' PROVE KeptInv'
    BY DEF KeptInv
  <2>2. ~doubled /\ ~Shares(t)
    BY <1>1, <1>3, <2>1
  <2>3. \A u \in Tab \ {t} : tabs[u].refresh.token # i
    BY <1>2, <2>2 DEF Shares
  <2>4. ~pairs[i].rotated
    BY <1>2, <1>3, <2>2, <1>4, <2>3 DEF SessionInv, KeptInv, Answers
  <2>5. \A u \in Tab : tabs[u].refresh.token = tabs'[u].refresh.token /\ tabs[u].refresh.pair = tabs'[u].refresh.pair
    BY <1>2, <1>4, <1>6, <1>11
  <2>6. \A u \in Tab : tabs'[u].refresh.at = "sent" => tabs[u].refresh.at = "sent"
    BY <1>6, <1>11
  <2>7. accounts'.revoked \subseteq accounts'.dead
    BY <1>12, <2>2, <2>4 DEF SessionInv, KeptInv
  <2> QED BY <1>3, <2>2, <2>5, <2>6, <2>7 DEF SessionInv, KeptInv, Answers
<1> QED BY <1>10, <1>13, <1>14, <1>15 DEF SessionInv

\* The server rotates the token and issues its successor, of the same session
\* and with the version that was current at the check.
LEMMA RotateKeeps ==
    ASSUME SessionInv, NEW t \in Tab, refresh_tokens(t)
    PROVE  SessionInv'
<1> DEFINE n == Len(pairs)
<1>1. n \in Nat /\ DOMAIN pairs = 1 .. n /\ pairs \in Seq(PairRows) /\ stored \in 0 .. n /\ doubled \in BOOLEAN
      /\ accounts \in AccountRows /\ accounts.cutoff <= n /\ accounts.cutoff \in Nat
  BY Facts DEF SessionInv, SessionRows, AccountRows
<1>2. PICK i : i = tabs[t].refresh.token
  OBVIOUS
<1>3. /\ tabs[t].refresh.at = "checked"
      /\ pairs' = Append(rotate_refresh(i), [sid |-> pairs[i].sid, sv |-> tabs[t].refresh.sv, rotated |-> FALSE, old |-> FALSE])
      /\ tabs' = [tabs EXCEPT ![t].refresh.at = "answered", ![t].refresh.pair = n + 1]
      /\ UNCHANGED <<accounts, mails, stored, ended, doubled, sessionLeft>>
  BY <1>2 DEF refresh_tokens
<1>4. i \in 1 .. n /\ tabs[t].refresh.pair = 0 /\ tabs[t].refresh \in RefreshRows(n) /\ pairs[i] \in PairRows
      /\ tabs[t].refresh.sv \in Nat /\ pairs[i].sid \in Nat
  BY <1>1, <1>2, <1>3, Facts
<1>5. PICK q : q = [sid |-> pairs[i].sid, sv |-> tabs[t].refresh.sv, rotated |-> FALSE, old |-> FALSE]
  OBVIOUS
<1>6. q \in PairRows /\ q.sid = pairs[i].sid /\ q.sv = tabs[t].refresh.sv /\ ~q.rotated
  BY <1>4, <1>5 DEF PairRows
<1>7. PICK b \in BOOLEAN : b = TRUE
  OBVIOUS
<1>8. PICK p : p = [pairs[i] EXCEPT !.rotated = b]
  OBVIOUS
<1>9. p \in PairRows /\ p.sid = pairs[i].sid /\ p.sv = pairs[i].sv
  BY <1>4, <1>8 DEF PairRows
<1>10. pairs' = Append([pairs EXCEPT ![i] = p], q)
  BY <1>3, <1>5, <1>7, <1>8 DEF rotate_refresh
<1>11. [pairs EXCEPT ![i] = p] \in Seq(PairRows) /\ Len([pairs EXCEPT ![i] = p]) = n
  BY <1>1, <1>4, <1>9
<1>12. pairs' \in Seq(PairRows) /\ Len(pairs') = n + 1 /\ DOMAIN pairs' = 1 .. n + 1 /\ pairs'[n + 1] = q
       /\ \A j \in 1 .. n : pairs'[j] = IF j = i THEN p ELSE pairs[j]
  BY <1>1, <1>4, <1>6, <1>10, <1>11
<1> HIDE DEF n
<1>n. n = Len(pairs)
  BY DEF n
<1>13. PICK r : r = [tabs[t].refresh EXCEPT !.at = "answered", !.pair = n + 1]
  OBVIOUS
<1>14. r \in RefreshRows(n + 1) /\ r.token = i /\ r.pair = n + 1 /\ r.at = "answered"
  <2>1. tabs[t].refresh \in RefreshRows(n + 1)
    BY <1>1, <1>4 DEF RefreshRows
  <2>2. PICK k \in 0 .. n + 1 : k = n + 1
    BY <1>1
  <2> QED BY <1>2, <1>13, <2>1, <2>2 DEF RefreshRows
<1>15. PICK y : y = [tabs[t] EXCEPT !.refresh = r]
  OBVIOUS
<1>16. TabOK(y, n + 1) /\ y.refresh = r
  <2>1. TabGood(tabs[t], n) /\ TabOK(tabs[t], n) /\ n + 1 \in Nat /\ n <= n + 1
    BY <1>1, <1>n, TabFacts
  <2>2. TabGood(tabs[t], n + 1)
    BY <1>1, <2>1, MoreGood
  <2>3. (r.at = "none") = (r.token = 0) /\ (r.pair # 0 => r.at = "answered")
    BY <1>1, <1>4, <1>14
  <2>4. TabGood(y, n + 1) /\ y.refresh = r /\ y.work = tabs[t].work
    BY <1>14, <1>15, <2>1, <2>2, <2>3, RefreshGoodTab
  <2> QED BY <1>3, <1>14, <2>1, <2>4 DEF TabOK, Waits
<1>17. tabs' = [tabs EXCEPT ![t] = y] /\ DOMAIN tabs = Tab
  BY <1>n, TabFacts, <1>3, <1>13, <1>15 DEF SessionInv, TabsInv, TabRows
<1>18. TabsInv'
  <2>1. TabOK(y, Len(pairs')) /\ Len(pairs') \in Nat /\ Len(pairs) <= Len(pairs')
    BY <1>1, <1>12, <1>16, <1>n
  <2> QED BY <1>17, <2>1, TabPut
<1>19. tabs'[t].refresh = r /\ \A u \in Tab \ {t} : tabs'[u] = tabs[u]
  BY <1>16, <1>17
<1>20. SessionRows'
  BY <1>1, <1>3, <1>12 DEF SessionRows
<1>21. \A j \in 1 .. n : pairs'[j].sid = pairs[j].sid /\ pairs'[j].sv = pairs[j].sv
  BY <1>9, <1>12
<1>22. SidsInv'
  <2>1. Sids' = Sids
    <3>1. Sids' = {pairs'[j].sid : j \in 1 .. n + 1}
      BY <1>12 DEF Sids
    <3>2. Sids = {pairs[j].sid : j \in 1 .. n}
      BY <1>1 DEF Sids
    <3>3. 1 .. n + 1 = (1 .. n) \cup {n + 1}
      BY <1>1
    <3>4. Sids' = {pairs'[j].sid : j \in 1 .. n} \cup {q.sid}
      BY <1>12, <3>1, <3>3
    <3>5. {pairs'[j].sid : j \in 1 .. n} = Sids
      BY <1>21, <3>2
    <3>6. q.sid \in Sids
      BY <1>4, <1>6, <3>2
    <3> QED BY <3>4, <3>5, <3>6
  <2>2. accounts.state # "none"
    BY <1>1, <1>4, <1>n DEF SessionInv, SidsInv
  <2> QED BY <1>3, <2>1, <2>2 DEF SessionInv, SidsInv
<1>23. EndedInv'
  <2>1. ASSUME NEW j \in 1 .. n + 1
        PROVE  pairs'[j].sv <= accounts.version /\ (pairs'[j].sid \in ended => SessionOver(accounts, pairs'[j].sid, pairs'[j].sv))
    <3>1. CASE j \in 1 .. n
      BY <1>n, <1>21, <3>1 DEF SessionInv, EndedInv
    <3>2. CASE j = n + 1
      BY <1>2, <1>3, <1>6, <1>12, <3>2 DEF SessionInv, EndedInv
    <3> QED BY <1>1, <3>1, <3>2
  <2>2. ASSUME NEW u \in Tab, tabs'[u].refresh.at = "checked"
        PROVE  /\ tabs'[u].refresh.sv <= accounts.version
               /\ pairs'[tabs'[u].refresh.token].sid \in ended
                    => SessionOver(accounts, pairs'[tabs'[u].refresh.token].sid, tabs'[u].refresh.sv)
    <3>1. u # t /\ tabs'[u].refresh = tabs[u].refresh
      BY <1>14, <1>19, <2>2
    <3>2. tabs[u].refresh.token \in 1 .. n
      BY <1>1, <1>n, <2>2, <3>1, Facts
    <3> QED BY <1>21, <2>2, <3>1, <3>2 DEF SessionInv, EndedInv
  <2> QED BY <1>3, <1>12, <2>1, <2>2 DEF EndedInv
<1>24. KeptInv'
  <2>1. \A u \in Tab : /\ tabs[u].refresh.token \in 0 .. n /\ tabs[u].refresh.pair \in 0 .. n
                       /\ tabs[u].refresh.at = "sent" => tabs[u].refresh.token \in 1 .. n
                       /\ tabs[u].refresh.pair # 0 => tabs[u].refresh.pair \in 1 .. n
    BY SMTT(30), <1>1, <1>n, Facts
  <2>2. SUFFICES ASSUME ~doubled PROVE
          /\ accounts.revoked \subseteq accounts.dead
          /\ \A u \in Tab : tabs'[u].refresh.at = "sent" /\ pairs'[tabs'[u].refresh.token].rotated
                => \E v \in Tab : tabs'[v].refresh.token = tabs'[u].refresh.token /\ tabs'[v].refresh.pair # 0
          /\ stored # 0 /\ pairs'[stored].rotated => \E v \in Tab : tabs'[v].refresh.token = stored /\ tabs'[v].refresh.pair # 0
          /\ \A u \in Tab : tabs'[u].refresh.pair # 0 =>
              /\ ~pairs'[tabs'[u].refresh.pair].rotated /\ stored # tabs'[u].refresh.pair
              /\ \A v \in Tab : /\ tabs'[v].refresh.token # tabs'[u].refresh.pair
                                /\ v # u => tabs'[v].refresh.pair # tabs'[u].refresh.pair
    BY <1>3, <2>2 DEF KeptInv, Answers
  <2>3. /\ accounts.revoked \subseteq accounts.dead
        /\ \A u \in Tab : tabs[u].refresh.at = "sent" /\ pairs[tabs[u].refresh.token].rotated
              => \E v \in Tab : tabs[v].refresh.token = tabs[u].refresh.token /\ tabs[v].refresh.pair # 0
        /\ stored # 0 /\ pairs[stored].rotated => \E v \in Tab : tabs[v].refresh.token = stored /\ tabs[v].refresh.pair # 0
        /\ \A u \in Tab : tabs[u].refresh.pair # 0 =>
            /\ ~pairs[tabs[u].refresh.pair].rotated /\ stored # tabs[u].refresh.pair
            /\ \A v \in Tab : /\ tabs[v].refresh.token # tabs[u].refresh.pair
                              /\ v # u => tabs[v].refresh.pair # tabs[u].refresh.pair
    BY <2>2 DEF SessionInv, KeptInv, Answers
  <2>4. tabs'[t].refresh.token = i /\ tabs'[t].refresh.pair # 0 /\ tabs'[t].refresh.pair = n + 1 /\ tabs'[t].refresh.at = "answered"
    BY <1>1, <1>14, <1>19
  <2>5. \A u \in Tab : tabs[u].refresh.pair # 0 => tabs'[u].refresh = tabs[u].refresh
    BY <1>4, <1>19
  <2>6. ASSUME NEW k \in 1 .. n, pairs[k].rotated => \E v \in Tab : tabs[v].refresh.token = k /\ tabs[v].refresh.pair # 0,
               pairs'[k].rotated
        PROVE  \E v \in Tab : tabs'[v].refresh.token = k /\ tabs'[v].refresh.pair # 0
    BY <2>4, <1>12, <2>6, <2>5
  <2>7. ASSUME NEW u \in Tab, tabs'[u].refresh.at = "sent", pairs'[tabs'[u].refresh.token].rotated
        PROVE  \E v \in Tab : tabs'[v].refresh.token = tabs'[u].refresh.token /\ tabs'[v].refresh.pair # 0
    BY <1>19, <2>4, <2>7, <2>1, <2>3, <2>6
  <2>8. ASSUME stored # 0, pairs'[stored].rotated
        PROVE  \E v \in Tab : tabs'[v].refresh.token = stored /\ tabs'[v].refresh.pair # 0
    BY <1>1, <2>8, <2>3, <2>6
  <2>9. ASSUME NEW u \in Tab, tabs'[u].refresh.pair # 0
        PROVE  /\ ~pairs'[tabs'[u].refresh.pair].rotated /\ stored # tabs'[u].refresh.pair
               /\ \A v \in Tab : /\ tabs'[v].refresh.token # tabs'[u].refresh.pair
                                 /\ v # u => tabs'[v].refresh.pair # tabs'[u].refresh.pair
    <3>1. CASE u = t
      BY <1>4, <1>19, <2>1, <2>4, <1>1, <1>6, <1>12, <3>1
    <3>2. CASE u # t
      <4>1. tabs'[u].refresh = tabs[u].refresh /\ tabs[u].refresh.pair \in 1 .. n
        BY <1>19, <2>1, <2>9, <3>2
      <4>2. tabs[u].refresh.pair # i
        BY <1>2, <2>3, <2>9, <4>1
      <4>3. ~pairs'[tabs[u].refresh.pair].rotated /\ stored # tabs[u].refresh.pair
        BY <1>12, <2>3, <2>9, <4>1, <4>2
      <4>4. ASSUME NEW v \in Tab
            PROVE  tabs'[v].refresh.token # tabs[u].refresh.pair /\ (v # u => tabs'[v].refresh.pair # tabs[u].refresh.pair)
        BY <1>1, <2>4, <4>1, <4>2, <1>19, <2>3, <2>9
      <4> QED BY <4>1, <4>3, <4>4
    <3> QED BY <3>1, <3>2
  <2> QED BY <2>3, <2>7, <2>8, <2>9
<1> QED BY <1>18, <1>20, <1>22, <1>23, <1>24 DEF SessionInv

\* The routed tab of a step that leaves the pairs there are.
LEMMA RoutedPut ==
    ASSUME SessionInv, NEW t \in Tab, NEW tb, TabOK(tb, Len(pairs)), tabs' = [tabs EXCEPT ![t] = Routed(tb)],
           Len(pairs') = Len(pairs)
    PROVE  TabsInv' /\ tabs'[t].refresh = tb.refresh /\ \A u \in Tab \ {t} : tabs'[u] = tabs[u]
  BY RoutedGood, PageGood, TabPut DEF SessionInv, SessionRows, TabOK, TabGood, TabsInv, Alike

\* The successor reaches the tab, or the refresh is over without one.
LEMMA OverKeeps ==
    ASSUME SessionInv, NEW t \in Tab, RefreshAnswered(t) \/ RefreshLost(t)
    PROVE  SessionInv'
<1> DEFINE n == Len(pairs)
<1>1. n \in Nat /\ DOMAIN pairs = 1 .. n /\ pairs \in Seq(PairRows) /\ stored \in 0 .. n /\ doubled \in BOOLEAN
      /\ accounts \in AccountRows /\ accounts.cutoff <= n
  BY Facts DEF SessionInv, SessionRows
<1>2. UNCHANGED <<accounts, pairs, ended>>
  BY DEF RefreshAnswered, RefreshLost
<1>3. PICK tb : TabOK(tb, n) /\ tb.refresh = NoRefresh /\ tabs' = [tabs EXCEPT ![t] = Routed(tb)]
  BY RefreshOverTab
<1>4. Len(pairs') = Len(pairs)
  BY <1>2
<1>5. TabsInv' /\ tabs'[t].refresh = NoRefresh /\ \A u \in Tab \ {t} : tabs'[u] = tabs[u]
  BY <1>3, <1>4, RoutedPut
<1>6. NoRefresh.at = "none" /\ NoRefresh.token = 0 /\ NoRefresh.pair = 0
  BY DEF NoRefresh
<1>7. tabs[t].refresh.pair \in 0 .. n
  BY Facts
<1>8. /\ stored' = stored \/ (RefreshAnswered(t) /\ stored' = tabs[t].refresh.pair)
      /\ doubled' = (doubled \/ Shares(t)) \/ (RefreshLost(t) /\ stored' = stored /\ doubled' = (doubled \/ tabs[t].refresh.pair # 0))
  BY DEF RefreshAnswered, RefreshLost
<1>9. SessionRows'
  BY <1>1, <1>8, <1>7, <1>2 DEF SessionRows
<1>10. SidsInv' /\ EndedInv'
  BY <1>5, <1>6, <1>1, <1>2, SameSessions
<1>11. KeptInv'
  <2>2. SUFFICES ASSUME ~doubled' PROVE
          /\ accounts.revoked \subseteq accounts.dead
          /\ \A u \in Tab : tabs'[u].refresh.at = "sent" /\ pairs[tabs'[u].refresh.token].rotated
                => \E v \in Tab : tabs'[v].refresh.token = tabs'[u].refresh.token /\ tabs'[v].refresh.pair # 0
          /\ stored' # 0 /\ pairs[stored'].rotated => \E v \in Tab : tabs'[v].refresh.token = stored' /\ tabs'[v].refresh.pair # 0
          /\ \A u \in Tab : tabs'[u].refresh.pair # 0 =>
              /\ ~pairs[tabs'[u].refresh.pair].rotated /\ stored' # tabs'[u].refresh.pair
              /\ \A v \in Tab : /\ tabs'[v].refresh.token # tabs'[u].refresh.pair
                                /\ v # u => tabs'[v].refresh.pair # tabs'[u].refresh.pair
    BY <1>2, <2>2 DEF KeptInv, Answers
  <2>3. ~doubled
    BY <1>1, <1>8, <2>2
  <2>4. /\ accounts.revoked \subseteq accounts.dead
        /\ \A u \in Tab : tabs[u].refresh.at = "sent" /\ pairs[tabs[u].refresh.token].rotated
              => \E v \in Tab : tabs[v].refresh.token = tabs[u].refresh.token /\ tabs[v].refresh.pair # 0
        /\ stored # 0 /\ pairs[stored].rotated => \E v \in Tab : tabs[v].refresh.token = stored /\ tabs[v].refresh.pair # 0
        /\ \A u \in Tab : tabs[u].refresh.pair # 0 =>
            /\ ~pairs[tabs[u].refresh.pair].rotated /\ stored # tabs[u].refresh.pair
            /\ \A v \in Tab : /\ tabs[v].refresh.token # tabs[u].refresh.pair
                              /\ v # u => tabs[v].refresh.pair # tabs[u].refresh.pair
    BY <2>3 DEF SessionInv, KeptInv, Answers
\* A tab that sends the same token, or is about to be handed the same, would have been seen.
  <2>5. tabs[t].refresh.pair # 0 => RefreshAnswered(t) /\ stored' = tabs[t].refresh.pair /\ ~Shares(t)
    <3>1. CASE RefreshLost(t)
      <4>1. doubled' = (doubled \/ tabs[t].refresh.pair # 0)
        BY <3>1 DEF RefreshLost
      <4> QED BY <1>1, <2>2, <4>1
    <3>2. CASE RefreshAnswered(t)
      <4>1. doubled' = (doubled \/ Shares(t)) /\ stored' = tabs[t].refresh.pair
        BY <3>2 DEF RefreshAnswered
      <4> QED BY <1>1, <2>2, <3>2, <4>1
    <3> QED BY <3>1, <3>2
  <2>6. ASSUME NEW u \in Tab, tabs'[u].refresh.at = "sent", pairs[tabs'[u].refresh.token].rotated
        PROVE  \E v \in Tab : tabs'[v].refresh.token = tabs'[u].refresh.token /\ tabs'[v].refresh.pair # 0
    <3>1. u # t /\ tabs'[u] = tabs[u]
      BY <1>5, <1>6, <2>6
    <3>2. PICK v \in Tab : tabs[v].refresh.token = tabs[u].refresh.token /\ tabs[v].refresh.pair # 0
      BY <2>4, <2>6, <3>1
    <3>3. v # t
      BY <2>5, <3>1, <3>2 DEF Shares
    <3> QED BY <1>5, <3>1, <3>2, <3>3
  <2>7. ASSUME stored' # 0, pairs[stored'].rotated
        PROVE  \E v \in Tab : tabs'[v].refresh.token = stored' /\ tabs'[v].refresh.pair # 0
    <3>1. CASE tabs[t].refresh.pair # 0
      BY <2>4, <2>5, <2>7, <3>1
    <3>2. CASE tabs[t].refresh.pair = 0
      <4>1. stored' = stored
        BY <1>8, <2>7, <3>2
      <4>2. PICK v \in Tab : tabs[v].refresh.token = stored /\ tabs[v].refresh.pair # 0
        BY <2>4, <2>7, <4>1
      <4> QED BY <1>5, <3>2, <4>1, <4>2
    <3> QED BY <3>1, <3>2
  <2>8. ASSUME NEW u \in Tab, tabs'[u].refresh.pair # 0
        PROVE  /\ ~pairs[tabs'[u].refresh.pair].rotated /\ stored' # tabs'[u].refresh.pair
               /\ \A v \in Tab : /\ tabs'[v].refresh.token # tabs'[u].refresh.pair
                                 /\ v # u => tabs'[v].refresh.pair # tabs'[u].refresh.pair
    <3>1. u # t /\ tabs'[u] = tabs[u] /\ tabs[u].refresh.pair # 0
      BY <1>5, <1>6, <2>8
    <3>2. stored' # tabs[u].refresh.pair
      BY <1>8, <2>4, <3>1
    <3>3. ASSUME NEW v \in Tab
          PROVE  tabs'[v].refresh.token # tabs[u].refresh.pair /\ (v # u => tabs'[v].refresh.pair # tabs[u].refresh.pair)
      <4>1. CASE v = t
        BY <1>5, <1>6, <3>1, <4>1
      <4>2. CASE v # t
        BY <1>5, <2>4, <3>1, <4>2
      <4> QED BY <4>1, <4>2
    <3> QED BY <2>4, <3>1, <3>2, <3>3
  <2> QED BY <2>4, <2>6, <2>7, <2>8
<1> QED BY <1>5, <1>9, <1>10, <1>11 DEF SessionInv

\* A page loads, whatever was under way in the tab.
LEMMA LoadsKeeps ==
    ASSUME SessionInv, NEW t \in Tab, NEW at \in {"app", "magic", "reset", "verify"}, Loads(t, at)
    PROVE  SessionInv'
<1> DEFINE n == Len(pairs)
<1>1. n \in Nat /\ DOMAIN pairs = 1 .. n /\ pairs \in Seq(PairRows) /\ stored \in 0 .. n /\ doubled \in BOOLEAN
      /\ accounts \in AccountRows /\ accounts.cutoff <= n
  BY Facts DEF SessionInv, SessionRows
<1>2. UNCHANGED <<accounts, stored, ended>> /\ doubled' = (doubled \/ tabs[t].refresh.at # "none")
  BY DEF Loads
<1>3. pairs' = pairs \/ (tabs[t].refresh.at \in {"sent", "checked"} /\ pairs' = rotate_refresh(tabs[t].refresh.token))
  BY DEF Loads
<1>4. /\ pairs' \in Seq(PairRows) /\ Len(pairs') = n /\ DOMAIN pairs' = 1 .. n
      /\ \A j \in 1 .. n : pairs'[j].sid = pairs[j].sid /\ pairs'[j].sv = pairs[j].sv
  <2>1. CASE pairs' = pairs
    BY <1>1, <2>1
  <2>2. CASE tabs[t].refresh.at \in {"sent", "checked"} /\ pairs' = rotate_refresh(tabs[t].refresh.token)
    <3>1. PICK i \in 1 .. n : i = tabs[t].refresh.token
      BY <1>1, <2>2, Facts
    <3>2. PICK b \in BOOLEAN : b = TRUE
      OBVIOUS
    <3>3. PICK p : p = [pairs[i] EXCEPT !.rotated = b]
      OBVIOUS
    <3>4. p \in PairRows /\ p.sid = pairs[i].sid /\ p.sv = pairs[i].sv
      BY <3>3, Facts DEF PairRows
    <3>5. pairs' = [pairs EXCEPT ![i] = p]
      BY <2>2, <3>1, <3>2, <3>3 DEF rotate_refresh
    <3>6. pairs' \in Seq(PairRows) /\ Len(pairs') = n /\ DOMAIN pairs' = 1 .. n
          /\ \A j \in 1 .. n : pairs'[j] = IF j = i THEN p ELSE pairs[j]
      BY <1>1, <3>4, <3>5
    <3> QED BY <3>4, <3>6
  <2> QED BY <1>3, <2>1, <2>2
<1>5. PICK tb : /\ TabOK(tb, n) /\ RefreshStep(NoRefresh, tb.refresh, stored)
                /\ tabs' = [tabs EXCEPT ![t] = Routed(tb)]
  BY LoadsTab
<1>6. TabsInv' /\ tabs'[t].refresh = tb.refresh /\ \A u \in Tab \ {t} : tabs'[u] = tabs[u]
  BY <1>4, <1>5, RoutedPut
<1>7. PICK r : r = tb.refresh
  OBVIOUS
<1>8. (r.at = "none" /\ r.token = 0 /\ r.pair = 0) \/ (r.at = "sent" /\ stored # 0 /\ r.token = stored /\ r.pair = 0)
  <2>1. CASE r = NoRefresh
    BY <2>1 DEF NoRefresh
  <2>2. CASE stored # 0 /\ Begins(r, stored)
    BY <2>2 DEF Begins, NoRefresh
  <2> QED BY <1>5, <1>7, <2>1, <2>2 DEF RefreshStep
<1>9. SessionRows'
  BY <1>1, <1>2, <1>4 DEF SessionRows
<1>10. SidsInv' /\ EndedInv'
  BY <1>6, <1>7, <1>8, <1>2, <1>4, SameSessions
<1>11. KeptInv'
  <2>1. SUFFICES ASSUME ~doubled' PROVE KeptInv'
    BY DEF KeptInv
  <2>2. ~doubled /\ tabs[t].refresh.at = "none" /\ pairs' = pairs
    BY <1>1, <1>2, <1>3, <2>1
  <2>3. tabs[t].refresh.token = 0 /\ tabs[t].refresh.pair = 0
    BY <2>2, Facts
  <2>4. tabs'[t].refresh = r
    BY <1>6, <1>7
  <2>5. /\ accounts.revoked \subseteq accounts.dead
        /\ \A u \in Tab : tabs[u].refresh.at = "sent" /\ pairs[tabs[u].refresh.token].rotated
              => \E v \in Tab : tabs[v].refresh.token = tabs[u].refresh.token /\ tabs[v].refresh.pair # 0
        /\ stored # 0 /\ pairs[stored].rotated => \E v \in Tab : tabs[v].refresh.token = stored /\ tabs[v].refresh.pair # 0
        /\ \A u \in Tab : tabs[u].refresh.pair # 0 =>
            /\ ~pairs[tabs[u].refresh.pair].rotated /\ stored # tabs[u].refresh.pair
            /\ \A v \in Tab : /\ tabs[v].refresh.token # tabs[u].refresh.pair
                              /\ v # u => tabs[v].refresh.pair # tabs[u].refresh.pair
    BY <2>2 DEF SessionInv, KeptInv, Answers
  <2>6. \A u \in Tab : tabs[u].refresh.pair # 0 => u # t /\ tabs'[u] = tabs[u]
    BY <1>6, <2>3
  <2>7. \A u \in Tab : tabs'[u].refresh.pair # 0 => u # t /\ tabs'[u] = tabs[u]
    BY <1>6, <1>8, <2>4
  <2>8. ASSUME NEW u \in Tab, tabs'[u].refresh.at = "sent", pairs[tabs'[u].refresh.token].rotated
        PROVE  \E v \in Tab : tabs'[v].refresh.token = tabs'[u].refresh.token /\ tabs'[v].refresh.pair # 0
    <3>1. PICK v \in Tab : tabs[v].refresh.token = tabs'[u].refresh.token /\ tabs[v].refresh.pair # 0
      <4>1. CASE u = t
        BY <1>8, <2>4, <2>5, <2>8, <4>1
      <4>2. CASE u # t
        BY <1>6, <2>5, <2>8, <4>2
      <4> QED BY <4>1, <4>2
    <3> QED BY <2>6, <3>1
  <2>9. ASSUME stored # 0, pairs[stored].rotated
        PROVE  \E v \in Tab : tabs'[v].refresh.token = stored /\ tabs'[v].refresh.pair # 0
    <3>1. PICK v \in Tab : tabs[v].refresh.token = stored /\ tabs[v].refresh.pair # 0
      BY <2>5, <2>9
    <3> QED BY <2>6, <3>1
  <2>10. ASSUME NEW u \in Tab, tabs'[u].refresh.pair # 0
        PROVE  /\ ~pairs[tabs'[u].refresh.pair].rotated /\ stored # tabs'[u].refresh.pair
               /\ \A v \in Tab : /\ tabs'[v].refresh.token # tabs'[u].refresh.pair
                                 /\ v # u => tabs'[v].refresh.pair # tabs'[u].refresh.pair
    <3>1. u # t /\ tabs'[u] = tabs[u] /\ tabs[u].refresh.pair # 0
      BY <2>7, <2>10
    <3>2. ~pairs[tabs[u].refresh.pair].rotated /\ stored # tabs[u].refresh.pair
      BY <2>5, <3>1
    <3>3. ASSUME NEW v \in Tab
          PROVE  tabs'[v].refresh.token # tabs[u].refresh.pair /\ (v # u => tabs'[v].refresh.pair # tabs[u].refresh.pair)
      <4>1. CASE v = t
        BY <1>8, <2>4, <3>1, <3>2, <4>1
      <4>2. CASE v # t
        BY <1>6, <2>5, <3>1, <4>2
      <4> QED BY <4>1, <4>2
    <3> QED BY <3>1, <3>2, <3>3
  <2> QED BY <1>2, <2>2, <2>5, <2>8, <2>9, <2>10 DEF KeptInv, Answers
<1> QED BY <1>6, <1>9, <1>10, <1>11 DEF SessionInv

\* Every step keeps the invariant.
LEMMA SessionInvKept ==
    ASSUME SessionInv, [sessionNext]_sessionVars
    PROVE  SessionInv'
<1>1. CASE UNCHANGED sessionVars
  BY SMTT(30), <1>1 DEF SessionInv, SessionRows, TabsInv, SidsInv, Sids, EndedInv, KeptInv, Answers, sessionVars
<1>2. CASE sessionNext
  BY <1>2, StepKinds, OrdinaryKeeps, SignsInKeeps, ExpiresKeeps, CheckKeeps, RotateKeeps, OverKeeps, LoadsKeeps
<1> QED BY <1>1, <1>2

\* At first the tabs open load with the tokens of earlier sessions, if any.
LEMMA SessionStart ==
    ASSUME sessionInit
    PROVE  SessionInv
<1>1. PICK h \in Nat : h = sessionLeft.had
  BY SessionAssumption DEF sessionInit
<1>2. sessionLeft.new \in BOOLEAN /\ (sessionLeft.new => h = 0)
  BY <1>1, SessionAssumption DEF sessionInit
<1>3. PICK s \in {"none", "active"} : s = IF sessionLeft.new THEN "none" ELSE "active"
  OBVIOUS
<1>4. PICK b \in BOOLEAN : b = ~sessionLeft.new
  BY <1>2
<1>5. accounts = [state |-> s, admin |-> b, version |-> 0, cutoff |-> 0, revoked |-> {}, dead |-> {}]
  BY <1>3, <1>4 DEF sessionInit
<1>6. accounts \in AccountRows /\ accounts.state = s /\ accounts.version = 0 /\ accounts.cutoff = 0 /\ accounts.revoked = {}
  BY <1>5 DEF AccountRows
<1>7. pairs = [i \in 1 .. h |-> [sid |-> i, sv |-> 0, rotated |-> FALSE, old |-> TRUE]]
  BY <1>1 DEF sessionInit
<1>8. \A i \in 1 .. h : pairs[i] = [sid |-> i, sv |-> 0, rotated |-> FALSE, old |-> TRUE]
  BY <1>7
<1>9. \A i \in 1 .. h : pairs[i] \in PairRows /\ pairs[i].sid = i /\ pairs[i].sv = 0 /\ ~pairs[i].rotated
  <2>1. ASSUME NEW i \in 1 .. h PROVE pairs[i] \in PairRows /\ pairs[i].sid = i /\ pairs[i].sv = 0 /\ ~pairs[i].rotated
    <3>1. pairs[i] = [sid |-> i, sv |-> 0, rotated |-> FALSE, old |-> TRUE] /\ i \in Nat
      BY <1>8
    <3> QED BY <3>1 DEF PairRows
  <2> QED BY <2>1
<1>10. pairs \in Seq(PairRows) /\ Len(pairs) = h /\ DOMAIN pairs = 1 .. h
  <2>1. pairs = [i \in 1 .. h |-> pairs[i]]
    BY <1>7
  <2>2. pairs \in [1 .. h -> PairRows]
    BY <1>9, <2>1
  <2> QED BY <1>1, <2>2
<1>11. stored = h /\ ended = {} /\ doubled = FALSE
  BY <1>1 DEF sessionInit
<1>12. SessionRows
  <2>1. doubled \in BOOLEAN
    BY <1>11
  <2>2. stored \in 0 .. Len(pairs) /\ accounts.cutoff <= Len(pairs)
    BY <1>1, <1>6, <1>10, <1>11
  <2> QED BY <1>6, <1>10, <2>1, <2>2 DEF SessionRows
<1>13. SidsInv
  BY <1>10, <1>9, <1>2, <1>3, <1>6, <1>11 DEF Sids, SidsInv
<1>14. ASSUME NEW t \in Tab
       PROVE  TabOK(tabs[t], h) /\ tabs[t].refresh.at \in {"none", "sent"} /\ tabs[t].refresh.pair = 0
  <2>1. PICK at \in PageNames : at = IF t \in sessionLeft.tabs THEN "app" ELSE "closed"
    BY DEF PageNames
  <2>2. NewTabFits(at, h)
    BY NewTabGood
  <2>3. CASE t \in sessionLeft.tabs
    <3>1. PICK x : x = AuthProvider(at)
      OBVIOUS
    <3>2. TabOK(x, h) /\ RefreshStep(NoRefresh, x.refresh, stored)
      BY <1>11, <3>1, LoadedGood
    <3>3. PICK y : y = Routed(x)
      OBVIOUS
    <3>4. TabGood(y, h) /\ Alike(x, y)
      BY <3>2, <3>3, RoutedGood DEF TabOK
    <3>5. TabOK(y, h) /\ y.refresh = x.refresh
      BY <3>2, <3>4, PageGood DEF TabGood, Alike
    <3>6. tabs[t] = y
      BY <2>1, <2>3, <3>1, <3>3 DEF sessionInit
    <3>7. ASSUME NEW r, RefreshStep(NoRefresh, r, stored) PROVE r.at \in {"none", "sent"} /\ r.pair = 0
      <4>1. CASE r = NoRefresh
        BY <4>1 DEF NoRefresh
      <4>2. CASE Begins(r, stored)
        BY <4>2 DEF Begins, NoRefresh
      <4> QED BY <3>7, <4>1, <4>2 DEF RefreshStep
    <3> QED BY <3>2, <3>5, <3>6, <3>7
  <2>4. CASE t \notin sessionLeft.tabs
    <3>1. PICK f \in BOOLEAN : f = FALSE
      OBVIOUS
    <3>2. PICK x : x = NewTab(at)
      OBVIOUS
    <3>3. PICK y : y = [x EXCEPT !.booting = f]
      OBVIOUS
    <3>4. TabOK(x, h) /\ x.refresh = NoRefresh /\ x \in TabRows(h)
      BY <2>2, <3>2 DEF NewTabFits, TabOK, TabGood
    <3>5. y \in TabRows(h) /\ Alike(x, y)
      BY <3>3, <3>4 DEF TabRows, Alike
    <3>6. TabOK(y, h) /\ y.refresh = NoRefresh
      BY <3>4, <3>5, PageGood DEF Alike
    <3>7. tabs[t] = y
      BY <2>1, <2>4, <3>1, <3>2, <3>3 DEF sessionInit
    <3> QED BY <3>6, <3>7 DEF NoRefresh
  <2> QED BY <2>3, <2>4
<1>15. TabsInv
  BY <1>14, <1>10 DEF sessionInit, TabOK, TabGood, TabsInv
<1>16. EndedInv
  BY <1>6, <1>9, <1>10, <1>11, <1>14 DEF EndedInv
<1>17. KeptInv
  BY <1>14, <1>9, <1>11, <1>6 DEF TabOK, TabGood, TabRows, RefreshRows, KeptInv
<1> QED BY <1>12, <1>13, <1>15, <1>16, <1>17 DEF SessionInv

-----------------------------------------------------------------------------
(* The theorems *)

\* The browser's tabs and the server's sessions stay in order: types, the
\* numbering of sessions, what is over, what is handed to whom (sessions.py,
\* refresh_store.py, api-client.ts, auth-context.tsx).
THEOREM SessionInvHolds == sessionSpec => []SessionInv
BY SessionStart, SessionInvKept, PTL DEF sessionSpec

\* Every value has its type, and a tab refreshes while somebody waits for it
\* and only then (api-client.ts).
THEOREM SessionTypes == sessionSpec => []sessionTypeOK
<1>1. SessionInv => sessionTypeOK
  <2> SUFFICES ASSUME SessionInv PROVE sessionTypeOK
    OBVIOUS
  <2>1. Len(pairs) \in Nat /\ stored \in 0 .. Len(pairs) /\ accounts.cutoff \in 0 .. Len(pairs) /\ ended \subseteq Sids
    BY DEF SessionInv, SessionRows, AccountRows, SidsInv
  <2>2. ASSUME NEW t \in Tab
        PROVE  /\ tabs[t].access \in 0 .. Len(pairs) /\ tabs[t].refresh.token \in 0 .. Len(pairs)
               /\ \A l \in Line : tabs[t].work[l].at \in {"none", "post", "call", "wait"}
               /\ tabs[t].page \in PageNames
               /\ (tabs[t].refresh.at # "none") <=> (\E l \in Line : tabs[t].work[l].at = "wait")
    BY TabFacts, Facts DEF TabRows, WorkRows, TabOK, Waits
  <2> QED BY <2>1, <2>2 DEF sessionTypeOK, PageNames
<1> QED BY <1>1, SessionInvHolds, PTL

\* A session that was signed out, or whose account's password changed or that
\* went with its account, is dead for good (sessions.py, account.py): no token
\* of it is taken, those of a refresh under way at the time included.
THEOREM EndedSessionsDie == sessionSpec => []EndedMeansDead
<1>1. SessionInv => EndedMeansDead
  BY Facts DEF EndedMeansDead, _resolve_user, RefreshGood, SessionInv, EndedInv, SessionOver, is_alive
<1> QED BY <1>1, SessionInvHolds, PTL

\* However many requests are refused at once and however the tabs interleave,
\* the server revokes no session that wasn't signed out, unless a reply was lost
\* or two tabs sent the same token (refresh_store.py, api-client.ts).
THEOREM NobodySignedOut == sessionSpec => []KeptSignedIn
<1>1. SessionInv => KeptSignedIn
  BY DEF SessionInv, KeptInv, KeptSignedIn
<1> QED BY <1>1, SessionInvHolds, PTL

\* A tab that shows a user has a token, or was signed out while the user was
\* being fetched (auth-context.tsx).
THEOREM UsersHaveTokens == sessionSpec => []UserHasTokens
<1>1. SessionInv => UserHasTokens
  BY TabFacts DEF TabGood, Backed, UserHasTokens
<1> QED BY <1>1, SessionInvHolds, PTL
-----------------------------------------------------------------------------
(* The sign-in link: what a tab that redeemed one still has of it *)

\* The server takes a pair no longer; `gone' says so of the pair a tab's link won,
\* or that a reply was lost, and once true it stays.
Expired(i, a, ps) ==
    i = 0 \/ ps[i].old \/ a.state # "active" \/ ps[i].sv # a.version \/ ps[i].sid \in a.dead
NoPages == {"verify", "reset"}
MagicTab(tb, gone) ==
    /\ tb.won # 0 \/ tb.work["side"].doing = "magic" => tb.ran
    /\ tb.page \in NoPages => tb.won = 0 /\ tb.work["side"].doing # "magic"
    /\ tb.work["main"].doing # "magic"
    /\ tb.work["side"].doing = "magic" =>
        /\ tb.work["side"].at = "post" => tb.won = 0
        /\ tb.work["side"].at = "call" /\ ~tb.work["side"].again => tb.work["side"].token = tb.won
        /\ tb.work["side"].at = "wait" \/ tb.work["side"].again => gone
    /\ tb.page = "linkdead" => gone /\ tb.work["side"].doing # "magic"
Gone(t) == doubled \/ Expired(tabs[t].won, accounts, pairs)
MagicInv == \A t \in Tab : MagicTab(tabs[t], Gone(t))

\* A page the tab may be taken to without a word about its link.
Taken(x, y, gone) ==
    \/ y.page = x.page \/ y.page \notin NoPages \cup {"linkdead"}
    \/ y.page = "linkdead" /\ gone /\ y.work["side"].doing # "magic"
Keep(x, y) == y.ran = x.ran /\ y.won = x.won

\* A line of work that changes is no longer the link's, or is and its pair is gone.
LEMMA MagicLine ==
    ASSUME NEW n \in Nat, NEW x, NEW y, NEW gone, x \in TabRows(n), MagicTab(x, gone), NEW l \in Line, NEW w,
           Keep(x, y), Taken(x, y, gone), y.work = [x.work EXCEPT ![l] = w],
           w.doing # "magic" \/ (w.doing = x.work[l].doing /\ gone /\ w.at # "post" /\ (w.at = "wait" \/ w.again))
    PROVE  MagicTab(y, gone)
  BY DEF TabRows, Line, MagicTab, Keep, Taken, NoPages

\* A tab whose work stays is as good.
LEMMA MagicSame ==
    ASSUME NEW x, NEW y, NEW gone, MagicTab(x, gone), Keep(x, y), Taken(x, y, gone), y.work = x.work
    PROVE  MagicTab(y, gone)
BY DEF MagicTab, Keep, Taken, NoPages

\* The router takes a tab to the app, to sign-in or to the setup.
LEMMA MagicRouted ==
    ASSUME NEW n \in Nat, NEW tb, NEW gone, TabGood(tb, n), MagicTab(tb, gone)
    PROVE  MagicTab(Routed(tb), gone) /\ Routed(tb).won = tb.won
  BY MagicSame DEF TabGood, TabRows, PageNames, Keep, Taken, NoPages, RequireAuth,
     UnauthenticatedRedirect, PublicOnly, Routed

\* A request of the link's fails only when its pair is gone.
LEMMA MagicError ==
    ASSUME NEW n \in Nat, NEW tb, NEW gone, TabGood(tb, n), MagicTab(tb, gone), NEW l \in Line, NEW why,
           tb.work[l].doing = "magic" => gone
    PROVE  MagicTab(toApiError(tb, l, why), gone) /\ toApiError(tb, l, why).won = tb.won
<1>1. tb \in TabRows(n) /\ tb.work \in [Line -> WorkRows(n)] /\ tb.booting \in BOOLEAN /\ tb.refused \in BOOLEAN
  BY DEF TabGood, TabRows
<1>2. PICK b \in BOOLEAN : b = (tb.booting /\ tb.work[l].doing \notin {"boot", "bootme"})
  BY <1>1
<1>3. PICK w : w = [tb.work EXCEPT ![l] = NoWork]
  OBVIOUS
<1>4. PICK x : x = [tb EXCEPT !.work = w, !.booting = b]
  OBVIOUS
<1>5. bootstrap(tb, l) = x
  BY <1>1, <1>2, <1>3, <1>4 DEF bootstrap, TabRows
<1>6. TabGood(x, n) /\ x \in TabRows(n)
  <2>1. TabGood(bootstrap(tb, l), n)
    BY bootstrapGood
  <2> QED
    BY <1>5, <2>1 DEF TabGood
<1>7. x.work = w /\ x.page = tb.page /\ Keep(tb, x)
  BY <1>1, <1>4 DEF TabRows, Keep
<1>8. PICK c \in BOOLEAN : c = (x.refused \/ (why = "refused" /\ tb.work[l].doing \in {"list", "me", "password", "delete"}))
  BY <1>6 DEF TabRows
<1>9. PICK p : p = IF tb.work[l].doing = "magic" THEN "linkdead" ELSE x.page
  OBVIOUS
<1>10. PICK y : y = [x EXCEPT !.refused = c, !.page = p]
  OBVIOUS
<1>11. toApiError(tb, l, why) = y
  BY <1>5, <1>6, <1>8, <1>9, <1>10 DEF toApiError, TabRows
<1>12. y.work = w /\ y.page = p /\ Keep(tb, y)
  BY <1>6, <1>7, <1>10 DEF TabRows, Keep
<1>13. Taken(tb, y, gone)
  BY <1>1, <1>3, <1>12, <1>9, <1>7 DEF MagicTab, Line, NoWork, Taken
<1>14. NoWork.doing # "magic"
  BY DEF NoWork
<1>15. MagicTab(y, gone)
  BY <1>1, <1>3, <1>12, <1>13, <1>14, MagicLine
<1> QED
  BY <1>11, <1>12, <1>15 DEF Keep

\* A call goes out again only after the wait for a refresh.
LEMMA MagicCall ==
    ASSUME NEW n \in Nat, NEW tb, NEW gone, TabGood(tb, n), MagicTab(tb, gone), NEW l \in Line, NEW again \in BOOLEAN,
           tb.work[l].doing # "magic" \/ (again /\ gone)
    PROVE  MagicTab(requestRaw(tb, l, again), gone) /\ requestRaw(tb, l, again).won = tb.won
<1>1. tb \in TabRows(n) /\ tb.work \in [Line -> WorkRows(n)]
  BY DEF TabGood, TabRows
<1>2. PICK w : w = [tb.work[l] EXCEPT !.at = "call", !.token = tb.access, !.again = again]
  OBVIOUS
<1>3. w.doing = tb.work[l].doing /\ w.at = "call" /\ w.again = again
  BY <1>1, <1>2 DEF WorkRows
<1>4. PICK v : v = [tb.work EXCEPT ![l] = w]
  OBVIOUS
<1>5. PICK y : y = [tb EXCEPT !.work = v]
  OBVIOUS
<1>6. requestRaw(tb, l, again) = y
  BY <1>1, <1>2, <1>4, <1>5 DEF requestRaw, TabRows, WorkRows
<1>7. y.work = v /\ y.page = tb.page /\ Keep(tb, y) /\ Taken(tb, y, gone)
  BY <1>1, <1>5 DEF TabRows, Keep, Taken
<1>8. w.at # "post"
  BY <1>3
<1>9. w.doing # "magic" \/ (w.doing = tb.work[l].doing /\ gone /\ w.at # "post" /\ (w.at = "wait" \/ w.again))
  BY <1>3, <1>8
<1>10. MagicTab(y, gone)
  BY <1>1, <1>4, <1>7, <1>9, MagicLine
<1> QED
  BY <1>6, <1>7, <1>10 DEF Keep

\* Other work that a line starts, by a call or by a post.
LEMMA MagicStarts ==
    ASSUME NEW n \in Nat, NEW tb, NEW gone, TabGood(tb, n), MagicTab(tb, gone), NEW l \in Line, NEW op \in Doings,
           op # "magic", stored \in 0 .. n
    PROVE  /\ MagicTab(Starts(tb, l, op), gone) /\ Starts(tb, l, op).won = tb.won
           /\ MagicTab(Posts(tb, l, op), gone) /\ Posts(tb, l, op).won = tb.won
<1>1. tb \in TabRows(n) /\ tb.work \in [Line -> WorkRows(n)] /\ 0 \in 0 .. n
  BY DEF TabGood, TabRows
<1>2. ASSUME NEW w \in WorkRows(n), w.at # "call", w.doing = op, NEW y, y = [tb EXCEPT !.work[l] = w]
      PROVE  TabGood(y, n) /\ MagicTab(y, gone) /\ y.won = tb.won /\ y.work[l] = w
  BY <1>1, <1>2, LineGood, MagicLine DEF TabRows, Keep, Taken
<1>3. PICK w : w = [NoWork EXCEPT !.doing = op]
  OBVIOUS
<1>4. w \in WorkRows(n) /\ w.at = "none" /\ w.doing = op
  BY <1>3, <1>1 DEF NoWork, WorkRows
<1>5. PICK p : p = [NoWork EXCEPT !.doing = op, !.at = "post", !.token = stored]
  OBVIOUS
<1>6. p \in WorkRows(n) /\ p.at = "post" /\ p.doing = op
  BY <1>5 DEF NoWork, WorkRows
<1>7. PICK x : x = [tb EXCEPT !.work[l] = w]
  OBVIOUS
<1>8. TabGood(x, n) /\ MagicTab(x, gone) /\ x.won = tb.won /\ x.work[l] = w
  BY <1>2, <1>4, <1>7
<1>9. PICK f \in BOOLEAN : f = FALSE
  OBVIOUS
<1>10. Starts(tb, l, op) = requestRaw(x, l, f)
  BY <1>3, <1>7, <1>9 DEF Starts
<1>11. MagicTab(requestRaw(x, l, f), gone) /\ requestRaw(x, l, f).won = x.won
  BY <1>4, <1>8, MagicCall
<1>12. PICK z : z = [tb EXCEPT !.work[l] = p]
  OBVIOUS
<1>13. MagicTab(z, gone) /\ z.won = tb.won
  BY <1>2, <1>6, <1>12
<1>14. Posts(tb, l, op) = z
  BY <1>5, <1>12 DEF Posts
<1> QED
  BY <1>8, <1>10, <1>11, <1>13, <1>14

\* A request refused waits for the tab's refresh.
LEMMA MagicWait ==
    ASSUME NEW n \in Nat, NEW tb, NEW gone, TabGood(tb, n), MagicTab(tb, gone), NEW l \in Line, stored \in 0 .. n,
           tb.work[l].doing = "magic" => gone
    PROVE  MagicTab(WaitFor(tb, l), gone) /\ WaitFor(tb, l).won = tb.won
<1>1. tb \in TabRows(n) /\ tb.work \in [Line -> WorkRows(n)]
  BY DEF TabGood, TabRows
<1>2. CASE tb.refresh.at = "none" /\ stored = 0
  BY <1>2, MagicError DEF WaitFor
<1>3. CASE ~(tb.refresh.at = "none" /\ stored = 0)
  <2>1. PICK w : w = [tb.work[l] EXCEPT !.at = "wait"]
    OBVIOUS
  <2>2. w \in WorkRows(n) /\ w.doing = tb.work[l].doing /\ w.at = "wait"
    BY <1>1, <2>1 DEF WorkRows
  <2>3. PICK v : v = [tb.work EXCEPT ![l] = w]
    OBVIOUS
  <2>4. PICK x : x = [tb EXCEPT !.work = v]
    OBVIOUS
  <2>5. x \in TabRows(n) /\ x.work = v /\ x.page = tb.page /\ Keep(tb, x) /\ Taken(tb, x, gone)
    BY <1>1, <2>2, <2>3, <2>4 DEF TabRows, Keep, Taken
  <2>6. MagicTab(x, gone)
    BY <1>1, <2>2, <2>3, <2>5, MagicLine
  <2>7. PICK y : y = refreshTokens(x)
    OBVIOUS
  <2>8. y.work = x.work /\ y.page = x.page /\ Keep(x, y)
    BY <2>5, <2>7 DEF Keep, TabRows, refreshTokens, performRefresh
  <2>9. MagicTab(y, gone)
    BY <2>6, <2>8, MagicSame DEF Taken
  <2>10. WaitFor(tb, l) = y
    BY <1>1, <1>3, <2>1, <2>3, <2>4, <2>7 DEF WaitFor, TabRows
  <2> QED
    BY <2>5, <2>8, <2>9, <2>10 DEF Keep
<1> QED
  BY <1>2, <1>3

\* The refresh is over: what waited goes on or fails.
LEMMA MagicResumed ==
    ASSUME NEW n \in Nat, NEW tb, NEW gone, TabGood(tb, n), MagicTab(tb, gone), NEW l \in Line, NEW why, stored \in 0 .. n
    PROVE  /\ MagicTab(Resumed(tb, l), gone) /\ Resumed(tb, l).won = tb.won
           /\ MagicTab(Failed(tb, l, why), gone) /\ Failed(tb, l, why).won = tb.won
<1>1. l = "main" \/ l = "side"
  BY DEF Line
<1>2. tb.work[l].at = "wait" /\ tb.work[l].doing = "magic" => gone
  BY <1>1 DEF MagicTab
<1>3. CASE tb.work[l].at # "wait"
  BY <1>3 DEF Resumed, Failed
<1>4. CASE tb.work[l].at = "wait"
  <2>1. Failed(tb, l, why) = toApiError(tb, l, why)
    BY <1>4 DEF Failed
  <2>2. MagicTab(toApiError(tb, l, why), gone) /\ toApiError(tb, l, why).won = tb.won
    BY <1>2, <1>4, MagicError
  <2>3. CASE tb.work[l].doing = "boot"
    BY <1>4, <2>3, <2>1, <2>2, MagicStarts DEF Doings, Resumed
  <2>4. CASE tb.work[l].doing # "boot"
    BY <1>4, <2>4, <1>2, <2>1, <2>2, MagicCall DEF Resumed
  <2> QED
    BY <2>3, <2>4
<1> QED
  BY <1>3, <1>4

\* The token store and the user shown say nothing of the link.
LEMMA MagicSet ==
    ASSUME NEW n \in Nat, NEW tb, NEW gone, TabGood(tb, n), MagicTab(tb, gone)
    PROVE  /\ \A i : MagicTab(setTokens(tb, i), gone) /\ setTokens(tb, i).won = tb.won
           /\ MagicTab(clear(tb), gone) /\ clear(tb).won = tb.won
           /\ MagicTab(setUser(tb), gone) /\ setUser(tb).won = tb.won
           /\ MagicTab([setUser(tb) EXCEPT !.page = "app"], gone) /\ [setUser(tb) EXCEPT !.page = "app"].won = tb.won
           /\ MagicTab([clear(tb) EXCEPT !.page = "login"], gone) /\ [clear(tb) EXCEPT !.page = "login"].won = tb.won
           /\ MagicTab([tb EXCEPT !.refresh = NoRefresh], gone) /\ [tb EXCEPT !.refresh = NoRefresh].won = tb.won
<1>1. tb \in TabRows(n) /\ tb.crossed \in BOOLEAN
  BY DEF TabGood, TabRows
<1>2. ASSUME NEW y, y.work = tb.work, Keep(tb, y), Taken(tb, y, gone) PROVE MagicTab(y, gone) /\ y.won = tb.won
  BY <1>2, MagicSame DEF Keep
<1>3. ASSUME NEW i PROVE MagicTab(setTokens(tb, i), gone) /\ setTokens(tb, i).won = tb.won
  BY <1>1, <1>2 DEF setTokens, TabRows, Keep, Taken
<1>4. PICK b \in BOOLEAN : b = (tb.crossed \/ AsksUser(tb))
  BY <1>1 DEF AsksUser
<1>5. PICK f \in BOOLEAN : f = FALSE
  OBVIOUS
<1>6. PICK g \in BOOLEAN : g = TRUE
  OBVIOUS
<1>7. PICK c : c = [tb EXCEPT !.access = 0, !.user = f, !.crossed = b]
  OBVIOUS
<1>8. clear(tb) = c
  BY <1>1, <1>4, <1>5, <1>7 DEF clear, TabRows
<1>9. PICK u : u = [tb EXCEPT !.user = g]
  OBVIOUS
<1>10. setUser(tb) = u
  BY <1>6, <1>9 DEF setUser
<1>11. PICK p : p = [c EXCEPT !.page = "login"]
  OBVIOUS
<1>12. PICK a : a = [u EXCEPT !.page = "app"]
  OBVIOUS
<1>13. PICK r : r = [tb EXCEPT !.refresh = NoRefresh]
  OBVIOUS
<1>14. c.work = tb.work /\ c.page = tb.page /\ Keep(tb, c) /\ p.work = tb.work /\ p.page = "login" /\ Keep(tb, p)
  BY <1>1, <1>7, <1>11 DEF TabRows, Keep
<1>15. u.work = tb.work /\ u.page = tb.page /\ Keep(tb, u) /\ a.work = tb.work /\ a.page = "app" /\ Keep(tb, a)
  BY <1>1, <1>9, <1>12 DEF TabRows, Keep
<1>16. r.work = tb.work /\ r.page = tb.page /\ Keep(tb, r)
  BY <1>1, <1>13 DEF TabRows, Keep
<1>17. Taken(tb, c, gone) /\ Taken(tb, p, gone) /\ Taken(tb, u, gone) /\ Taken(tb, a, gone) /\ Taken(tb, r, gone)
  BY <1>14, <1>15, <1>16 DEF Taken, NoPages
<1>18. MagicTab(c, gone) /\ c.won = tb.won /\ MagicTab(p, gone) /\ p.won = tb.won /\ MagicTab(u, gone) /\ u.won = tb.won
  BY <1>2, <1>14, <1>15, <1>17
<1>19. MagicTab(a, gone) /\ a.won = tb.won /\ MagicTab(r, gone) /\ r.won = tb.won
  BY <1>2, <1>15, <1>16, <1>17
<1> QED
  BY <1>3, <1>8, <1>10, <1>11, <1>12, <1>13, <1>18, <1>19

\* A line of work that is done.
LEMMA MagicEnds ==
    ASSUME NEW n \in Nat, NEW tb, NEW gone, TabGood(tb, n), MagicTab(tb, gone), NEW l \in Line
    PROVE  TabGood(bootstrap(tb, l), n) /\ MagicTab(bootstrap(tb, l), gone) /\ bootstrap(tb, l).won = tb.won
<1>1. tb \in TabRows(n) /\ tb.work \in [Line -> WorkRows(n)] /\ tb.booting \in BOOLEAN
  BY DEF TabGood, TabRows
<1>2. PICK b \in BOOLEAN : b = (tb.booting /\ tb.work[l].doing \notin {"boot", "bootme"})
  BY <1>1
<1>3. PICK w : w = [tb.work EXCEPT ![l] = NoWork]
  OBVIOUS
<1>4. PICK x : x = [tb EXCEPT !.work = w, !.booting = b]
  OBVIOUS
<1>5. bootstrap(tb, l) = x
  BY <1>1, <1>2, <1>3, <1>4 DEF bootstrap, TabRows
<1>6. x.work = w /\ Taken(tb, x, gone) /\ Keep(tb, x)
  BY <1>1, <1>4 DEF TabRows, Keep, Taken
<1>7. MagicTab(x, gone)
  BY <1>1, <1>3, <1>6, MagicLine DEF NoWork
<1> QED
  BY <1>5, <1>6, <1>7, bootstrapGood DEF Keep

\* The answer the work was for.
LEMMA MagicServed ==
    ASSUME NEW n \in Nat, NEW tb, NEW gone, TabGood(tb, n), MagicTab(tb, gone), NEW l \in Line, stored \in 0 .. n
    PROVE  MagicTab(Served(tb, l), gone) /\ Served(tb, l).won = tb.won
<1>1. PICK x : x = bootstrap(tb, l)
  OBVIOUS
<1>2. TabGood(x, n) /\ MagicTab(x, gone) /\ x.won = tb.won
  BY <1>1, MagicEnds
<1>3. PICK op \in Doings : op = "logout"
  BY DEF Doings
<1>4. \/ Served(tb, l) = x \/ Served(tb, l) = setUser(x) \/ Served(tb, l) = [setUser(x) EXCEPT !.page = "app"]
      \/ Served(tb, l) = Posts(tb, l, op)
  BY <1>1, <1>3 DEF Served
<1>5. MagicTab(setUser(x), gone) /\ setUser(x).won = tb.won
  BY <1>2, MagicSet
<1>6. MagicTab([setUser(x) EXCEPT !.page = "app"], gone) /\ [setUser(x) EXCEPT !.page = "app"].won = tb.won
  BY <1>2, MagicSet
<1>7. MagicTab(Posts(tb, l, op), gone) /\ Posts(tb, l, op).won = tb.won
  BY <1>3, MagicStarts
<1> QED
  BY <1>2, <1>4, <1>5, <1>6, <1>7

\* A page loads without a link's work, whatever it is.
LEMMA MagicLoaded ==
    ASSUME NEW n \in Nat, NEW at \in {"app", "magic", "reset", "verify", "closed"}, NEW gone, stored \in 0 .. n
    PROVE  /\ MagicTab(AuthProvider(at), gone) /\ AuthProvider(at).won = 0
           /\ MagicTab([NewTab(at) EXCEPT !.booting = FALSE], gone) /\ [NewTab(at) EXCEPT !.booting = FALSE].won = 0
<1>1. at \in PageNames
  BY DEF PageNames
<1>2. PICK x : x = NewTab(at)
  OBVIOUS
<1>3. TabGood(x, n) /\ x \in TabRows(n) /\ x.work = [l \in Line |-> NoWork]
  BY <1>1, <1>2, NewTabGood DEF NewTabFits, TabOK, TabGood
<1>4. x.won = 0 /\ x.page = at
  BY <1>2 DEF NewTab
<1>5. \A l \in Line : x.work[l] = NoWork
  BY <1>3
<1>6. x.work["main"].doing # "magic" /\ x.work["side"].doing # "magic"
  BY <1>5 DEF Line, NoWork
<1>7. MagicTab(x, gone)
  BY <1>4, <1>6 DEF MagicTab
<1>8. PICK op \in Doings : op = "boot"
  BY DEF Doings
<1>9. PICK w : w = [NoWork EXCEPT !.doing = op]
  OBVIOUS
<1>10. w = [doing |-> op, at |-> "none", token |-> 0, again |-> FALSE]
  BY <1>9 DEF NoWork
<1>11. w \in WorkRows(n) /\ w.at # "call" /\ w.doing = "boot"
  BY <1>8, <1>10 DEF WorkRows
<1>12. "main" \in Line
  BY DEF Line
<1>13. PICK y : y = [x EXCEPT !.work["main"] = w]
  OBVIOUS
<1>14. TabGood(y, n)
  BY <1>3, <1>11, <1>12, <1>13, LineGood
<1>15. y.work = [x.work EXCEPT !["main"] = w] /\ Keep(x, y) /\ Taken(x, y, gone)
  BY <1>3, <1>13 DEF TabRows, Keep, Taken
<1>16. MagicTab(y, gone)
  BY <1>3, <1>7, <1>11, <1>12, <1>15, MagicLine
<1>17. y.work["main"] = w
  BY <1>12, <1>15, <1>3
<1>18. MagicTab(WaitFor(y, "main"), gone) /\ WaitFor(y, "main").won = y.won
  BY <1>11, <1>12, <1>14, <1>16, <1>17, MagicWait
<1>19. [NewTab(at) EXCEPT !.work["main"].doing = "boot"] = y
  BY <1>5, <1>12, <1>2, <1>3, <1>8, <1>9, <1>13 DEF TabRows
<1>20. AuthProvider(at) = WaitFor(y, "main")
  BY <1>19 DEF AuthProvider
<1>21. PICK f \in BOOLEAN : f = FALSE
  OBVIOUS
<1>22. PICK z : z = [x EXCEPT !.booting = f]
  OBVIOUS
<1>23. z.work = x.work /\ Keep(x, z) /\ Taken(x, z, gone)
  BY <1>3, <1>22 DEF TabRows, Keep, Taken
<1>24. MagicTab(z, gone)
  BY <1>7, <1>23, MagicSame
<1> QED
  BY <1>2, <1>4, <1>15, <1>18, <1>20, <1>21, <1>22, <1>23, <1>24 DEF Keep

-----------------------------------------------------------------------------
(* A pair that is refused is refused from then on. *)

\* A pair issued keeps its session and its version, and expires once.
SamePairs == \A i \in 1 .. Len(pairs) :
    pairs'[i].sid = pairs[i].sid /\ pairs'[i].sv = pairs[i].sv /\ (pairs[i].old => pairs'[i].old)

\* Rotating a pair changes nothing else of it.
LEMMA RotatedSame ==
    ASSUME SessionInv, NEW j \in 1 .. Len(pairs), NEW q, q = rotate_refresh(j)
    PROVE  /\ q \in Seq(PairRows) /\ Len(q) = Len(pairs)
           /\ \A i \in 1 .. Len(pairs) : q[i].sid = pairs[i].sid /\ q[i].sv = pairs[i].sv /\ q[i].old = pairs[i].old
<1> DEFINE n == Len(pairs)
<1>1. n \in Nat /\ DOMAIN pairs = 1 .. n /\ pairs \in Seq(PairRows) /\ \A i \in 1 .. n : pairs[i] \in PairRows
  BY Facts DEF SessionInv, SessionRows
<1>2. PICK b \in BOOLEAN : b = TRUE
  OBVIOUS
<1>3. PICK p : p = [pairs[j] EXCEPT !.rotated = b]
  OBVIOUS
<1>4. p \in PairRows /\ p.sid = pairs[j].sid /\ p.sv = pairs[j].sv /\ p.old = pairs[j].old
  BY <1>1, <1>3 DEF PairRows
<1>5. q = [pairs EXCEPT ![j] = p]
  BY <1>2, <1>3 DEF rotate_refresh
<1>6. q \in Seq(PairRows) /\ Len(q) = n /\ \A i \in 1 .. n : q[i] = IF i = j THEN p ELSE pairs[i]
  BY <1>1, <1>4, <1>5
<1> QED
  BY <1>4, <1>6

\* No step changes what a pair is.
LEMMA PairsStay ==
    ASSUME SessionInv, sessionNext
    PROVE  SamePairs
<1> DEFINE n == Len(pairs)
<1>1. n \in Nat /\ DOMAIN pairs = 1 .. n /\ pairs \in Seq(PairRows) /\ \A i \in 1 .. n : pairs[i] \in PairRows
  BY Facts DEF SessionInv, SessionRows
<1>2. CASE pairs' = pairs
  BY <1>2 DEF SamePairs
<1>3. CASE SignsIn
  BY <1>3, <1>1 DEF SignsIn, issue_token_pair, Opens, SamePairs
<1>4. CASE Expires
  BY <1>1, <1>4 DEF Expires, PairRows, SamePairs
<1>5. ASSUME NEW t \in Tab, refresh_tokens(t) PROVE SamePairs
  <2>1. tabs[t].refresh.token \in 1 .. n
    BY <1>1, <1>5, Facts DEF refresh_tokens
  <2>2. PICK j \in 1 .. n : j = tabs[t].refresh.token
    BY <2>1
  <2>3. PICK q : q = rotate_refresh(j)
    OBVIOUS
  <2>4. PICK r : pairs' = Append(q, r)
    BY <1>5, <2>2, <2>3 DEF refresh_tokens
  <2>5. q \in Seq(PairRows) /\ Len(q) = n
        /\ \A i \in 1 .. n : q[i].sid = pairs[i].sid /\ q[i].sv = pairs[i].sv /\ q[i].old = pairs[i].old
    BY <2>3, RotatedSame
  <2>6. \A i \in 1 .. n : pairs'[i] = q[i]
    BY <1>1, <2>4, <2>5
  <2> QED
    BY <2>5, <2>6 DEF SamePairs
<1>6. ASSUME NEW t \in Tab, NEW at \in {"app", "magic", "reset", "verify"}, Loads(t, at), pairs' # pairs PROVE SamePairs
  <2>1. tabs[t].refresh.at \in {"sent", "checked"} /\ pairs' = rotate_refresh(tabs[t].refresh.token)
    BY <1>6 DEF Loads
  <2>2. tabs[t].refresh.token \in 1 .. n
    BY <1>1, <2>1, Facts
  <2> QED
    BY <2>1, <2>2, RotatedSame DEF SamePairs
<1>7. ASSUME NEW t \in Tab, RefreshCheck(t) \/ RefreshAnswered(t) \/ RefreshLost(t) PROVE pairs' = pairs
  BY <1>7 DEF RefreshCheck, RefreshAnswered, RefreshLost
<1>8. Ordinary => pairs' = pairs
  BY DEF Ordinary
<1> QED
  BY <1>2, <1>3, <1>4, <1>5, <1>6, <1>7, <1>8, StepKinds

\* The account moves on, and what was lost or sent twice is not forgotten.
LEMMA AccountsStay ==
    ASSUME SessionInv, sessionNext
    PROVE  /\ accounts.version <= accounts'.version /\ accounts'.version \in Nat /\ accounts.dead \subseteq accounts'.dead
           /\ accounts.state = "gone" => accounts'.state = "gone"
           /\ doubled => doubled'
<1>1. accounts \in AccountRows /\ accounts.version \in Nat /\ doubled \in BOOLEAN
  BY Facts DEF SessionInv, SessionRows
<1>2. CASE Ordinary
  BY <1>2 DEF Ordinary, Forward, AccountRows
<1>3. CASE accounts' = accounts /\ (doubled => doubled')
  BY <1>1, <1>3
<1>4. ASSUME NEW t \in Tab, RefreshCheck(t)
      PROVE  /\ accounts'.version = accounts.version /\ accounts'.dead = accounts.dead /\ accounts'.state = accounts.state
             /\ doubled => doubled'
  BY <1>4, <1>1 DEF RefreshCheck, AccountRows, revoke_family
<1>5. SignsIn \/ Expires => accounts' = accounts /\ doubled' = doubled
  BY DEF SignsIn, Expires
<1>6. ASSUME NEW t \in Tab, refresh_tokens(t) \/ RefreshAnswered(t) \/ RefreshLost(t)
      PROVE  accounts' = accounts /\ (doubled => doubled')
  <2>1. CASE refresh_tokens(t)
    BY <2>1 DEF refresh_tokens
  <2>2. CASE RefreshAnswered(t)
    BY <2>2 DEF RefreshAnswered
  <2>3. CASE RefreshLost(t)
    BY <2>3 DEF RefreshLost
  <2> QED
    BY <1>6, <2>1, <2>2, <2>3
<1>7. ASSUME NEW t \in Tab, NEW at \in {"app", "magic", "reset", "verify"}, Loads(t, at)
      PROVE  accounts' = accounts /\ (doubled => doubled')
  BY <1>7 DEF Loads
<1> QED
  BY <1>1, <1>2, <1>3, <1>4, <1>5, <1>6, <1>7, StepKinds

\* A pair refused once is never taken again.
LEMMA RefusedStays ==
    ASSUME SessionInv, sessionNext, NEW i \in 0 .. Len(pairs), Expired(i, accounts, pairs)
    PROVE  Expired(i, accounts', pairs')
  BY Facts, PairsStay, AccountsStay DEF Expired, SessionInv, EndedInv, SidsInv, SamePairs

\* The more is gone the less a tab has to answer for.
LEMMA MagicMore ==
    ASSUME NEW tb, NEW old, NEW new, MagicTab(tb, old), old => new
    PROVE  MagicTab(tb, new)
BY DEF MagicTab

\* What is gone for a tab that keeps the pair of its link stays gone.
LEMMA GoneStays ==
    ASSUME SessionInv, sessionNext, NEW t \in Tab, Gone(t)
    PROVE  doubled' \/ Expired(tabs[t].won, accounts', pairs')
  BY TabFacts, RefusedStays, AccountsStay DEF TabRows, Gone

\* A tab is put, the others stay.
LEMMA MagicPut ==
    ASSUME SessionInv, MagicInv, sessionNext, NEW t \in Tab, NEW n \in Nat, NEW tb, TabGood(tb, n), Put(t, tb),
           MagicTab(tb, doubled' \/ Expired(tb.won, accounts', pairs'))
    PROVE  MagicInv'
  BY MagicMore, MagicRouted, GoneStays DEF SessionInv, TabsInv, Put, Gone, MagicInv

\* No tab's page, work or link changes.
LEMMA MagicStill ==
    ASSUME SessionInv, MagicInv, sessionNext,
           \A u \in Tab : tabs'[u].page = tabs[u].page /\ Keep(tabs[u], tabs'[u]) /\ tabs'[u].work = tabs[u].work
    PROVE  MagicInv'
  BY GoneStays, MagicMore, MagicSame DEF Gone, Keep, MagicInv, Taken

-----------------------------------------------------------------------------
(* Each step leaves every tab in the right about its link. *)

\* The facts about the tab that steps: `g' says that what its link won is gone by now.
Now(t) == doubled' \/ Expired(tabs[t].won, accounts', pairs')
LEMMA MagicNow ==
    ASSUME SessionInv, MagicInv, sessionNext, NEW t \in Tab
    PROVE  /\ MagicTab(tabs[t], Now(t)) /\ (Gone(t) => Now(t))
           /\ \A tb : \A n \in Nat : Put(t, tb) /\ TabGood(tb, n) /\ MagicTab(tb, Now(t)) /\ tb.won = tabs[t].won => MagicInv'
<1>1. Gone(t) => Now(t)
  BY GoneStays DEF Now
<1>2. MagicTab(tabs[t], Gone(t))
  BY DEF MagicInv
<1>3. MagicTab(tabs[t], Now(t))
  BY <1>1, <1>2, MagicMore
<1>4. ASSUME NEW tb, NEW n \in Nat, Put(t, tb), TabGood(tb, n), MagicTab(tb, Now(t)), tb.won = tabs[t].won PROVE MagicInv'
  BY <1>4, MagicPut DEF Now
<1> QED
  BY <1>1, <1>3, <1>4

\* The work of a link that waits for nothing is under way for the pair it won.
LEMMA MagicAsks ==
    ASSUME SessionInv, NEW t \in Tab, MagicTab(tabs[t], Gone(t)), NEW l \in Line, tabs[t].work[l].doing = "magic",
           tabs[t].work[l].at = "call", ~_resolve_user(tabs[t].work[l].token)
    PROVE  Gone(t)
  BY TabFacts DEF MagicTab, Line, TabRows, Gone, Expired, _resolve_user, is_alive

\* An authorised request is answered.
LEMMA MagicAnswer ==
    ASSUME SessionInv, MagicInv, sessionNext, NEW t \in Tab, NEW l \in Line, CallAnswered(t, l)
    PROVE  MagicInv'
<1> DEFINE n == Len(pairs)
<1>1. n \in Nat /\ TabGood(tabs[t], n) /\ TabOK(tabs[t], n) /\ stored \in 0 .. n
  BY TabFacts
<1> HIDE DEF n
<1>2. PICK g \in BOOLEAN : g = Now(t)
  BY DEF Now
<1>3. MagicTab(tabs[t], g) /\ (Gone(t) => g) /\ MagicTab(tabs[t], Gone(t))
  BY <1>2, MagicNow DEF MagicInv
<1>4. ASSUME NEW tb, Put(t, tb), TabGood(tb, n), MagicTab(tb, g), tb.won = tabs[t].won PROVE MagicInv'
  BY <1>2, <1>4, MagicMore, <1>1, MagicNow
<1>5. PICK w : w = tabs[t].work[l]
  OBVIOUS
<1>6. w.at = "call"
  BY <1>5 DEF CallAnswered
<1>7. CASE _resolve_user(w.token)
  BY <1>5, <1>7, <1>1, <1>6, ServedOK, <1>3, MagicServed, <1>4 DEF CallAnswered, _resolve_user, TabOK
<1>8. CASE ~_resolve_user(w.token)
  <2>1. w.doing = "magic" => g
    BY <1>3, <1>5, <1>6, <1>8, MagicAsks
  <2>2. PICK y : y = toApiError(tabs[t], l, "twice")
    OBVIOUS
  <2>3. PICK z : z = WaitFor(tabs[t], l)
    OBVIOUS
  <2>4. Put(t, y) \/ Put(t, z)
    BY <1>5, <1>8, <2>2, <2>3 DEF CallAnswered
  <2>5. TabGood(y, n) /\ TabGood(z, n)
    BY <1>1, <2>2, <2>3, ErrorGood, WaitForGood
  <2>6. MagicTab(y, g) /\ y.won = tabs[t].won
    BY <1>1, <1>3, <1>5, <2>1, <2>2, MagicError
  <2>7. MagicTab(z, g) /\ z.won = tabs[t].won
    BY <1>1, <1>3, <1>5, <2>1, <2>3, MagicWait
  <2> QED
    BY <1>4, <2>4, <2>5, <2>6, <2>7
<1> QED
  BY <1>7, <1>8

\* A request is lost: the link's counts as one whose reply was lost.
LEMMA MagicFails ==
    ASSUME SessionInv, MagicInv, sessionNext, NEW t \in Tab, NEW l \in Line, CallFails(t, l) \/ PostFails(t, l)
    PROVE  MagicInv'
<1> DEFINE n == Len(pairs)
<1>1. n \in Nat /\ TabGood(tabs[t], n)
  BY TabFacts
<1> HIDE DEF n
<1>2. MagicTab(tabs[t], Now(t))
  BY MagicNow
<1>3. doubled' = (doubled \/ tabs[t].work[l].doing = "magic")
  BY DEF CallFails, PostFails
<1>4. tabs[t].work[l].doing = "magic" => Now(t)
  BY <1>3 DEF Now
<1>5. PICK y : y = toApiError(tabs[t], l, "lost")
  OBVIOUS
<1>6. TabGood(y, n)
  BY <1>1, <1>5, ErrorGood
<1>7. MagicTab(y, Now(t)) /\ y.won = tabs[t].won
  BY <1>1, <1>2, <1>4, <1>5, MagicError
<1>8. Put(t, y)
  BY <1>5 DEF CallFails, PostFails
<1> QED
  BY <1>1, <1>6, <1>7, <1>8, MagicNow

\* The refresh is over for the tab.
LEMMA MagicOver ==
    ASSUME SessionInv, MagicInv, sessionNext, NEW t \in Tab, RefreshAnswered(t) \/ RefreshLost(t)
    PROVE  MagicInv'
<1> DEFINE n == Len(pairs)
<1>1. n \in Nat /\ TabGood(tabs[t], n) /\ tabs[t].refresh.pair \in 0 .. n /\ stored \in 0 .. n
  BY TabFacts, Facts
<1> HIDE DEF n
<1>2. PICK g \in BOOLEAN : g = Now(t)
  BY DEF Now
<1>3. MagicTab(tabs[t], g)
  BY <1>2, MagicNow
<1>4. ASSUME NEW tb, Put(t, tb), TabGood(tb, n), MagicTab(tb, g), tb.won = tabs[t].won PROVE MagicInv'
  BY <1>2, <1>4, MagicMore, <1>1, MagicNow
<1>5. PICK x : x = [tabs[t] EXCEPT !.refresh = NoRefresh]
  OBVIOUS
<1>6. TabGood(x, n)
  <2>1. NoRefresh = [at |-> "none", token |-> 0, pair |-> 0, sv |-> 0]
    BY DEF NoRefresh
  <2>2. 0 \in 0 .. n
    BY <1>1
  <2>3. NoRefresh \in RefreshRows(n) /\ NoRefresh.at = "none" /\ NoRefresh.token = 0 /\ NoRefresh.pair = 0
    BY <2>1, <2>2 DEF RefreshRows
  <2> QED
    BY <1>1, <1>5, <2>3, RefreshGoodTab
<1>7. MagicTab(x, g) /\ x.won = tabs[t].won
  BY <1>1, <1>3, <1>5, MagicSet
<1>8. ASSUME NEW y, TabGood(y, n), MagicTab(y, g), y.won = tabs[t].won, NEW why,
             Put(t, Failed(Failed(y, "main", why), "side", why)) \/ Put(t, Resumed(Resumed(y, "main"), "side"))
      PROVE  MagicInv'
  <2>1. "main" \in Line /\ "side" \in Line
    BY DEF Line
  <2>2. PICK f : f = Failed(y, "main", why)
    OBVIOUS
  <2>3. PICK r : r = Resumed(y, "main")
    OBVIOUS
  <2>4. TabGood(f, n) /\ TabGood(r, n)
    BY <1>1, <1>8, <2>1, <2>2, <2>3, FailedGood, ResumedGood
  <2>5. MagicTab(f, g) /\ f.won = y.won /\ MagicTab(r, g) /\ r.won = y.won
    BY <1>1, <1>8, <2>1, <2>2, <2>3, MagicResumed
  <2>6. PICK ff : ff = Failed(f, "side", why)
    OBVIOUS
  <2>7. PICK rr : rr = Resumed(r, "side")
    OBVIOUS
  <2>8. TabGood(ff, n) /\ TabGood(rr, n)
    BY <1>1, <2>1, <2>4, <2>6, <2>7, FailedGood, ResumedGood
  <2>9. MagicTab(ff, g) /\ ff.won = f.won
    BY <1>1, <2>1, <2>4, <2>5, <2>6, MagicResumed
  <2>10. MagicTab(rr, g) /\ rr.won = r.won
    BY <1>1, <2>1, <2>4, <2>5, <2>7, MagicResumed
  <2>11. Put(t, ff) \/ Put(t, rr)
    BY <1>8, <2>2, <2>3, <2>6, <2>7
  <2> QED
    BY <1>4, <1>8, <2>5, <2>8, <2>9, <2>10, <2>11
<1>9. CASE RefreshLost(t)
  BY <1>5, <1>9, <1>6, <1>7, <1>8 DEF RefreshLost
<1>10. CASE RefreshAnswered(t)
  <2>1. PICK i \in 0 .. n : i = tabs[t].refresh.pair
    BY <1>1
  <2>2. CASE i = 0
    <3>1. PICK y : y = clear(x)
      OBVIOUS
    <3>2. TabGood(y, n) /\ MagicTab(y, g) /\ y.won = x.won
      BY <1>1, <1>6, <1>7, <3>1, clearGood, MagicSet
    <3>3. Put(t, Failed(Failed(y, "main", "refused"), "side", "refused"))
      BY <1>5, <1>10, <2>1, <2>2, <3>1 DEF RefreshAnswered
    <3> QED
      BY <1>7, <1>8, <3>2, <3>3
  <2>3. CASE i # 0
    <3>1. PICK y : y = setTokens(x, i)
      OBVIOUS
    <3>2. TabGood(y, n)
      BY <1>1, <1>6, <2>3, <3>1, setTokensGood
    <3>3. MagicTab(y, g) /\ y.won = x.won
      BY ZenonT(60), <1>1, <1>6, <1>7, <3>1, MagicSet
    <3>4. Put(t, Resumed(Resumed(y, "main"), "side"))
      BY <1>5, <1>10, <2>1, <2>3, <3>1 DEF RefreshAnswered
    <3> QED
      BY <1>7, <1>8, <3>2, <3>3, <3>4
  <2> QED
    BY <2>2, <2>3
<1> QED
  BY <1>9, <1>10

\* A person signs in, or the link does, which makes the pair the tab's own.
LEMMA MagicLogin ==
    ASSUME SessionInv, MagicInv, sessionNext, NEW t \in Tab, login(t) \/ completeMagicLink(t)
    PROVE  MagicInv'
<1> DEFINE n == Len(pairs)
<1>1. n \in Nat /\ TabGood(tabs[t], n) /\ tabs[t] \in TabRows(n) /\ tabs[t].work \in [Line -> WorkRows(n)] /\ stored \in 0 .. n
  BY TabFacts DEF TabRows
<1> HIDE DEF n
<1>n. n = Len(pairs)
  BY DEF n
<1>2. MagicTab(tabs[t], Now(t))
  BY MagicNow
<1>3. TabGood(tabs[t], n + 1) /\ tabs[t] \in TabRows(n + 1) /\ n + 1 \in Nat /\ n + 1 \in 1 .. n + 1 /\ stored \in 0 .. n + 1
  BY <1>1, MoreGood DEF TabGood
<1>o. "main" \in Line /\ "side" \in Line /\ "main" # "side"
  BY DEF Line
\* What fails leaves no link's work behind that has a pair.
<1>4. ASSUME NEW l \in Line, NEW why, Put(t, toApiError(tabs[t], l, why)), tabs[t].work[l].doing = "magic" => Now(t) PROVE MagicInv'
  <2>1. PICK y : y = toApiError(tabs[t], l, why)
    OBVIOUS
  <2>2. TabGood(y, n)
    BY <1>1, <2>1, ErrorGood
  <2>3. MagicTab(y, Now(t)) /\ y.won = tabs[t].won
    BY <1>1, <1>2, <1>4, <2>1, MagicError
  <2> QED
    BY <1>1, <1>4, <2>1, <2>2, <2>3, MagicNow
<1>5. CASE login(t) /\ Put(t, toApiError(tabs[t], "main", "no account"))
  BY <1>5, <1>4, <1>o DEF login
<1>6. CASE login(t) /\ Put(t, Starts(setTokens(tabs[t], n + 1), "main", "login"))
  <2>1. PICK x : x = setTokens(tabs[t], n + 1)
    OBVIOUS
  <2>2. TabGood(x, n + 1)
    BY <1>3, <2>1, setTokensGood
  <2>3. MagicTab(x, Now(t)) /\ x.won = tabs[t].won
    BY ZenonT(60), <1>2, <1>3, <2>1, MagicSet
  <2>4. PICK op \in Doings : op = "login"
    BY DEF Doings
  <2>5. PICK y : y = Starts(x, "main", op)
    OBVIOUS
  <2>6. TabGood(y, n + 1)
    BY <1>3, <1>o, <2>2, <2>5, StartsGood
  <2>7. MagicTab(y, Now(t)) /\ y.won = x.won
    BY <1>3, <1>o, <2>2, <2>3, <2>4, <2>5, MagicStarts
  <2>8. Put(t, y)
    BY <1>6, <2>1, <2>4, <2>5
  <2> QED
    BY <1>3, <2>3, <2>6, <2>7, <2>8, MagicNow
<1>7. ASSUME completeMagicLink(t)
      PROVE  tabs[t].work["side"].doing = "magic" /\ tabs[t].won = 0 /\ tabs[t].ran /\ tabs[t].page \notin NoPages
  BY <1>7, <1>2 DEF completeMagicLink, MagicTab
<1>8. CASE completeMagicLink(t) /\ Put(t, toApiError(tabs[t], "side", "dead link"))
  BY <1>7, <1>8, <1>4, <1>o DEF Now, Expired
<1>9. CASE completeMagicLink(t) /\ Put(t, Starts(setTokens([tabs[t] EXCEPT !.won = n + 1], n + 1), "side", "magic"))
  <2>1. PICK i \in 1 .. n + 1 : i = n + 1
    BY <1>3
  <2>2. PICK x : x = [tabs[t] EXCEPT !.won = i]
    OBVIOUS
  <2>3. x \in TabRows(n + 1) /\ Alike(tabs[t], x) /\ x.won = i /\ x.ran = tabs[t].ran /\ x.page = tabs[t].page
    BY <1>3, <2>2 DEF TabRows, Alike
  <2>4. TabGood(x, n + 1)
    BY <1>3, <2>3, AlikeGood
  <2>5. PICK f \in BOOLEAN : f = FALSE
    OBVIOUS
  <2>6. PICK y : y = setTokens(x, i)
    OBVIOUS
  <2>7. y = [x EXCEPT !.access = i, !.refused = f]
    BY <2>5, <2>6 DEF setTokens
  <2>8. TabGood(y, n + 1) /\ y.work = x.work
    BY <1>3, <2>4, <2>6, setTokensGood
  <2>9. y.access = i /\ y.won = i /\ y.ran = x.ran /\ y.page = x.page
    BY <2>3, <2>7 DEF TabRows
  <2>10. PICK op \in Doings : op = "magic"
    BY DEF Doings
  <2>a. PICK b : b = [NoWork EXCEPT !.doing = op]
    OBVIOUS
  <2>b. b \in WorkRows(n + 1) /\ b.at # "call" /\ b.doing = op
    <3>1. b = [doing |-> op, at |-> "none", token |-> 0, again |-> f]
      BY <2>5, <2>a DEF NoWork
    <3>2. 0 \in 0 .. n + 1
      BY <1>3
    <3> QED
      BY <3>1, <3>2 DEF WorkRows
  <2>11. PICK w : w = [b EXCEPT !.at = "call", !.token = i, !.again = f]
    OBVIOUS
  <2>12. PICK v : v = [y.work EXCEPT !["side"] = w]
    OBVIOUS
  <2>13. PICK z : z = [y EXCEPT !.work = v]
    OBVIOUS
  <2>14. y \in TabRows(n + 1) /\ y.work \in [Line -> WorkRows(n + 1)] /\ x.work = tabs[t].work
    BY <2>3, <2>8 DEF TabGood, TabRows, Alike
  <2>15. z.work = v /\ z.won = i /\ z.ran = y.ran /\ z.page = y.page
    BY <2>9, <2>13, <2>14 DEF TabRows
  <2>16. v["side"] = w /\ v["main"] = y.work["main"]
    BY <1>o, <2>12, <2>14
  <2>17. Starts(y, "side", op) = z
    <3>3. PICK c : c = [y EXCEPT !.work["side"] = b]
      OBVIOUS
    <3>4. PICK k : k = [y.work EXCEPT !["side"] = b]
      OBVIOUS
    <3>5. c = [y EXCEPT !.work = k] /\ k["side"] = b
      BY <1>o, <2>14, <3>3, <3>4 DEF TabRows
    <3>6. c.work = k /\ c.access = i
      BY <2>9, <2>14, <3>5 DEF TabRows
    <3>7. Starts(y, "side", op) = requestRaw(c, "side", f)
      BY <2>5, <2>a, <3>3 DEF Starts
    <3>8. TabGood(c, n + 1)
      BY <1>3, <1>o, <2>8, <2>b, <3>3, LineGood
    <3>c. c \in TabRows(n + 1) /\ c.work \in [Line -> WorkRows(n + 1)] /\ c.work["side"] = b
      BY <3>5, <3>6, <3>8 DEF TabGood, TabRows
    <3>9. PICK h : h = [k EXCEPT !["side"] = w]
      OBVIOUS
    <3>10. h = v
      BY <1>o, <2>12, <2>14, <3>4, <3>9
    <3>11. requestRaw(c, "side", f) = [c EXCEPT !.work = h]
      BY <2>11, <3>6, <3>c, <3>9, <1>o DEF requestRaw, TabRows, WorkRows
    <3>12. [c EXCEPT !.work = v] = z
      BY <2>13, <2>14, <3>5 DEF TabRows
    <3> QED
      BY <3>7, <3>10, <3>11, <3>12
  <2>18. MagicTab(z, FALSE)
    <3>1. w.doing = "magic" /\ w.at = "call" /\ w.token = i /\ ~w.again
      BY <2>5, <2>10, <2>11, <2>b DEF WorkRows
    <3>2. y.work["main"].doing # "magic" /\ z.page \notin NoPages /\ z.ran
      BY <1>2, <1>7, <1>9, <2>3, <2>9, <2>14, <2>8, <2>15 DEF MagicTab
    <3>3. z.page # "linkdead"
      BY <1>2, <1>7, <1>9, <2>3, <2>9, <2>15 DEF MagicTab
    <3> QED
      BY <2>15, <2>16, <3>1, <3>2, <3>3 DEF MagicTab
  <2>19. TabGood(z, n + 1)
    BY <1>3, <1>o, <2>8, StartsGood, <2>17
  <2>20. Put(t, z)
    BY <1>9, <2>1, <2>2, <2>6, <2>10, <2>17
  <2>21. MagicTab(z, doubled' \/ Expired(z.won, accounts', pairs'))
    BY <2>18, MagicMore
  <2> QED
    BY <1>3, <2>19, <2>20, <2>21, MagicPut
<1>10. login(t) => Put(t, toApiError(tabs[t], "main", "no account")) \/ Put(t, Starts(setTokens(tabs[t], n + 1), "main", "login"))
  BY <1>n DEF login, LoggedIn
<1>11. completeMagicLink(t) => \/ Put(t, toApiError(tabs[t], "side", "dead link"))
                              \/ Put(t, Starts(setTokens([tabs[t] EXCEPT !.won = n + 1], n + 1), "side", "magic"))
  BY <1>n DEF completeMagicLink
<1> QED
  BY <1>5, <1>6, <1>8, <1>9, <1>10, <1>11

\* The link's page asks for the session once: what it posts has no pair yet.
LEMMA MagicPosts ==
    ASSUME SessionInv, MagicInv, sessionNext, NEW t \in Tab, MagicLinkCallback(t)
    PROVE  MagicInv'
<1> DEFINE n == Len(pairs)
<1>1. n \in Nat /\ TabGood(tabs[t], n) /\ tabs[t] \in TabRows(n) /\ tabs[t].work \in [Line -> WorkRows(n)] /\ stored \in 0 .. n
  BY TabFacts DEF TabRows
<1> HIDE DEF n
<1>2. MagicTab(tabs[t], Now(t))
  BY MagicNow
<1>3. tabs[t].page = "magic" /\ ~tabs[t].ran
  BY DEF MagicLinkCallback
<1>4. tabs[t].won = 0
  BY <1>2, <1>3 DEF MagicTab
<1>5. PICK b \in BOOLEAN : b = TRUE
  OBVIOUS
<1>6. PICK x : x = [tabs[t] EXCEPT !.ran = b]
  OBVIOUS
<1>7. x \in TabRows(n) /\ x.page = "magic" /\ x.ran = b /\ x.won = 0 /\ x.work = tabs[t].work /\ Alike(tabs[t], x)
  BY <1>1, <1>3, <1>4, <1>6 DEF TabRows, Alike
<1>8. TabGood(x, n)
  BY <1>1, <1>7, AlikeGood
<1>9. PICK op \in Doings : op = "magic"
  BY DEF Doings
<1>10. PICK w : w = [NoWork EXCEPT !.doing = op, !.at = "post", !.token = stored]
  OBVIOUS
<1>11. w \in WorkRows(n) /\ w.at = "post" /\ w.doing = "magic" /\ ~w.again
  BY <1>10, <1>1, <1>9 DEF NoWork, WorkRows
<1>o. "side" \in Line /\ "main" \in Line /\ "side" # "main"
  BY DEF Line
<1>12. PICK y : y = [x EXCEPT !.work["side"] = w]
  OBVIOUS
<1>13. y = Posts(x, "side", "magic")
  BY <1>9, <1>10, <1>12 DEF Posts
<1>14. TabGood(y, n)
  BY <1>1, <1>8, <1>11, <1>12, <1>o, LineGood
<1>15. y.work["side"] = w /\ y.work["main"] = tabs[t].work["main"] /\ y.page = "magic" /\ y.ran /\ y.won = 0
  BY <1>1, <1>5, <1>7, <1>12, <1>o DEF TabRows
<1>16. MagicTab(y, Now(t))
  BY <1>2, <1>11, <1>15 DEF MagicTab, NoPages
<1>17. Put(t, y)
  BY <1>5, <1>6, <1>13 DEF MagicLinkCallback
<1> QED
  BY <1>1, <1>4, <1>14, <1>15, <1>16, <1>17, MagicNow

\* Other work begins.
LEMMA MagicUses ==
    ASSUME SessionInv, MagicInv, sessionNext, NEW t \in Tab,
           LoginPage(t) \/ SignOut(t) \/ request(t) \/ refreshUser(t) \/ PasswordSection(t) \/ DangerZone(t)
    PROVE  MagicInv'
<1> DEFINE n == Len(pairs)
<1>1. n \in Nat /\ TabGood(tabs[t], n) /\ stored \in 0 .. n
  BY TabFacts
<1> HIDE DEF n
<1>2. MagicTab(tabs[t], Now(t))
  BY MagicNow
<1>3. ASSUME NEW l \in Line, NEW op \in Doings, op # "magic", Put(t, Posts(tabs[t], l, op)) \/ Put(t, Starts(tabs[t], l, op))
      PROVE  MagicInv'
  BY <1>1, PostsGood, StartsGood, <1>2, <1>3, MagicStarts, MagicNow
<1>4. "main" \in Line /\ "side" \in Line /\ {"login", "logout", "list", "me", "password", "delete"} \subseteq Doings
  BY DEF Line, Doings
<1>5. CASE LoginPage(t)
  BY <1>3, <1>4, <1>5 DEF LoginPage
<1>6. CASE SignOut(t)
  BY <1>3, <1>4, <1>6 DEF SignOut
<1>7. ASSUME NEW l \in Line, NEW op \in Doings, op # "magic", Uses(t, l, op) PROVE MagicInv'
  BY <1>3, <1>7 DEF Uses
<1>8. CASE request(t) \/ refreshUser(t) \/ PasswordSection(t) \/ DangerZone(t)
  BY <1>4, <1>7, <1>8 DEF request, refreshUser, PasswordSection, DangerZone
<1> QED
  BY <1>5, <1>6, <1>8

\* The tab goes to another page: a link that fails there had no session to win.
LEMMA MagicPages ==
    ASSUME SessionInv, MagicInv, sessionNext, NEW t \in Tab,
           \/ LoggedOut(t) \/ GateAnswered(t) \/ VerifyEmailPage(t) \/ ResetSucceeded(t)
           \/ SetupPage(t) \/ RegisterPage(t) \/ ResetPasswordPage(t)
    PROVE  MagicInv'
<1> DEFINE n == Len(pairs)
<1>1. n \in Nat /\ TabGood(tabs[t], n) /\ tabs[t] \in TabRows(n)
  BY TabFacts
<1> HIDE DEF n
<1>2. MagicTab(tabs[t], Now(t))
  BY MagicNow
<1>3. ASSUME NEW x \in TabRows(n), TabGood(x, n), MagicTab(x, Now(t)), x.won = tabs[t].won,
             NEW p \in {"gate", "setup", "login", "verified", "resetdone"}, Put(t, [x EXCEPT !.page = p])
      PROVE  MagicInv'
  BY <1>3, <1>1, AlikeGood, MagicSame, MagicNow DEF TabRows, PageNames, Alike, Keep, Taken, NoPages
<1>4. CASE LoggedOut(t)
  <2>1. PICK x : x = bootstrap(tabs[t], "main")
    OBVIOUS
  <2>2. TabGood(x, n) /\ MagicTab(x, Now(t)) /\ x.won = tabs[t].won
    BY <1>1, <1>2, <2>1, MagicEnds DEF Line
  <2>3. PICK y : y = clear(x)
    OBVIOUS
  <2>4. TabGood(y, n)
    BY <1>1, <2>2, <2>3, clearGood
  <2>5. MagicTab(y, Now(t)) /\ y.won = x.won
    BY <1>1, <2>2, <2>3, MagicSet
  <2>6. Put(t, [y EXCEPT !.page = "login"])
    BY <1>4, <2>1, <2>3 DEF LoggedOut
  <2> QED
    BY <1>3, <2>2, <2>4, <2>5, <2>6 DEF TabGood
<1>5. CASE GateAnswered(t)
  <2>1. PICK s \in {"needed", "done"} : s = IF accounts.admin THEN "done" ELSE "needed"
    OBVIOUS
  <2>2. PICK x : x = [tabs[t] EXCEPT !.setup = s]
    OBVIOUS
  <2>3. x \in TabRows(n) /\ Alike(tabs[t], x) /\ Keep(tabs[t], x) /\ x.page = tabs[t].page /\ x.work = tabs[t].work
    BY <1>1, <2>2 DEF TabRows, Alike, Keep
  <2>4. TabGood(x, n)
    BY <1>1, <2>3, AlikeGood
  <2>5. MagicTab(x, Now(t))
    BY <1>2, <2>3, MagicSame DEF Taken
  <2>6. \E p \in {"gate", "setup", "login"} : UnauthenticatedRedirect(x) = [x EXCEPT !.page = p]
    BY DEF UnauthenticatedRedirect
  <2>7. Put(t, UnauthenticatedRedirect(x))
    BY <1>5, <2>1, <2>2 DEF GateAnswered
  <2> QED
    BY <1>3, <2>3, <2>4, <2>5, <2>6, <2>7 DEF Keep
\* The pages of the other links never won a pair, so nothing that fails there is a sign-in's.
<1>6. ASSUME tabs[t].page \in NoPages,
             NEW x, x = tabs[t] \/ x = [tabs[t] EXCEPT !.ran = TRUE],
             NEW p \in {"verified", "resetdone", "linkdead"}, Put(t, [x EXCEPT !.page = p])
      PROVE  MagicInv'
  <2>1. PICK c \in BOOLEAN : c = TRUE
    OBVIOUS
  <2>2. x = tabs[t] \/ x = [tabs[t] EXCEPT !.ran = c]
    BY <1>6, <2>1
  <2>3. x \in TabRows(n) /\ Alike(tabs[t], x) /\ x.work = tabs[t].work /\ x.won = tabs[t].won /\ (tabs[t].ran => x.ran)
    BY <1>1, <2>1, <2>2 DEF TabRows, Alike
  <2>4. TabGood(x, n)
    BY <1>1, <2>3, AlikeGood
  <2>5. PICK y : y = [x EXCEPT !.page = p]
    OBVIOUS
  <2>6. y \in TabRows(n) /\ Alike(x, y) /\ y.page = p /\ y.work = x.work /\ y.won = x.won /\ y.ran = x.ran
    BY <2>3, <2>5 DEF TabRows, PageNames, Alike
  <2>7. TabGood(y, n)
    BY <1>1, <2>4, <2>6, AlikeGood
  <2>8. tabs[t].won = 0 /\ tabs[t].work["side"].doing # "magic" /\ tabs[t].work["main"].doing # "magic"
    BY <1>2, <1>6 DEF MagicTab
  <2>9. Now(t)
    BY <2>8 DEF Now, Expired
  <2>10. MagicTab(y, Now(t))
    BY <2>3, <2>6, <2>8, <2>9 DEF MagicTab, NoPages
  <2> QED
    BY <1>1, <1>6, <2>3, <2>5, <2>6, <2>7, <2>10, MagicNow
<1>7. CASE VerifyEmailPage(t)
  BY <1>1, <1>7, <1>6 DEF TabRows, VerifyEmailPage, NoPages
<1>8. CASE ResetPasswordPage(t)
  BY <1>8, <1>6 DEF ResetPasswordPage, NoPages, useResetPassword
<1>9. CASE ResetSucceeded(t) \/ RegisterPage(t)
  BY <1>1, <1>2, <1>3, <1>9 DEF ResetSucceeded, RegisterPage, useRegisterForm
<1>10. CASE SetupPage(t)
  BY <1>10, MagicStill, <1>1, <1>2, <1>3 DEF SetupPage, useSetupForm, Keep
<1> QED
  BY <1>4, <1>5, <1>7, <1>8, <1>9, <1>10

\* Every step leaves every tab in the right about its link.
LEMMA MagicKept ==
    ASSUME SessionInv, MagicInv, [sessionNext]_sessionVars
    PROVE  MagicInv'
<1>1. CASE UNCHANGED sessionVars
  BY <1>1 DEF MagicInv, MagicTab, Gone, sessionVars
<1>2. CASE sessionNext
  <2>1. ASSUME NEW t \in Tab, TabStep(t) PROVE MagicInv'
    <3>1. CASE RefreshCheck(t) \/ refresh_tokens(t)
      <4>1. DOMAIN tabs = Tab /\ tabs[t] \in TabRows(Len(pairs))
        BY TabFacts DEF SessionInv, TabsInv
      <4>2. PICK r : tabs' = [tabs EXCEPT ![t].refresh = r]
        <5>1. CASE RefreshCheck(t)
          BY <5>1 DEF RefreshCheck
        <5>2. CASE refresh_tokens(t)
          <6>1. PICK k : k = Len(pairs) + 1
            OBVIOUS
          <6>2. tabs' = [tabs EXCEPT ![t].refresh.at = "answered", ![t].refresh.pair = k]
            BY <5>2, <6>1 DEF refresh_tokens
          <6>3. tabs' = [tabs EXCEPT ![t].refresh = [tabs[t].refresh EXCEPT !.at = "answered", !.pair = k]]
            BY <4>1, <6>2 DEF TabRows
          <6> QED
            BY <6>3
        <5> QED
          BY <3>1, <5>1, <5>2
      <4>3. PICK y : y = [tabs[t] EXCEPT !.refresh = r]
        OBVIOUS
      <4>4. y.page = tabs[t].page /\ Keep(tabs[t], y) /\ y.work = tabs[t].work
        BY <4>1, <4>3 DEF TabRows, Keep
      <4>5. tabs' = [tabs EXCEPT ![t] = y]
        BY <4>2, <4>3
      <4>6. \A u \in Tab : tabs'[u] = IF u = t THEN y ELSE tabs[u]
        BY <4>1, <4>5
      <4>7. \A u \in Tab : tabs'[u].page = tabs[u].page /\ Keep(tabs[u], tabs'[u]) /\ tabs'[u].work = tabs[u].work
        BY <4>4, <4>6 DEF Keep
      <4> QED
        BY <1>2, <4>7, MagicStill
    <3>2. CASE RefreshAnswered(t)
      BY <1>2, <3>2, MagicOver
    <3>3. CASE login(t) \/ completeMagicLink(t)
      BY <1>2, <3>3, MagicLogin
    <3>4. ASSUME NEW l \in Line, CallAnswered(t, l) PROVE MagicInv'
      BY <1>2, <3>4, MagicAnswer
    <3>5. CASE LoggedOut(t) \/ GateAnswered(t) \/ VerifyEmailPage(t) \/ ResetSucceeded(t)
      BY <1>2, <3>5, MagicPages
    <3>6. CASE MagicLinkCallback(t)
      BY <1>2, <3>6, MagicPosts
    <3> QED
      BY <2>1, <3>1, <3>2, <3>3, <3>4, <3>5, <3>6 DEF TabStep
  <2>2. ASSUME NEW t \in Tab,
               LoginPage(t) \/ SignOut(t) \/ request(t) \/ refreshUser(t) \/ PasswordSection(t) \/ DangerZone(t)
        PROVE  MagicInv'
    BY <1>2, <2>2, MagicUses
  <2>3. ASSUME NEW t \in Tab, SetupPage(t) \/ RegisterPage(t) \/ ResetPasswordPage(t) PROVE MagicInv'
    BY <1>2, <2>3, MagicPages
  <2>4. ASSUME NEW t \in Tab, NEW l \in Line, CallFails(t, l) \/ PostFails(t, l) PROVE MagicInv'
    BY <1>2, <2>4, MagicFails
  <2>5. ASSUME NEW t \in Tab, RefreshLost(t) PROVE MagicInv'
    BY <1>2, <2>5, MagicOver
  <2>6. ASSUME NEW t \in Tab, NEW p \in Purpose, EmailRequestForm(t, p) PROVE MagicInv'
    BY <1>2, <2>6, MagicStill DEF EmailRequestForm, Keep
  <2>7. CASE Expires
    BY <1>2, <2>7, MagicStill DEF Expires, Keep
  <2>8. ASSUME NEW t \in Tab, NEW at \in {"app", "magic", "reset", "verify"}, Loads(t, at) PROVE MagicInv'
    BY Facts, LoadedGood, MagicLoaded, <2>8, <1>2, MagicPut DEF SessionInv, SessionRows, PageNames,
       TabOK, Loads
  <2>9. ASSUME NEW t \in Tab, Reload(t) PROVE MagicInv'
    BY <2>8, <2>9 DEF Reload
  <2>10. ASSUME NEW t \in Tab, NEW p \in Purpose, OpenLink(t, p) PROVE MagicInv'
    BY <2>8, <2>10 DEF Page, Purpose, OpenLink
  <2> QED
    BY <1>2, <2>1, <2>2, <2>3, <2>4, <2>5, <2>6, <2>7, <2>9, <2>10 DEF sessionNext
<1> QED
  BY <1>1, <1>2

\* At first no link is on its way.
LEMMA MagicStart ==
    ASSUME sessionInit
    PROVE  MagicInv
  BY SessionStart, Facts, LoadedGood, MagicLoaded, MagicRouted DEF SessionInv, SessionRows, TabOK,
     PageNames, sessionInit, MagicInv

\* The tab that redeemed a sign-in link calls it dead only when the session it won
\* is over, its token has expired, or a reply was lost (MagicLinkPage.tsx,
\* email_auth.py): however often the page is drawn and whatever the other tabs do.
THEOREM LinksTrue == sessionSpec => []LinkTrue
<1>1. MagicInv => LinkTrue
  BY DEF LinkTrue, MagicInv, MagicTab, Expired, _resolve_user, is_alive, Gone
<1>2. SessionInv /\ MagicInv /\ [sessionNext]_sessionVars => (SessionInv /\ MagicInv)'
  BY SessionInvKept, MagicKept
<1>3. sessionInit => SessionInv /\ MagicInv
  BY SessionStart, MagicStart
<1> QED
  BY <1>1, <1>2, <1>3, PTL DEF sessionSpec
=============================================================================
