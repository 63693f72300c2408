--------------------------- MODULE ProjectSharing ---------------------------
(***************************************************************************)
(* Who has access to a project: memberships, e-mail invites and share      *)
(* links on the server, where a request reads, decides and writes the      *)
(* columns it changed in one transaction that takes no lock before it      *)
(* writes; the owner's Share dialog; and the pages on which others open a  *)
(* link or an invite.                                                      *)
(*                                                                         *)
(* `raced' says that a transaction wrote over a row that changed after it  *)
(* read it.  `elsewhere' says that somebody, or a call whose answer was    *)
(* lost, changed something the open dialog is not told of, and             *)
(* `share.crossed' that two calls about links overlapped or that such a    *)
(* call's answer was lost.                                                 *)
(***************************************************************************)
EXTENDS Naturals, FiniteSets

CONSTANTS
    User,           \* the people
    Me,             \* the first owner, whose browser this is
    Link,           \* ids of share links
    MaxTokens,      \* bound: the invites sent to one address
    ShareStories    \* what each may do, and how often

LinkRole == {"viewer", "editor"}
NoUser == "nobody"
(* At first the owner has invited some by hand and others came by a link.  *)
ASSUME SharingAssumption ==
    /\ Me \in User /\ MaxTokens \in Nat /\ NoUser \notin User \cup Link /\ IsFiniteSet(Link)
    /\ \A s \in ShareStories :
        /\ s.hand \cup s.linked \subseteq User \ {Me} /\ s.hand \cap s.linked = {}
        /\ s.handRole \in LinkRole /\ s.on \in LinkRole \cup {NoUser} /\ (s.linked # {} => s.on # NoUser)

VARIABLES
    members,        \* user -> role, status, the link it came from, the role before
    links,          \* link -> role and state
    invites,        \* address -> the last invite sent to it; none expires
    owner_id,       \* the owner the project names
    shareCalls,     \* requests on their way
    share,          \* the dialog: open, address, confirmation, error
    lists,          \* its three queries: what is shown and the fetch under way
    urls,           \* role -> the link whose address this session knows
    visit,          \* another user's page of a link or an invite
    given,          \* users whose role the owner set by hand or invited them to
    raced, elsewhere, shareLeft

shareVars == <<members, links, invites, owner_id, shareCalls, share, lists, urls, visit, given,
               raced, elsewhere, shareLeft>>
accessVars == <<members, links, invites, owner_id, given, raced>>

RANK(role) == CASE role = "viewer" -> 1 [] role = "editor" -> 2 [] OTHER -> 3
Outside == [role |-> "viewer", status |-> "none", via |-> NoUser, before |-> NoUser]
Active(m) == m.status = "active"
require_owner(u) == Active(members[u]) /\ members[u].role = "owner"
alreadyHasAccess(role, linkRole) == role # NoUser /\ RANK(role) >= RANK(linkRole)
_active_role(u) == IF Active(members[u]) THEN members[u].role ELSE NoUser
_active_link_for_role(r) == {l \in Link : links[l] = [role |-> r, state |-> "active"]}

-----------------------------------------------------------------------------
(* The transactions.  Each is the rows it means to leave behind, or none:  *)
(* `None' is a refusal.                                                    *)

Plan(ms, ls, is, owner, hand) == [members |-> ms, links |-> ls, invites |-> is, owner |-> owner, hand |-> hand]
NoRows == [x \in {} |-> 0]
Row(x, row) == [y \in {x} |-> row]
Overlay(f, g) == [x \in DOMAIN f \cup DOMAIN g |-> IF x \in DOMAIN f THEN f[x] ELSE g[x]]
Refusal == Plan(NoRows, NoRows, NoRows, NoUser, NoRows)
detach_from_link(m) == [m EXCEPT !.via = NoUser, !.before = NoUser]

change_role(c) ==
    IF require_owner(c.by) /\ Active(members[c.user]) /\ members[c.user].role # "owner"
    THEN Plan(Row(c.user, detach_from_link([members[c.user] EXCEPT !.role = c.role])), NoRows, NoRows,
              owner_id, Row(c.user, TRUE))
    ELSE Refusal

remove_member(c) ==
    IF /\ c.by = c.user \/ require_owner(c.by)
       /\ Active(members[c.user]) /\ members[c.user].role # "owner"
    THEN Plan(Row(c.user, detach_from_link([members[c.user] EXCEPT !.status = "left"])), NoRows, NoRows,
              owner_id, Row(c.user, FALSE))
    ELSE Refusal

transfer_ownership(c) ==
    IF require_owner(c.by) /\ c.user # c.by /\ Active(members[c.user])
    THEN Plan(Overlay(Row(c.by, detach_from_link([members[c.by] EXCEPT !.role = "editor"])),
                      Row(c.user, detach_from_link([members[c.user] EXCEPT !.role = "owner"]))),
              NoRows, NoRows, c.user, Overlay(Row(c.by, TRUE), Row(c.user, TRUE)))
    ELSE Refusal

(* What a link that is turned off granted is taken back.                   *)
Returned(m) ==
    IF m.role = "owner" THEN m
    ELSE IF m.before # NoUser THEN [m EXCEPT !.role = m.before] ELSE [m EXCEPT !.status = "left"]
TakeNothing(ls) == NoRows
_take_back(ls) ==
    [u \in {x \in User : members[x].via \in ls} |-> detach_from_link(Returned(members[u]))]

create_share_link(c) ==
    IF require_owner(c.by)
    THEN LET old == _active_link_for_role(c.role)
         IN  Plan(_take_back(old),
                  Overlay([l \in old |-> [links[l] EXCEPT !.state = "revoked"]],
                          Row(c.link, [role |-> c.role, state |-> "active"])), NoRows, owner_id, NoRows)
    ELSE Refusal

revoke_share_link(c) ==
    IF require_owner(c.by) /\ links[c.link].state = "active"
    THEN Plan(_take_back({c.link}), Row(c.link, [links[c.link] EXCEPT !.state = "revoked"]), NoRows,
              owner_id, NoRows)
    ELSE Refusal

_grant(l) == [role |-> links[l].role, status |-> "active", via |-> l, before |-> NoUser]
_upgrade(m, l) ==
    IF RANK(m.role) >= RANK(links[l].role) THEN m
    ELSE [m EXCEPT !.before = m.role, !.role = links[l].role, !.via = l]
join_share_link(c) ==
    IF links[c.link].state = "active"
    THEN Plan(Row(c.by, IF Active(members[c.by]) THEN _upgrade(members[c.by], c.link) ELSE _grant(c.link)),
              NoRows, NoRows, owner_id, NoRows)
    ELSE Refusal

Pending(u) == invites[u].status = "pending"
create_invite(c) ==
    IF require_owner(c.by) /\ ~Active(members[c.user]) /\ invites[c.user].token < MaxTokens
    THEN Plan(NoRows, NoRows,
              Row(c.user, [status |-> "pending", role |-> c.role, token |-> invites[c.user].token + 1]),
              owner_id, NoRows)
    ELSE Refusal
revoke_invite(c) ==
    IF require_owner(c.by) /\ invites[c.user].status # "none"
    THEN Plan(NoRows, NoRows,
              Row(c.user, [invites[c.user] EXCEPT !.status = IF Pending(c.user) THEN "revoked" ELSE @]),
              owner_id, NoRows)
    ELSE Refusal

_invite_by_token(c) == invites[c.user].token = c.token
_grant_membership(u) ==
    IF members[u].role = "owner" THEN members[u]
    ELSE detach_from_link([members[u] EXCEPT !.role = invites[u].role, !.status = "active"])
accept_invite(c) ==
    IF _invite_by_token(c) /\ invites[c.user].status = "accepted" /\ Active(members[c.user])
    THEN Plan(Row(c.user, members[c.user]), NoRows, NoRows, owner_id, NoRows)
    ELSE IF _invite_by_token(c) /\ Pending(c.user) /\ c.by = c.user
    THEN Plan(Row(c.user, _grant_membership(c.user)), NoRows,
              Row(c.user, [invites[c.user] EXCEPT !.status = "accepted"]), owner_id, Row(c.user, TRUE))
    ELSE Refusal
decline_invite(c) ==
    IF _invite_by_token(c) /\ Pending(c.user)
    THEN Plan(NoRows, NoRows, Row(c.user, [invites[c.user] EXCEPT !.status = "declined"]), owner_id, NoRows)
    ELSE Refusal

Decide(c) ==
    CASE c.op = "role" -> change_role(c) [] c.op = "remove" -> remove_member(c)
      [] c.op = "transfer" -> transfer_ownership(c) [] c.op = "link" -> create_share_link(c)
      [] c.op = "unlink" -> revoke_share_link(c) [] c.op = "join" -> join_share_link(c)
      [] c.op = "invite" -> create_invite(c) [] c.op = "uninvite" -> revoke_invite(c)
      [] c.op = "accept" -> accept_invite(c) [] OTHER -> decline_invite(c)

Advance(c, d) == shareCalls' = (shareCalls \ {c}) \cup {d}
(* The queries of a request are one read: what commits between two of them *)
(* is not told apart from what commits before or after all.                *)
Reads ==
    \E c \in {x \in shareCalls : x.at = "asked"} : \E plan \in {Decide(c)} :
        /\ Advance(c, IF plan = Refusal THEN [c EXCEPT !.at = "refused"]
                      ELSE [c EXCEPT !.at = "read", !.plan = plan, !.saw = <<members, links, invites>>])
        /\ UNCHANGED <<accessVars, share, lists, urls, visit, elsewhere, shareLeft>>

(* The columns a row's update names: those that differ from what was read. *)
ColumnsOf(old, new) == [k \in {x \in DOMAIN old : old[x] # new[x]} |-> new[k]]
WriteOver(now, saw, plan) ==
    [x \in DOMAIN now |-> IF x \in DOMAIN plan THEN Overlay(ColumnsOf(saw[x], plan[x]), now[x]) ELSE now[x]]

(* uq_membership_one_owner, uq_share_link_one_active                       *)
Unique(ms, ls) ==
    /\ Cardinality({u \in User : ms[u].role = "owner"}) <= 1
    /\ \A r \in LinkRole : Cardinality({l \in Link : ls[l] = [role |-> r, state |-> "active"]}) <= 1
MineAsked(c) == c.by = Me /\ c.mine
Commits ==
    \E c \in {x \in shareCalls : x.at = "read"} :
        \E ms \in {WriteOver(members, c.saw[1], c.plan.members)},
           ls \in {WriteOver(links, c.saw[2], c.plan.links)},
           is \in {WriteOver(invites, c.saw[3], c.plan.invites)} :
        IF Unique(ms, ls)
        THEN /\ members' = ms /\ links' = ls /\ invites' = is
             /\ owner_id' = IF c.op = "transfer" THEN c.plan.owner ELSE owner_id
             /\ given' = Overlay(c.plan.hand, given)
             /\ raced' = (raced \/ \E u \in User : members[u] # c.saw[1][u]
                                \/ \E l \in Link : links[l] # c.saw[2][l])
             /\ elsewhere' = (elsewhere \/ (~MineAsked(c) /\ <<ms, ls, is>> # <<members, links, invites>>))
             /\ Advance(c, [c EXCEPT !.at = "done", !.plan = Refusal, !.saw = << >>])
             /\ UNCHANGED <<share, lists, urls, visit, shareLeft>>
        ELSE /\ Advance(c, [c EXCEPT !.at = "refused", !.plan = Refusal, !.saw = << >>])
             /\ UNCHANGED <<accessVars, share, lists, urls, visit, elsewhere, shareLeft>>

-----------------------------------------------------------------------------
(* The dialog.                                                             *)

NoConfirm == [op |-> "none", user |-> NoUser, link |-> NoUser, role |-> "viewer"]
Query == {"members", "invites", "links"}
Shown(q) == lists[q].rows
isOwner == <<Me, "owner", FALSE>> \in Shown("members")
listMembers == {<<u, members[u].role, members[u].via # NoUser>> : u \in {x \in User : Active(members[x])}}
listInvites == {<<u, invites[u].role>> : u \in {x \in User : Pending(x)}}
listShareLinks == {<<l, links[l].role>> : l \in {x \in Link : links[x].state = "active"}}
Answer(q) == CASE q = "members" -> listMembers [] q = "invites" -> listInvites [] OTHER -> listShareLinks
Readable(q) == IF q = "members" THEN Active(members[Me]) ELSE require_owner(Me)

Enabled(ls, open, q) == open /\ (q = "members" \/ <<Me, "owner", FALSE>> \in ls["members"].rows)
Start(ls, qs) == [q \in Query |-> IF q \in qs THEN [ls[q] EXCEPT !.at = "asked", !.got = {}] ELSE ls[q]]

(* A list shown is fetched again from the start; its first fetch goes on.  *)
Again(qs) == Start(lists, {q \in qs : Enabled(lists, share.open, q)
                                      /\ (lists[q].known \/ lists[q].at \in {"none", "failed"})})
invalidate == {"members", "invites"}
invalidateLinks == {"members", "links"}
Unheard(qs) == \E q \in qs : Again(qs)[q].at = "read"

(* Queries that come to be enabled are fetched.                            *)
useSharing(ls, open) ==
    Start(ls, {q \in Query : Enabled(ls, open, q) /\ ~Enabled(lists, share.open, q)
                             /\ ls[q].at \in {"none", "failed"}})

ListRead ==
    \E q \in {x \in Query : lists[x].at = "asked"} :
        /\ lists' = [lists EXCEPT ![q] = IF Readable(q) THEN [@ EXCEPT !.at = "read", !.got = Answer(q)]
                                         ELSE [@ EXCEPT !.at = "failed"]]
        /\ UNCHANGED <<accessVars, shareCalls, share, urls, visit, elsewhere, shareLeft>>
ListShown ==
    \E q \in {x \in Query : lists[x].at = "read"} :
        /\ lists' = useSharing([lists EXCEPT ![q] = [@ EXCEPT !.at = "none", !.rows = lists[q].got, !.got = {},
                                                              !.known = TRUE]], share.open)
        /\ UNCHANGED <<accessVars, shareCalls, share, urls, visit, elsewhere, shareLeft>>
ShareMay(op) == op \in shareLeft.may /\ shareLeft.own > 0
SpendOwn == shareLeft' = [shareLeft EXCEPT !.own = @ - 1]
QueryView ==
    \E q \in {x \in Query : lists[x].at = "failed"} :
        /\ share.open /\ ShareMay("look") /\ SpendOwn /\ lists' = Start(lists, {q})
        /\ UNCHANGED <<accessVars, shareCalls, share, urls, visit, elsewhere>>

FreeLink == {l \in Link : links[l].state = "none" /\ \A c \in shareCalls : c.link # l}
Request(op, by, user, role, link, token, mine) ==
    [op |-> op, by |-> by, user |-> user, role |-> role, link |-> link, token |-> token, mine |-> mine,
     at |-> "asked", plan |-> Refusal, saw |-> << >>]
Ask(op, user, role, link) ==
    /\ shareCalls' = shareCalls \cup {Request(op, Me, user, role, link, 0, TRUE)}
    /\ UNCHANGED <<accessVars, lists, urls, visit, elsewhere>>
PendingCall(op) == \E c \in shareCalls : c.op = op /\ c.mine
Panel == share.open /\ share.confirm = NoConfirm
onConfirm(op, user, role, link) ==
    /\ SpendOwn
    /\ share' = [share EXCEPT !.confirm = [op |-> op, user |-> user, role |-> role, link |-> link]]
    /\ UNCHANGED <<accessVars, shareCalls, lists, urls, visit, elsewhere>>

ShareDialog ==
    /\ share.confirm = NoConfirm /\ ShareMay("look") /\ SpendOwn
    /\ share' = [share EXCEPT !.open = ~@]
    /\ lists' = useSharing(lists, ~share.open)
    /\ elsewhere' = (elsewhere /\ (share.open \/ \E q \in Query : lists[q].at \in {"asked", "read"}))
    /\ UNCHANGED <<accessVars, shareCalls, urls, visit>>

manageable(row) == isOwner /\ row[2] # "owner"
MemberRow == {row \in Shown("members") : manageable(row)}
MemberRoleSelect ==
    \E row \in MemberRow, r \in LinkRole :
        /\ Panel /\ ShareMay("role") /\ SpendOwn /\ r # row[2]
        /\ Ask("role", row[1], r, NoUser) /\ UNCHANGED share
OwnerActions ==
    \E row \in MemberRow, op \in {"transfer", "remove"} :
        Panel /\ ShareMay(op) /\ onConfirm(op, row[1], "viewer", NoUser)
LeaveButton ==
    /\ Panel /\ ShareMay("remove") /\ ~isOwner /\ \E row \in Shown("members") : row[1] = Me
    /\ onConfirm("remove", Me, "viewer", NoUser)
PendingInvites ==
    \E row \in Shown("invites") :
        Panel /\ isOwner /\ ShareMay("uninvite") /\ onConfirm("uninvite", row[1], "viewer", NoUser)

LinkOf(r) == {row[1] : row \in {x \in Shown("links") : x[2] = r}}
busy == PendingCall("link") \/ PendingCall("unlink")
toggle ==
    \E r \in LinkRole :
        /\ Panel /\ isOwner /\ ~busy /\ ShareMay("link") /\ SpendOwn /\ UNCHANGED share
        /\ IF LinkOf(r) = {} THEN FreeLink # {} /\ Ask("link", NoUser, r, CHOOSE l \in FreeLink : TRUE)
           ELSE \E l \in LinkOf(r) : Ask("unlink", NoUser, r, l)
rotate ==
    \E r \in {x \in LinkRole : LinkOf(x) # {}} :
        Panel /\ isOwner /\ ShareMay("link") /\ onConfirm("link", NoUser, r, NoUser)
ShareLinkRows == toggle \/ rotate
CopyOffered(r) == isOwner /\ LinkOf(r) # {} /\ urls[r] # NoUser

InviteForm ==
    \/ \E u \in User : /\ Panel /\ isOwner /\ ShareMay("invite") /\ share.email # u
                       /\ share' = [share EXCEPT !.email = u, !.error = FALSE]
                       /\ UNCHANGED <<accessVars, shareCalls, lists, urls, visit, elsewhere, shareLeft>>
    \/ \E r \in LinkRole :
            /\ Panel /\ isOwner /\ share.email # NoUser /\ ~PendingCall("invite") /\ ShareMay("invite") /\ SpendOwn
            /\ share' = [share EXCEPT !.error = FALSE] /\ Ask("invite", share.email, r, NoUser)

ConfirmDialog ==
    /\ share.confirm # NoConfirm /\ UNCHANGED shareLeft
    /\ LET f == share.confirm IN
       /\ share' = [share EXCEPT !.confirm = NoConfirm, !.crossed = @ \/ (f.op = "link" /\ busy)]
       /\ \/ f.op # "link" /\ Ask(f.op, f.user, f.role, f.link)
          \/ f.op = "link" /\ FreeLink # {} /\ Ask("link", NoUser, f.role, CHOOSE l \in FreeLink : TRUE)
          \/ UNCHANGED <<accessVars, shareCalls, lists, urls, visit, elsewhere>>

(* The server gives a link's address out once: this session remembers it.  *)
useShareLinks(c) == [urls EXCEPT ![c.role] = IF c.op = "link" THEN c.link ELSE NoUser]

(* The dialog hears the answer of a call it made.                          *)
ShareAnswered ==
    \E c \in {x \in shareCalls : x.mine /\ x.at \in {"done", "refused"}} :
        /\ shareCalls' = shareCalls \ {c}
        /\ share' = IF c.op # "invite" THEN share
                    ELSE IF c.at = "done" THEN [share EXCEPT !.email = NoUser, !.error = FALSE]
                    ELSE [share EXCEPT !.error = TRUE]
        /\ urls' = IF c.at = "refused" \/ c.op \notin {"link", "unlink"} THEN urls
                   ELSE useShareLinks(c)
        /\ \E qs \in {IF c.at = "refused" THEN {} ELSE IF c.op \in {"link", "unlink"} THEN invalidateLinks
                       ELSE invalidate} :
                lists' = Again(qs) /\ elsewhere' = (elsewhere \/ Unheard(qs))
        /\ UNCHANGED <<accessVars, visit, shareLeft>>
ShareAnswerLost ==
    \E c \in {x \in shareCalls : x.mine /\ x.at = "done"} :
        /\ shareLeft.faults > 0 /\ shareLeft' = [shareLeft EXCEPT !.faults = @ - 1]
        /\ Advance(c, [c EXCEPT !.at = "refused"]) /\ elsewhere' = TRUE
        /\ share' = [share EXCEPT !.crossed = @ \/ c.op \in {"link", "unlink"}]
        /\ UNCHANGED <<accessVars, lists, urls, visit>>

-----------------------------------------------------------------------------
(* The others: the pages of a link and of an invite, a member who leaves,  *)
(* and the owner in a second tab.                                          *)

NoVisit == [page |-> "none", who |-> NoUser, link |-> NoUser, role |-> "viewer", has |-> NoUser, token |-> 0]
Theirs(op) == op \in shareLeft.theirs /\ shareLeft.others > 0
SpendTheirs == shareLeft' = [shareLeft EXCEPT !.others = @ - 1]
Guest == User \ {Me}
Send(op, u, user, link, token) ==
    /\ shareCalls' = shareCalls \cup {Request(op, u, user, "viewer", link, token, FALSE)}
    /\ UNCHANGED <<accessVars, share, lists, urls, elsewhere>>
Stay == UNCHANGED <<accessVars, shareCalls, share, lists, urls, elsewhere>>

JoinLinkPage ==
    \E u \in Guest, l \in Link :
        /\ Theirs("join") /\ visit = NoVisit /\ links[l].state # "none" /\ SpendTheirs /\ Stay
        /\ visit' = IF links[l].state = "active"
                    THEN [NoVisit EXCEPT !.page = "join", !.who = u, !.link = l, !.role = links[l].role,
                                         !.has = _active_role(u)]
                    ELSE NoVisit
JoinActions ==
    /\ visit.page = "join" /\ visit' = NoVisit /\ UNCHANGED shareLeft
    /\ IF alreadyHasAccess(visit.has, visit.role) THEN Stay
       ELSE Send("join", visit.who, visit.who, visit.link, 0)

AcceptInvitePage ==
    \E u \in Guest, n \in 1..MaxTokens :
        /\ Theirs("accept") /\ visit = NoVisit /\ n <= invites[u].token /\ SpendTheirs /\ Stay
        /\ visit' = IF n = invites[u].token /\ Pending(u)
                    THEN [NoVisit EXCEPT !.page = "invite", !.who = u, !.token = n] ELSE NoVisit
InviteActions ==
    /\ visit.page = "invite" /\ visit' = NoVisit /\ UNCHANGED shareLeft
    /\ \E op \in {"accept", "decline"} : Send(op, visit.who, visit.who, NoUser, visit.token)

leaveProject ==
    \E u \in Guest : Theirs("leave") /\ Active(members[u]) /\ SpendTheirs /\ Send("remove", u, u, NoUser, 0)
                     /\ UNCHANGED visit
SecondTab ==
    /\ Theirs("tab") /\ SpendTheirs /\ UNCHANGED visit
    /\ \/ \E l \in Link : links[l].state = "active" /\ Send("unlink", Me, NoUser, l, 0)
       \/ \E u \in Guest : Active(members[u]) /\ Send("transfer", Me, u, NoUser, 0)
TheirAnswer ==
    \E c \in {x \in shareCalls : ~x.mine /\ x.at \in {"done", "refused"}} :
        shareCalls' = shareCalls \ {c} /\ UNCHANGED <<accessVars, share, lists, urls, visit, elsewhere, shareLeft>>

-----------------------------------------------------------------------------
shareInit ==
    /\ shareLeft \in ShareStories
    /\ \E first \in Link :
         /\ first = CHOOSE l \in Link : TRUE
         /\ members = [u \in User |->
               CASE u = Me -> [Outside EXCEPT !.role = "owner", !.status = "active"]
                 [] u \in shareLeft.hand -> [Outside EXCEPT !.role = shareLeft.handRole, !.status = "active"]
                 [] u \in shareLeft.linked -> [Outside EXCEPT !.role = shareLeft.on, !.status = "active", !.via = first]
                 [] OTHER -> Outside]
         /\ links = [l \in Link |-> IF l = first /\ shareLeft.on # NoUser
                                   THEN [role |-> shareLeft.on, state |-> "active"]
                                   ELSE [role |-> "viewer", state |-> "none"]]
    /\ invites = [u \in User |-> [status |-> "none", role |-> "viewer", token |-> 0]]
    /\ owner_id = Me /\ given = [u \in User |-> u = Me \/ u \in shareLeft.hand]
    /\ shareCalls = {} /\ raced = FALSE /\ elsewhere = FALSE
    /\ share = [open |-> TRUE, email |-> NoUser, confirm |-> NoConfirm, error |-> FALSE, crossed |-> FALSE]
    /\ lists = [q \in Query |-> [at |-> IF q = "members" THEN "asked" ELSE "none", rows |-> {}, got |-> {},
                                 known |-> FALSE]]
    /\ urls = [r \in LinkRole |-> NoUser] /\ visit = NoVisit

ShareStep == Reads \/ Commits \/ ListRead \/ ListShown \/ ShareAnswered \/ TheirAnswer
shareNext ==
    \/ ShareStep \/ QueryView \/ ShareDialog \/ MemberRoleSelect \/ OwnerActions \/ LeaveButton
    \/ PendingInvites \/ ShareLinkRows \/ InviteForm \/ ConfirmDialog \/ ShareAnswerLost
    \/ JoinLinkPage \/ JoinActions \/ AcceptInvitePage \/ InviteActions \/ leaveProject \/ SecondTab

-----------------------------------------------------------------------------
(* Every variable has its type, one row at most says owner, and a role has *)
(* one link that is on (membership.py, share_link.py).                     *)
shareTypeOK ==
    /\ members \in [User -> [role : LinkRole \cup {"owner"}, status : {"none", "active", "left"},
                            via : Link \cup {NoUser}, before : LinkRole \cup {NoUser}]]
    /\ links \in [Link -> [role : LinkRole, state : {"none", "active", "revoked"}]]
    /\ \A u \in User : invites[u].token \in 0..MaxTokens /\ (invites[u].status = "none") = (invites[u].token = 0)
    /\ owner_id \in User /\ visit.who \in User \cup {NoUser} /\ visit.token \in 0..MaxTokens
    /\ \A c \in shareCalls : c.at \in {"asked", "read", "done", "refused"} /\ c.by \in User
    /\ \A q \in Query : lists[q].at \in {"none", "asked", "read", "failed"} /\ (lists[q].at = "read" \/ lists[q].got = {})
    /\ urls \in [LinkRole -> Link \cup {NoUser}] /\ given \in [User -> BOOLEAN]
    /\ Cardinality({u \in User : members[u].role = "owner"}) <= 1
    /\ \A r \in LinkRole : Cardinality(_active_link_for_role(r)) <= 1

(* Once the dialog rests it shows the members, and to an owner the invites *)
(* and the links, that there are (useSharing.ts, useShareLinks.ts).        *)
DialogConverges ==
    (share.open /\ ~elsewhere /\ shareCalls = {} /\ \A q \in Query : lists[q].at = "none") =>
        /\ Shown("members") = listMembers
        /\ isOwner => Shown("invites") = listInvites /\ Shown("links") = listShareLinks

(* The address the dialog offers to copy opens the project, as long as     *)
(* only this session turned links on and off (useShareLinks.ts:13-15), one *)
(* call at a time and each answered: a Rotate is not held back by another, *)
(* and after a lost answer the old address is kept for the new link.       *)
AddressWorks ==
    (share.open /\ ~elsewhere /\ ~share.crossed /\ shareCalls = {} /\ \A q \in Query : lists[q].at = "none")
        => \A r \in LinkRole : CopyOffered(r) => links[urls[r]] = [role |-> r, state |-> "active"]

(* Nobody has access through a link that is off, when no transaction       *)
(* overtook another (links.py _take_back).                                 *)
TakenBack ==
    ~raced => \A u \in User : members[u].via # NoUser
                                => Active(members[u]) /\ links[members[u].via].state = "active"

(* What the owner set by hand or granted by an invite no link takes away:  *)
(* only the owner or the member does (links.py, sharing.md).               *)
HandStays == ~raced => \A u \in User : given[u] => Active(members[u])

(* Joining by a link never lowers a role (link_join.py _upgrade).          *)
NeverLowered ==
    [][\A u \in User : (/\ Active(members[u]) /\ Active(members'[u])
                        /\ \E c \in shareCalls : c.op = "join" /\ c.at = "read" /\ c \notin shareCalls'
                        /\ ~raced')
                       => RANK(members'[u].role) >= RANK(members[u].role)]_shareVars

(* A request or a list is on its way.  That must come to an end.           *)
ShareOpen == shareCalls # {} \/ \E q \in Query : lists[q].at \notin {"none", "failed"}

(* A project has one active owner, the one it names                        *)
(* (specs/33-collaborators-sharing/spec.md:41).                            *)
OneOwner == {u \in User : require_owner(u)} = {owner_id}

=============================================================================
