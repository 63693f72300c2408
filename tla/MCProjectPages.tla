---------------------------- MODULE MCProjectPages ----------------------------
(* The pages around a project share no state of the browser's, so one run   *)
(* takes them one at a time: `focus' is the part a behaviour is about, the  *)
(* others stay as they begin.                                               *)
EXTENDS CompileView, ProjectSharing, Dashboard, Notifications, SessionTokens, AccountSettings

(* The preview.                                                             *)
MCPages == <<2, 1, 1>>
Story(s, c, l, j, m, b) ==
    [starts |-> s, cancels |-> c, logs |-> l, jumps |-> j, moves |-> m, breaks |-> b, ends |-> {"success", "failure"}]
MCStories == {Story(2, 1, 0, 0, 0, 1), Story(2, 0, 1, 0, 0, 0), Story(2, 0, 0, 1, 2, 0),
              [Story(3, 1, 0, 0, 0, 0) EXCEPT !.ends = {"success"}]}

(* The share dialog.                                                        *)
Peace == [may |-> {}, own |-> 0, theirs |-> {}, others |-> 0, faults |-> 0, hand |-> {},
          handRole |-> "editor", linked |-> {}, on |-> NoUser]
ByHand(role) == [Peace EXCEPT !.hand = {"bia"}, !.handRole = role]
ByLink(role) == [Peace EXCEPT !.linked = {"bia"}, !.on = role]
MCShareStories ==
    {[ByLink("viewer") EXCEPT !.may = {"link", "role"}, !.own = 2],
     [ByLink("viewer") EXCEPT !.may = {"remove"}, !.own = 1, !.theirs = {"tab"}, !.others = 1],
     [ByLink("viewer") EXCEPT !.may = {"look", "link"}, !.own = 1, !.theirs = {"tab"}, !.others = 1],
     [ByLink("editor") EXCEPT !.may = {"link"}, !.own = 1, !.theirs = {"leave"}, !.others = 1],
     [ByHand("viewer") EXCEPT !.on = "editor", !.may = {"transfer", "link"}, !.own = 1,
                              !.theirs = {"join"}, !.others = 1],
     [ByHand("editor") EXCEPT !.may = {"role", "transfer", "remove"}, !.own = 2],
     [Peace EXCEPT !.may = {"invite"}, !.own = 1, !.theirs = {"accept"}, !.others = 1],
     [Peace EXCEPT !.may = {"invite", "uninvite"}, !.own = 2],
     [Peace EXCEPT !.may = {"link"}, !.own = 2, !.faults = 1]}

(* The dashboard.                                                           *)
MCFirstProjects == [p1 |-> "owner", p2 |-> "editor"]
Calm == [may |-> {}, own |-> 0, faults |-> 0, others |-> 0]
MCDashStories ==
    {[Calm EXCEPT !.may = {"rename", "delete"}, !.own = 3, !.faults = 1],
     [Calm EXCEPT !.may = {"create", "leave", "delete"}, !.own = 2, !.faults = 1],
     [Calm EXCEPT !.may = {"export", "scope", "leave"}, !.own = 3, !.others = 1],
     [Calm EXCEPT !.may = {"create", "zip"}, !.own = 2],
     [Calm EXCEPT !.may = {"zip", "drop"}, !.own = 2, !.faults = 1],
     [Calm EXCEPT !.may = {"open", "back"}, !.own = 3, !.faults = 1],
     [Calm EXCEPT !.may = {"delete", "template"}, !.own = 2],
     [Calm EXCEPT !.may = {"template"}, !.own = 1, !.others = 1],
     [Calm EXCEPT !.may = {"template", "notice", "back", "open"}, !.own = 4]}

(* The bell.                                                                *)
MCNoteKind == [i1 |-> "invite", i2 |-> "invite", c1 |-> "comment", o1 |-> "other"]
Silence == [may |-> {}, own |-> 0, arrivals |-> 0, expiries |-> 0, faults |-> 0, there |-> {}]
MCBellStories ==
    {[Silence EXCEPT !.may = {"open", "read"}, !.own = 2, !.arrivals = 1, !.there = {"i1"}],
     [Silence EXCEPT !.may = {"open", "dismiss"}, !.own = 3, !.faults = 1, !.there = {"i1", "c1"}],
     [Silence EXCEPT !.may = {"open", "readAll", "comment"}, !.own = 2, !.expiries = 1, !.there = {"o1", "c1"}],
     [Silence EXCEPT !.may = {"open", "readAll", "accept"}, !.own = 3, !.there = {"i1", "c1"}]}

(* Tabs, sessions and sign-in.                                              *)
Away == [may |-> {}, own |-> 0, faults |-> 0, expiries |-> 0, new |-> FALSE, had |-> 1, mailed |-> {},
         tabs |-> {"t1"}]
MCSessionStories ==
    {[Away EXCEPT !.may = {"list", "me", "logout"}, !.own = 4, !.expiries = 2],
     [Away EXCEPT !.may = {"list", "logout"}, !.own = 3, !.faults = 1, !.expiries = 1],
     [Away EXCEPT !.may = {"list", "delete"}, !.own = 2, !.expiries = 1],
     [Away EXCEPT !.may = {"list", "password"}, !.own = 2, !.expiries = 1, !.tabs = {"t1", "t2"}],
     [Away EXCEPT !.may = {"list", "logout"}, !.own = 2, !.expiries = 1, !.tabs = {"t1", "t2"}],
     [Away EXCEPT !.may = {"reload", "list"}, !.own = 2, !.faults = 1, !.expiries = 1],
     [Away EXCEPT !.may = {"open", "list", "reset"}, !.own = 3, !.mailed = {"password_reset"}],
     [Away EXCEPT !.may = {"open"}, !.own = 2, !.mailed = {"magic_login"}, !.tabs = {}],
     [Away EXCEPT !.may = {"open"}, !.own = 2, !.mailed = {"magic_login"}, !.faults = 1],
     [Away EXCEPT !.may = {"mail", "open", "login"}, !.own = 4, !.had = 0],
     [Away EXCEPT !.may = {"setup", "register", "login", "logout", "open"}, !.own = 5, !.had = 0, !.new = TRUE]}

(* The account's page.                                                      *)
Still == [may |-> {}, own |-> 0, faults |-> 0, tokens |-> {}]
MCAccountStories ==
    {[Still EXCEPT !.may = {"prefs", "name"}, !.own = 2, !.faults = 1],
     [Still EXCEPT !.may = {"prefs", "font"}, !.own = 2],
     [Still EXCEPT !.may = {"email", "confirm", "font", "name"}, !.own = 3, !.faults = 1],
     [Still EXCEPT !.may = {"create", "revoke"}, !.own = 2, !.faults = 1, !.tokens = {"g1"}]}

VARIABLE focus
pageVars == <<compileVars, shareVars, dashVars, bellVars, sessionVars, accountVars, focus>>
Focus == {"compile", "share", "dash", "bell", "session", "account"}

(* Two tabs share the scheduler: a step of either is a step of the browser. *)
SessionStep == \E t \in Tab : TabStep(t)

Init ==
    /\ compileInit /\ shareInit /\ dashInit
    /\ bellInit /\ sessionInit /\ accountInit
    /\ focus \in Focus
    /\ focus # "compile" => left = CHOOSE s \in Stories : TRUE
    /\ focus # "share" => shareLeft = CHOOSE s \in ShareStories : TRUE
    /\ focus # "dash" => dashLeft = CHOOSE s \in DashStories : TRUE
    /\ focus # "bell" => bellLeft = CHOOSE s \in BellStories : TRUE
    /\ focus # "session" => sessionLeft = CHOOSE s \in SessionStories : s.tabs = {}
    /\ focus # "account" => accountLeft = CHOOSE s \in AccountStories : TRUE
Preview(A) == focus = "compile" /\ A /\ UNCHANGED <<shareVars, dashVars, bellVars, sessionVars, accountVars, focus>>
Sharing(A) == focus = "share" /\ A /\ UNCHANGED <<compileVars, dashVars, bellVars, sessionVars, accountVars, focus>>
Board(A) == focus = "dash" /\ A /\ UNCHANGED <<compileVars, shareVars, bellVars, sessionVars, accountVars, focus>>
Bell(A) == focus = "bell" /\ A /\ UNCHANGED <<compileVars, shareVars, dashVars, sessionVars, accountVars, focus>>
Session(A) == focus = "session" /\ A /\ UNCHANGED <<compileVars, shareVars, dashVars, bellVars, accountVars, focus>>
Account(A) == focus = "account" /\ A /\ UNCHANGED <<compileVars, shareVars, dashVars, bellVars, sessionVars, focus>>
Next ==
    \/ Preview(compileNext)
    \/ Sharing(shareNext)
    \/ Board(dashNext)
    \/ Bell(bellNext)
    \/ Session(sessionNext)
    \/ Account(accountNext)

Spec ==
    /\ Init /\ [][Next]_pageVars
    /\ WF_pageVars(Preview(WorkerStep)) /\ WF_pageVars(Preview(StartStep)) /\ WF_pageVars(Preview(FollowStep))
    /\ WF_pageVars(Sharing(ShareStep))
    /\ WF_pageVars(Board(PollStep)) /\ WF_pageVars(Board(ServerStep)) /\ WF_pageVars(Board(AnswerStep))
    /\ WF_pageVars(Bell(BellStep)) /\ WF_pageVars(Bell(PollBadge))
    /\ WF_pageVars(Session(SessionStep))
    /\ WF_pageVars(Account(AccountStep))

(* Whatever a page waits for comes to an end: a compile, a request of the    *)
(* share dialog, an import, a number on the bell     *)
(* that is behind, the load of a page, a form (the definitions say which    *)
(* code each is about).                                                     *)
Waiting ==
    CASE focus = "compile" -> CompileOpen [] focus = "share" -> ShareOpen
      [] focus = "dash" -> ImportOpen [] focus = "bell" -> BadgeBehind [] focus = "session" -> PageLoads
      [] focus = "account" -> FormOpen
PagesSettle == Waiting ~> ~Waiting

PagesTypeOK ==
    compileTypeOK /\ shareTypeOK /\ dashTypeOK /\ bellTypeOK /\ sessionTypeOK /\ accountTypeOK

(* At rest every page shows what is so: the compile that is followed, its   *)
(* document, problems and zoom; members, invites and addresses; the projects and  *)
(* what became of an import; the inbox; the sign-in link; the account and   *)
(* its tokens.                                                              *)
PagesTrue ==
    /\ [](Followed /\ DrawnAlive /\ OutputsOwn) /\ ZoomWins
    /\ [](DialogConverges /\ AddressWorks)
    /\ [](DashboardConverges /\ ImportOutcome /\ DismissHolds)
    /\ [](BellListTrue /\ LinkTrue /\ AccountTrue /\ TokensTrue)

(* Access ends and lasts as it was decided: a link that is off opens        *)
(* nothing, what the owner gave by hand no link takes or lowers, an ended   *)
(* session stays dead, and a tab that is shown as signed in is.             *)
AccessHolds ==
    /\ [](TakenBack /\ HandStays) /\ NeverLowered
    /\ [](EndedMeansDead /\ KeptSignedIn /\ UserHasTokens)
=============================================================================
