--------------------------- MODULE SessionTokens ---------------------------
(***************************************************************************)
(* Sign-in, sessions and sign-out: the server's token pairs and the ways a *)
(* session ends, and the tabs of one browser, which share the stored       *)
(* refresh token and keep an access token each.                            *)
(*                                                                         *)
(* A pair is named by the order in which it was issued, 0 is no pair. A    *)
(* request of a tab runs in one of its two lines of work; a refused one    *)
(* waits for the tab's refresh and is sent once more.                      *)
(*                                                                         *)
(* Ghosts: `ended' the sessions that must be dead, `doubled' that a reply  *)
(* was lost or that two tabs sent the same refresh token.                  *)
(***************************************************************************)
EXTENDS Naturals, Sequences, FiniteSets

CONSTANTS
    Tab,            \* tabs of the browser
    SessionStories  \* what the person does there, how often, what fails

\* The sessions there are at first are those of an account.
ASSUME SessionAssumption ==
    \A s \in SessionStories : s.had \in Nat /\ s.new \in BOOLEAN /\ (s.new => s.had = 0)

VARIABLES
    accounts,       \* the account: state, session version, cutoff, sessions revoked
    pairs,          \* the token pairs issued
    mails,          \* the links mailed: purpose -> "none", "fresh", "used"
    stored,         \* the refresh token in the browser's storage
    tabs,           \* tab -> its page, tokens, user, refresh and work, the pair a link won it
    ended, doubled, sessionLeft

sessionVars == <<accounts, pairs, mails, stored, tabs, ended, doubled, sessionLeft>>

Line == {"main", "side"}
Purpose == {"magic_login", "password_reset", "email_verify"}
NoWork == [doing |-> "none", at |-> "none", token |-> 0, again |-> FALSE]
NoRefresh == [at |-> "none", token |-> 0, pair |-> 0, sv |-> 0]

SessionMay(op) == op \in sessionLeft.may /\ sessionLeft.own > 0
SpendSession == sessionLeft' = [sessionLeft EXCEPT !.own = @ - 1]
MayLose == sessionLeft.faults > 0
SpendFault == sessionLeft' = [sessionLeft EXCEPT !.faults = @ - 1]

-----------------------------------------------------------------------------
(* The server. A refresh is checked, then rotated: the two are separate    *)
(* calls to the store.                                                     *)
is_alive(p, sv) ==
    /\ accounts.state = "active" /\ sv = accounts.version /\ p.sid \notin accounts.dead
_resolve_user(i) == i # 0 /\ ~pairs[i].old /\ is_alive(pairs[i], pairs[i].sv)
_validate_refresh(i) ==
    /\ pairs[i].sid \notin accounts.revoked /\ ~pairs[i].rotated /\ i > accounts.cutoff
RefreshGood(i) == _validate_refresh(i) /\ is_alive(pairs[i], pairs[i].sv)
revoke_family(a, i) ==
    IF pairs[i].sid \notin a.revoked /\ pairs[i].rotated THEN [a EXCEPT !.revoked = @ \cup {pairs[i].sid}] ELSE a
Sids == {pairs[i].sid : i \in DOMAIN pairs}
Opens(sid, sv) == Append(pairs, [sid |-> sid, sv |-> sv, rotated |-> FALSE, old |-> FALSE])
issue_token_pair == Opens(Cardinality(Sids) + 1, accounts.version)
rotate_refresh(i) == [pairs EXCEPT ![i].rotated = TRUE]
revoke_user == [accounts EXCEPT !.cutoff = Len(pairs)]
end_every_session == [revoke_user EXCEPT !.version = @ + 1]
change_password == end_every_session
delete_account == [revoke_user EXCEPT !.state = "gone"]
logoutFamily(i) ==
    IF i = 0 THEN accounts ELSE [accounts EXCEPT !.revoked = @ \cup {pairs[i].sid}]
logout(i) ==
    IF i = 0 THEN accounts
    ELSE [accounts EXCEPT !.revoked = @ \cup {pairs[i].sid}, !.dead = @ \cup {pairs[i].sid}]

-----------------------------------------------------------------------------
(* The browser's token store and the auth context. `clear' makes the tab   *)
(* drop its user; the other tabs are not told.                             *)
setTokens(tb, i) == [tb EXCEPT !.access = i, !.refused = FALSE]
AsksUser(tb) == \E l \in Line : tb.work[l].at = "call" /\ tb.work[l].doing \in {"me", "bootme", "login", "magic"}
clear(tb) == [tb EXCEPT !.access = 0, !.user = FALSE, !.crossed = @ \/ AsksUser(tb)]
setUser(tb) == [tb EXCEPT !.user = TRUE]

(* Where the router leaves a tab: the guards of the app and of the public  *)
(* pages, and the page of a new deployment, asked for once.                *)
UnauthenticatedRedirect(tb) ==
    [tb EXCEPT !.page = IF tb.setup = "unknown" THEN "gate"
                        ELSE IF tb.setup = "needed" THEN "setup" ELSE "login"]
RequireAuth(tb) == IF tb.page = "app" /\ ~tb.booting /\ ~tb.user THEN UnauthenticatedRedirect(tb) ELSE tb
PublicOnly(tb) ==
    IF tb.page \in {"login", "register", "forgot"} /\ ~tb.booting /\ tb.user THEN [tb EXCEPT !.page = "app"] ELSE tb
Routed(tb) == PublicOnly(RequireAuth(tb))
Put(t, tb) == tabs' = [tabs EXCEPT ![t] = Routed(tb)]

(* A request that fails leaves the user where they were. The first load    *)
(* ends whether or not it found a session.                                 *)
bootstrap(tb, l) == [tb EXCEPT !.work[l] = NoWork, !.booting = @ /\ tb.work[l].doing \notin {"boot", "bootme"}]
toApiError(tb, l, why) ==
    [bootstrap(tb, l) EXCEPT
        !.refused = @ \/ (why = "refused" /\ tb.work[l].doing \in {"list", "me", "password", "delete"}),
        !.page = IF tb.work[l].doing = "magic" THEN "linkdead" ELSE @]

(* The tab's one refresh: the first request refused starts it, the others  *)
(* wait for it; with nothing stored there is none.                         *)
performRefresh(tb) == [tb EXCEPT !.refresh = [NoRefresh EXCEPT !.at = "sent", !.token = stored]]
refreshTokens(tb) == IF tb.refresh.at = "none" THEN performRefresh(tb) ELSE tb
WaitFor(tb, l) ==
    IF tb.refresh.at = "none" /\ stored = 0 THEN toApiError(tb, l, "refused")
    ELSE refreshTokens([tb EXCEPT !.work[l].at = "wait"])
requestRaw(tb, l, again) ==
    [tb EXCEPT !.work[l].at = "call", !.work[l].token = tb.access, !.work[l].again = again]
Starts(tb, l, op) == requestRaw([tb EXCEPT !.work[l] = [NoWork EXCEPT !.doing = op]], l, FALSE)
Posts(tb, l, op) == [tb EXCEPT !.work[l] = [NoWork EXCEPT !.doing = op, !.at = "post", !.token = stored]]
Resumed(tb, l) ==
    IF tb.work[l].at # "wait" THEN tb
    ELSE IF tb.work[l].doing = "boot" THEN Starts(tb, l, "bootme") ELSE requestRaw(tb, l, TRUE)
Failed(tb, l, why) == IF tb.work[l].at # "wait" THEN tb ELSE toApiError(tb, l, why)

-----------------------------------------------------------------------------
(* The refresh, on its way, at the server and back.                        *)
Shares(t) == \E u \in Tab \ {t} : tabs[u].refresh.token = tabs[t].refresh.token
RefreshCheck(t) ==
    \E i \in {tabs[t].refresh.token} :
        /\ tabs[t].refresh.at = "sent"
        /\ accounts' = revoke_family(accounts, i)
        /\ tabs' = [tabs EXCEPT ![t].refresh = IF RefreshGood(i) THEN [@ EXCEPT !.at = "checked", !.sv = accounts.version]
                                               ELSE [@ EXCEPT !.at = "answered"]]
        /\ doubled' = (doubled \/ Shares(t))
        /\ UNCHANGED <<pairs, mails, stored, ended, sessionLeft>>
refresh_tokens(t) ==
    \E i \in {tabs[t].refresh.token} :
        /\ tabs[t].refresh.at = "checked"
        /\ pairs' = Append(rotate_refresh(i), [sid |-> pairs[i].sid, sv |-> tabs[t].refresh.sv,
                                               rotated |-> FALSE, old |-> FALSE])
        /\ tabs' = [tabs EXCEPT ![t].refresh.at = "answered", ![t].refresh.pair = Len(pairs) + 1]
        /\ UNCHANGED <<accounts, mails, stored, ended, doubled, sessionLeft>>
RefreshAnswered(t) ==
    /\ tabs[t].refresh.at = "answered"
    /\ \E i \in {tabs[t].refresh.pair}, tb \in {[tabs[t] EXCEPT !.refresh = NoRefresh]} :
        /\ stored' = i
        /\ IF i = 0 THEN Put(t, Failed(Failed(clear(tb), "main", "refused"), "side", "refused"))
           ELSE Put(t, Resumed(Resumed(setTokens(tb, i), "main"), "side"))
    /\ doubled' = (doubled \/ Shares(t))
    /\ UNCHANGED <<accounts, pairs, mails, ended, sessionLeft>>
RefreshLost(t) ==
    /\ tabs[t].refresh.at \in {"sent", "answered"} /\ MayLose /\ SpendFault
    /\ Put(t, Failed(Failed([tabs[t] EXCEPT !.refresh = NoRefresh], "main", "lost"), "side", "lost"))
    /\ doubled' = (doubled \/ tabs[t].refresh.pair # 0)
    /\ UNCHANGED <<accounts, pairs, mails, stored, ended>>

(* An authorised request answered. A refused one waits for the refresh;    *)
(* the password and the account are changed, then the person signed out.   *)
Served(tb, l) ==
    CASE tb.work[l].doing \in {"login", "magic"} -> [setUser(bootstrap(tb, l)) EXCEPT !.page = "app"]
      [] tb.work[l].doing \in {"bootme", "me"} -> setUser(bootstrap(tb, l))
      [] tb.work[l].doing = "list" -> bootstrap(tb, l)
      [] OTHER -> Posts(tb, l, "logout")
CallAnswered(t, l) ==
    \E w \in {tabs[t].work[l]} :
        /\ w.at = "call"
        /\ IF _resolve_user(w.token)
           THEN /\ Put(t, Served(tabs[t], l))
                /\ accounts' = CASE w.doing = "password" -> change_password
                                 [] w.doing = "delete" -> delete_account [] OTHER -> accounts
                /\ ended' = IF w.doing \in {"password", "delete"} THEN ended \cup Sids ELSE ended
           ELSE /\ Put(t, IF w.again THEN toApiError(tabs[t], l, "twice") ELSE WaitFor(tabs[t], l))
                /\ UNCHANGED <<accounts, ended>>
    /\ UNCHANGED <<pairs, mails, stored, doubled, sessionLeft>>
CallFails(t, l) ==
    /\ tabs[t].work[l].at = "call" /\ MayLose /\ SpendFault
    /\ Put(t, toApiError(tabs[t], l, "lost"))
    /\ doubled' = (doubled \/ tabs[t].work[l].doing = "magic")
    /\ UNCHANGED <<accounts, pairs, mails, stored, ended>>

-----------------------------------------------------------------------------
(* Signing in: with a password, or with the link of a mail, which is spent *)
(* in the transaction that issues the pair; then the user is fetched.      *)
LoggedIn(t, op) ==
    /\ pairs' = issue_token_pair /\ stored' = Len(pairs) + 1
    /\ Put(t, Starts(setTokens(tabs[t], Len(pairs) + 1), "main", op))
LoginPage(t) ==
    /\ tabs[t].page = "login" /\ ~tabs[t].booting /\ tabs[t].work["main"] = NoWork
    /\ SessionMay("login") /\ SpendSession /\ Put(t, Posts(tabs[t], "main", "login"))
    /\ UNCHANGED <<accounts, pairs, mails, stored, ended, doubled>>
login(t) ==
    /\ tabs[t].work["main"].doing = "login" /\ tabs[t].work["main"].at = "post"
    /\ IF accounts.state = "active" THEN LoggedIn(t, "login")
       ELSE Put(t, toApiError(tabs[t], "main", "no account")) /\ UNCHANGED <<pairs, stored>>
    /\ UNCHANGED <<accounts, mails, ended, doubled, sessionLeft>>
consume_token(purpose) == mails[purpose] = "fresh" /\ mails' = [mails EXCEPT ![purpose] = "used"]
MagicLinkCallback(t) ==
    /\ tabs[t].page = "magic" /\ ~tabs[t].ran /\ tabs[t].work["side"] = NoWork
    /\ Put(t, Posts([tabs[t] EXCEPT !.ran = TRUE], "side", "magic"))
    /\ UNCHANGED <<accounts, pairs, mails, stored, ended, doubled, sessionLeft>>
completeMagicLink(t) ==
    /\ tabs[t].work["side"].doing = "magic" /\ tabs[t].work["side"].at = "post"
    /\ IF mails["magic_login"] = "fresh" /\ accounts.state = "active"
       THEN /\ consume_token("magic_login") /\ pairs' = issue_token_pair /\ stored' = Len(pairs) + 1
            /\ Put(t, Starts(setTokens([tabs[t] EXCEPT !.won = Len(pairs) + 1], Len(pairs) + 1), "side", "magic"))
       ELSE /\ Put(t, toApiError(tabs[t], "side", "dead link")) /\ UNCHANGED <<mails, pairs, stored>>
    /\ UNCHANGED <<accounts, ended, doubled, sessionLeft>>

(* Signing out, whatever becomes of the request.                           *)
SignOut(t) ==
    /\ tabs[t].page = "app" /\ tabs[t].user /\ tabs[t].work["main"] = NoWork
    /\ SessionMay("logout") /\ SpendSession /\ Put(t, Posts(tabs[t], "main", "logout"))
    /\ UNCHANGED <<accounts, pairs, mails, stored, ended, doubled>>
LoggedOut(t) ==
    \E w \in {tabs[t].work["main"]}, lost \in BOOLEAN :
        /\ w.doing = "logout" /\ w.at = "post"
        /\ IF lost THEN MayLose /\ SpendFault /\ w.token # 0 ELSE UNCHANGED sessionLeft
        /\ accounts' = IF lost THEN accounts ELSE logout(w.token)
        /\ ended' = IF lost \/ w.token = 0 THEN ended ELSE ended \cup {pairs[w.token].sid}
        /\ stored' = 0
        /\ Put(t, [clear(bootstrap(tabs[t], "main")) EXCEPT !.page = "login"])
        /\ UNCHANGED <<pairs, mails, doubled>>
PostFails(t, l) ==
    /\ tabs[t].work[l].doing \in {"login", "magic"} /\ tabs[t].work[l].at = "post" /\ MayLose /\ SpendFault
    /\ \E late \in BOOLEAN :        \* the link may have been spent
        mails' = IF late /\ tabs[t].work[l].doing = "magic" /\ mails["magic_login"] = "fresh"
                 THEN [mails EXCEPT !["magic_login"] = "used"] ELSE mails
    /\ doubled' = (doubled \/ tabs[t].work[l].doing = "magic")
    /\ Put(t, toApiError(tabs[t], l, "lost"))
    /\ UNCHANGED <<accounts, pairs, stored, ended>>

-----------------------------------------------------------------------------
(* The pages. A page loaded starts from what is stored; what was under way *)
(* in the tab is lost to it, though the server may act on it.              *)
NewTab(at) ==
    [page |-> at, access |-> 0, user |-> FALSE, booting |-> TRUE, setup |-> "unknown", ran |-> FALSE,
     won |-> 0, refused |-> FALSE, crossed |-> FALSE, refresh |-> NoRefresh, work |-> [l \in Line |-> NoWork]]
AuthProvider(at) == WaitFor([NewTab(at) EXCEPT !.work["main"].doing = "boot"], "main")
Loads(t, at) ==
    /\ Put(t, AuthProvider(at))
    /\ doubled' = (doubled \/ tabs[t].refresh.at # "none")
    /\ pairs' \in (IF tabs[t].refresh.at \in {"sent", "checked"} THEN {pairs, rotate_refresh(tabs[t].refresh.token)}
                   ELSE {pairs})
    /\ UNCHANGED <<accounts, mails, stored, ended>>
Reload(t) == tabs[t].page # "closed" /\ SessionMay("reload") /\ SpendSession /\ Loads(t, "app")
Page == [magic_login |-> "magic", password_reset |-> "reset", email_verify |-> "verify"]
OpenLink(t, purpose) ==             \* in a tab of its own
    /\ tabs[t].page = "closed" /\ mails[purpose] # "none" /\ SessionMay("open") /\ SpendSession /\ Loads(t, Page[purpose])
EmailRequestForm(t, purpose) ==     \* a link asked for is mailed, the older ones are dead
    /\ tabs[t].page \in {"login", "linkdead"} /\ SessionMay("mail") /\ SpendSession
    /\ mails' = [mails EXCEPT ![purpose] = IF accounts.state = "active" THEN "fresh" ELSE @]
    /\ UNCHANGED <<accounts, pairs, stored, tabs, ended, doubled>>
GateAnswered(t) ==                  \* the setup status, kept for as long as the tab lives
    /\ tabs[t].page = "gate"
    /\ Put(t, UnauthenticatedRedirect([tabs[t] EXCEPT !.setup = IF accounts.admin THEN "done" ELSE "needed"]))
    /\ UNCHANGED <<accounts, pairs, mails, stored, ended, doubled, sessionLeft>>
createFirstAdmin ==                 \* this account, or another one when it is there already
    [accounts EXCEPT !.state = IF @ = "none" THEN "active" ELSE @, !.admin = TRUE]
useSetupForm(t) ==
    IF accounts.admin THEN UNCHANGED <<accounts, tabs>>
    ELSE accounts' = createFirstAdmin /\ Put(t, [tabs[t] EXCEPT !.page = "login"])
SetupPage(t) ==
    /\ tabs[t].page = "setup" /\ SessionMay("setup") /\ SpendSession /\ useSetupForm(t)
    /\ UNCHANGED <<pairs, mails, stored, ended, doubled>>
useRegisterForm(t) ==
    /\ accounts' = [accounts EXCEPT !.state = "active"] /\ mails' = [mails EXCEPT !["email_verify"] = "fresh"]
    /\ Put(t, [tabs[t] EXCEPT !.page = "login"])
RegisterPage(t) ==
    /\ tabs[t].page \in {"login", "setup"} /\ accounts.state = "none" /\ SessionMay("register") /\ SpendSession
    /\ useRegisterForm(t)
    /\ UNCHANGED <<pairs, stored, ended, doubled>>
VerifyEmailPage(t) ==
    /\ tabs[t].page = "verify" /\ ~tabs[t].ran
    /\ IF mails["email_verify"] = "fresh"
       THEN consume_token("email_verify") /\ Put(t, [tabs[t] EXCEPT !.ran = TRUE, !.page = "verified"])
       ELSE Put(t, [tabs[t] EXCEPT !.ran = TRUE, !.page = "linkdead"]) /\ UNCHANGED mails
    /\ UNCHANGED <<accounts, pairs, stored, ended, doubled, sessionLeft>>
complete_password_reset == end_every_session
useResetPassword(t) ==
    IF mails["password_reset"] = "fresh"
    THEN /\ consume_token("password_reset") /\ accounts' = complete_password_reset
         /\ ended' = ended \cup Sids /\ Put(t, [tabs[t] EXCEPT !.page = "resetdone"])
    ELSE Put(t, [tabs[t] EXCEPT !.page = "linkdead"]) /\ UNCHANGED <<mails, accounts, ended>>
ResetPasswordPage(t) ==
    /\ tabs[t].page = "reset" /\ SessionMay("reset") /\ SpendSession /\ useResetPassword(t)
    /\ UNCHANGED <<pairs, stored, doubled>>
ResetSucceeded(t) ==                \* a moment later, the sign-in page
    /\ tabs[t].page = "resetdone" /\ Put(t, [tabs[t] EXCEPT !.page = "login"])
    /\ UNCHANGED <<accounts, pairs, mails, stored, ended, doubled, sessionLeft>>

(* Signed in: the app's queries, the account's own page, time.             *)
Uses(t, l, op) ==
    /\ tabs[t].page = "app" /\ tabs[t].user /\ tabs[t].work[l] = NoWork
    /\ SessionMay(op) /\ SpendSession /\ Put(t, Starts(tabs[t], l, op))
    /\ UNCHANGED <<accounts, pairs, mails, stored, ended, doubled>>
request(t) == \E l \in Line : Uses(t, l, "list")
refreshUser(t) == Uses(t, "side", "me")
PasswordSection(t) == Uses(t, "main", "password")
DangerZone(t) == Uses(t, "main", "delete")
Expires ==
    \E i \in DOMAIN pairs :
        /\ ~pairs[i].old /\ sessionLeft.expiries > 0 /\ sessionLeft' = [sessionLeft EXCEPT !.expiries = @ - 1]
        /\ \E t \in Tab : tabs[t].access = i
        /\ pairs' = [pairs EXCEPT ![i].old = TRUE]
        /\ UNCHANGED <<accounts, mails, stored, tabs, ended, doubled>>

-----------------------------------------------------------------------------
sessionInit ==
    /\ sessionLeft \in SessionStories
    /\ accounts = [state |-> IF sessionLeft.new THEN "none" ELSE "active", admin |-> ~sessionLeft.new,
                   version |-> 0, cutoff |-> 0, revoked |-> {}, dead |-> {}]
    /\ pairs = [i \in 1 .. sessionLeft.had |-> [sid |-> i, sv |-> 0, rotated |-> FALSE, old |-> TRUE]]
    /\ mails = [p \in Purpose |-> IF p \in sessionLeft.mailed THEN "fresh" ELSE "none"]
    /\ stored = sessionLeft.had
    /\ tabs = [t \in Tab |-> IF t \in sessionLeft.tabs THEN Routed(AuthProvider("app"))
                             ELSE [NewTab("closed") EXCEPT !.booting = FALSE]]
    /\ ended = {} /\ doubled = FALSE
TabStep(t) ==
    \/ RefreshCheck(t) \/ refresh_tokens(t) \/ RefreshAnswered(t) \/ login(t) \/ completeMagicLink(t)
    \/ \E l \in Line : CallAnswered(t, l)
    \/ LoggedOut(t) \/ GateAnswered(t) \/ MagicLinkCallback(t) \/ VerifyEmailPage(t) \/ ResetSucceeded(t)
sessionNext ==
    \/ Expires
    \/ \E t \in Tab :
        \/ TabStep(t) \/ RefreshLost(t) \/ LoginPage(t) \/ SignOut(t) \/ Reload(t) \/ SetupPage(t) \/ RegisterPage(t)
        \/ ResetPasswordPage(t) \/ request(t) \/ refreshUser(t) \/ PasswordSection(t) \/ DangerZone(t)
        \/ \E l \in Line : CallFails(t, l) \/ PostFails(t, l)
        \/ \E p \in Purpose : OpenLink(t, p) \/ EmailRequestForm(t, p)

-----------------------------------------------------------------------------
(* Every value has its type; a request sent again is one that had a token  *)
(* refused, and the tab's refresh runs while somebody waits for it.        *)
sessionTypeOK ==
    /\ stored \in 0 .. Len(pairs) /\ accounts.cutoff \in 0 .. Len(pairs) /\ ended \subseteq Sids
    /\ \A t \in Tab :
        /\ tabs[t].access \in 0 .. Len(pairs) /\ tabs[t].refresh.token \in 0 .. Len(pairs)
        /\ \A l \in Line : tabs[t].work[l].at \in {"none", "post", "call", "wait"}
        /\ (tabs[t].refresh.at # "none") = (\E l \in Line : tabs[t].work[l].at = "wait")
        /\ tabs[t].page \in {"closed", "app", "gate", "setup", "login", "magic", "reset", "resetdone", "verify",
                            "verified", "linkdead"}

(* However many requests are refused at once, a tab alone never sends the  *)
(* same refresh token twice, which the server would punish by signing the  *)
(* browser out (api-client.ts, login.py).                                  *)
KeptSignedIn == accounts.revoked \subseteq accounts.dead \/ doubled

(* A session that was signed out, or whose account's password changed, is  *)
(* dead for good: none of its tokens is taken, those made by a refresh     *)
(* that was under way at the time included (sessions.py, account.py).      *)
EndedMeansDead ==
    \A i \in DOMAIN pairs : pairs[i].sid \in ended => ~_resolve_user(i) /\ ~RefreshGood(i)

(* A tab that shows a user has a token to work with, unless it was signed  *)
(* out while the user was being fetched (auth-context.tsx).                *)
UserHasTokens == \A t \in Tab : tabs[t].user => tabs[t].access # 0 \/ tabs[t].crossed

(* A tab never calls dead the sign-in link that signed it in, while that   *)
(* sign-in is still good: however often the page is drawn the link is      *)
(* redeemed once (MagicLinkPage.tsx).                                      *)
LinkTrue == \A t \in Tab : tabs[t].page = "linkdead" /\ _resolve_user(tabs[t].won) => doubled

(* A page is being loaded.  That must end with a user or without one       *)
(* (auth-context.tsx).                                                     *)
PageLoads == \E t \in Tab : tabs[t].booting

=============================================================================
