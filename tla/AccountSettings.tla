-------------------------- MODULE AccountSettings --------------------------
(***************************************************************************)
(* A person's account as the settings page and the editor's settings menu  *)
(* change it: the name, the editor's preferences (shown at once, saved     *)
(* whole), the e-mail address that waits for its confirmation, and the git *)
(* access tokens, whose secret is shown once.                              *)
(*                                                                         *)
(* A request carries the user as it was shown when it was sent: its answer *)
(* is put into that user. Ghosts: `overlapped' that an answer was put into *)
(* an old user or that two requests were under way at once, `unsaved' that *)
(* a preference was refused, `foreign' that the account changed elsewhere. *)
(***************************************************************************)
EXTENDS Naturals, FiniteSets, TLC

CONSTANTS
    Value,          \* values of a name, a theme or a font size
    First,          \* the one each has at first
    Secret,         \* ids of git access tokens
    AccountStories  \* what the person does, how often, what fails

ASSUME FirstAssumption == First \in Value

VARIABLES
    account,        \* the user's row on the server
    userShown,      \* the user as the application shows it
    profileCalls,   \* requests on their way
    forms,          \* the busy forms, and whether a confirmation was announced
    gitTokens,      \* id -> "none", "live", "revoked"
    tokenList,      \* the query of the tokens
    secretShown,    \* the token whose secret is on the page
    overlapped, unsaved, foreign, accountLeft

accountVars == <<account, userShown, profileCalls, forms, gitTokens, tokenList, secretShown, overlapped, unsaved,
                 foreign, accountLeft>>

NoSecret == "nothing"
Field == {"theme", "font_size"}
AccountMay(op) == op \in accountLeft.may /\ accountLeft.own > 0
SpendAccount == accountLeft' = [accountLeft EXCEPT !.own = @ - 1]

-----------------------------------------------------------------------------
(* The server.                                                             *)
update_profile(name) == [account EXCEPT !.name = name]
set_editor_preferences(prefs) == [account EXCEPT !.prefs = prefs]
start_email_change == [account EXCEPT !.pending = TRUE]
confirm_email_change == IF account.pending THEN [account EXCEPT !.pending = FALSE, !.email = "new"] ELSE account
Handled(c) ==
    CASE c.op = "name" -> update_profile(c.value) [] c.op = "prefs" -> set_editor_preferences(c.prefs)
      [] c.op = "email" -> start_email_change [] OTHER -> account
create_token(id) == [gitTokens EXCEPT ![id] = "live"]
revoke_token(id) == [gitTokens EXCEPT ![id] = IF @ = "live" THEN "revoked" ELSE @]
TokensHandled(c) ==
    CASE c.op = "create" -> create_token(c.value) [] c.op = "revoke" -> revoke_token(c.value) [] OTHER -> gitTokens
list_tokens == {id \in Secret : gitTokens[id] = "live"}

AccountServer ==
    \E c \in {x \in profileCalls : x.at = "sent"} :
        /\ profileCalls' = (profileCalls \ {c}) \cup
              {[c EXCEPT !.at = IF c.op = "revoke" /\ gitTokens[c.value] # "live" THEN "failed" ELSE "done",
                         !.got = Handled(c)]}
        /\ account' = Handled(c) /\ gitTokens' = TokensHandled(c)
        /\ UNCHANGED <<userShown, forms, tokenList, secretShown, overlapped, unsaved, foreign, accountLeft>>
AccountCallLost ==
    \E c \in {x \in profileCalls : x.at \in {"sent", "done"}} :
        /\ accountLeft.faults > 0 /\ accountLeft' = [accountLeft EXCEPT !.faults = @ - 1]
        /\ profileCalls' = (profileCalls \ {c}) \cup {[c EXCEPT !.at = "failed"]}
        /\ foreign' = (foreign \/ (c.at = "done" /\ c.op \in {"name", "email"}))
        /\ tokenList' = IF c.at = "done" THEN [tokenList EXCEPT !.missed = TRUE] ELSE tokenList
        /\ UNCHANGED <<account, userShown, forms, gitTokens, secretShown, overlapped, unsaved>>

-----------------------------------------------------------------------------
(* The application. A preference is shown before it is saved.              *)
applyUser(u) == userShown' = u
NextId == CHOOSE n \in 1 .. 9 : \A c \in profileCalls : c.id # n
CallWith(op, value, prefs) ==
    profileCalls' = profileCalls \cup
        {[id |-> NextId, op |-> op, value |-> value, prefs |-> prefs, base |-> userShown, at |-> "sent",
          got |-> account]}
Call(op, value) == CallWith(op, value, userShown.prefs)
Overlaps == overlapped' = (overlapped \/ \E c \in profileCalls : c.op \notin {"create", "revoke"})
prefsOf(field, v) == [userShown.prefs EXCEPT ![field] = v]
putEditorPreferences(field, v) ==
    /\ applyUser([userShown EXCEPT !.prefs = prefsOf(field, v)])
    /\ CallWith("prefs", v, prefsOf(field, v)) /\ Overlaps
EditorPreferencesSection ==
    \E f \in Field, v \in Value :
        /\ AccountMay("prefs") /\ SpendAccount /\ v # userShown.prefs[f] /\ putEditorPreferences(f, v)
        /\ UNCHANGED <<account, forms, gitTokens, tokenList, secretShown, unsaved, foreign>>
useEditorPreferences ==         \* the editor's own menu has no theme
    \E v \in Value :
        /\ AccountMay("font") /\ SpendAccount /\ v # userShown.prefs["font_size"]
        /\ putEditorPreferences("font_size", v)
        /\ UNCHANGED <<account, forms, gitTokens, tokenList, secretShown, unsaved, foreign>>
FormBusy(f) == f \in forms.busy
ProfileSection ==
    \E v \in Value :
        /\ AccountMay("name") /\ SpendAccount /\ ~FormBusy("name")
        /\ Call("name", v) /\ Overlaps /\ forms' = [forms EXCEPT !.busy = @ \cup {"name"}]
        /\ UNCHANGED <<account, userShown, gitTokens, tokenList, secretShown, unsaved, foreign>>
EmailSection ==
    /\ AccountMay("email") /\ SpendAccount /\ ~FormBusy("email") /\ ~forms.announced
    /\ Call("email", First) /\ Overlaps /\ forms' = [forms EXCEPT !.busy = @ \cup {"email"}]
    /\ UNCHANGED <<account, userShown, gitTokens, tokenList, secretShown, unsaved, foreign>>
ConfirmEmailPage ==             \* in a tab of its own, with the link of the mail
    /\ account.pending /\ AccountMay("confirm") /\ SpendAccount
    /\ account' = confirm_email_change /\ foreign' = TRUE
    /\ UNCHANGED <<userShown, profileCalls, forms, gitTokens, tokenList, secretShown, overlapped, unsaved>>

(* The answers. The address is announced, then the user fetched; the user  *)
(* fetched and the profile saved replace the user shown.                   *)
Done(f) == [forms EXCEPT !.busy = @ \ {f}]
refreshProfile(c) == (profileCalls \ {c}) \cup {[c EXCEPT !.op = "me", !.at = "sent"]}
keepsBase(c) == userShown      \* an answer not taken
Applied(c) == IF c.op = "prefs" THEN [c.base EXCEPT !.prefs = c.prefs] ELSE c.got
AccountAnswered ==
    \E c \in {x \in profileCalls : x.at = "done" /\ x.op \notin {"create", "revoke"}} :
        /\ IF c.op = "email"
           THEN /\ profileCalls' = refreshProfile(c) /\ forms' = [forms EXCEPT !.announced = TRUE]
                /\ UNCHANGED userShown
           ELSE /\ profileCalls' = profileCalls \ {c} /\ applyUser(Applied(c))
                /\ forms' = CASE c.op = "name" -> Done("name") [] c.op = "me" -> Done("email") [] OTHER -> forms
        /\ UNCHANGED <<account, gitTokens, tokenList, secretShown, overlapped, unsaved, foreign, accountLeft>>
Refused(c) == CASE c.op = "name" -> Done("name") [] c.op \in {"email", "me"} -> Done("email") [] OTHER -> forms
AccountRefused ==
    \E c \in {x \in profileCalls : x.at = "failed" /\ x.op \notin {"create", "revoke"}} :
        /\ profileCalls' = profileCalls \ {c} /\ forms' = Refused(c)
        /\ unsaved' = (unsaved \/ c.op = "prefs") /\ foreign' = (foreign \/ c.op = "me")
        /\ UNCHANGED <<account, userShown, gitTokens, tokenList, secretShown, overlapped, accountLeft>>

-----------------------------------------------------------------------------
(* Git access tokens: one is made at a time; its secret stays on the page. *)
GitAccessSection(q) == [q EXCEPT !.at = "asked", !.got = {}]
refresh(q) == IF q.known \/ q.at = "none" THEN GitAccessSection(q) ELSE q
listGitTokens ==
    /\ tokenList.at # "none"
    /\ tokenList' = IF tokenList.at = "asked" THEN [tokenList EXCEPT !.at = "read", !.got = list_tokens]
                    ELSE [tokenList EXCEPT !.at = "none", !.rows = tokenList.got, !.known = TRUE]
    /\ UNCHANGED <<account, userShown, profileCalls, forms, gitTokens, secretShown, overlapped, unsaved, foreign,
                   accountLeft>>
CreateForm ==
    /\ AccountMay("create") /\ SpendAccount /\ \A c \in profileCalls : c.op # "create"
    /\ \E id \in {x \in Secret : gitTokens[x] = "none"} : Call("create", id)
    /\ UNCHANGED <<account, userShown, forms, gitTokens, tokenList, secretShown, overlapped, unsaved, foreign>>
TokenRow ==
    \E id \in tokenList.rows :
        /\ AccountMay("revoke") /\ SpendAccount /\ Call("revoke", id)
        /\ UNCHANGED <<account, userShown, forms, gitTokens, tokenList, secretShown, overlapped, unsaved, foreign>>
ShownOnce(c) == secretShown' = IF c.op = "create" THEN c.value ELSE secretShown
TokensAnswered ==
    \E c \in {x \in profileCalls : x.at \in {"done", "failed"} /\ x.op \in {"create", "revoke"}} :
        /\ profileCalls' = profileCalls \ {c}
        /\ IF c.at = "failed" THEN UNCHANGED <<secretShown, tokenList>>
           ELSE /\ ShownOnce(c)
                /\ tokenList' = [refresh(tokenList) EXCEPT !.missed = @ \/ (~tokenList.known /\ tokenList.at = "read")]
        /\ UNCHANGED <<account, userShown, forms, gitTokens, overlapped, unsaved, foreign, accountLeft>>

-----------------------------------------------------------------------------
accountInit ==
    /\ accountLeft \in AccountStories
    /\ account = [name |-> First, prefs |-> [f \in Field |-> First], email |-> "old", pending |-> FALSE]
    /\ userShown = account
    /\ profileCalls = {} /\ forms = [busy |-> {}, announced |-> FALSE]
    /\ gitTokens = [id \in Secret |-> IF id \in accountLeft.tokens THEN "live" ELSE "none"]
    /\ tokenList = [at |-> "asked", rows |-> {}, got |-> {}, known |-> FALSE, missed |-> FALSE]
    /\ secretShown = NoSecret
    /\ overlapped = FALSE /\ unsaved = FALSE /\ foreign = FALSE
AccountStep == AccountServer \/ AccountAnswered \/ AccountRefused \/ listGitTokens \/ TokensAnswered
accountNext ==
    \/ AccountStep \/ AccountCallLost \/ EditorPreferencesSection \/ useEditorPreferences \/ ProfileSection
    \/ EmailSection \/ ConfirmEmailPage \/ CreateForm \/ TokenRow

-----------------------------------------------------------------------------
(* Every value has its type; a form is busy exactly while its request, or  *)
(* the fetch that follows it, is under way.                                *)
accountTypeOK ==
    /\ account.name \in Value /\ userShown.name \in Value
    /\ account.prefs \in [Field -> Value] /\ userShown.prefs \in [Field -> Value]
    /\ gitTokens \in [Secret -> {"none", "live", "revoked"}] /\ secretShown \in Secret \cup {NoSecret}
    /\ \A f \in {"name", "email"} :
        FormBusy(f) <=> (\E c \in profileCalls : c.op = f \/ (f = "email" /\ c.op = "me"))

(* At rest the page shows the account as it is: the editor's optimistic    *)
(* preferences, the name and the address that waits, whatever the order of *)
(* the requests, unless two of them overlapped, a preference was refused   *)
(* or the account changed elsewhere (auth-context.tsx,                     *)
(* EditorPreferencesSection.tsx, use-editor-preferences.ts).               *)
AccountTrue == profileCalls = {} => userShown = account \/ overlapped \/ unsaved \/ foreign

(* At rest the list has the tokens that work and no other, the one whose   *)
(* secret is on the page too as long as it works (GitAccessSection.tsx).   *)
TokensTrue ==
    tokenList.at = "none" /\ ~tokenList.missed /\ (\A c \in profileCalls : c.op \notin {"create", "revoke"})
        => tokenList.rows = list_tokens

(* A form is busy.  That must come to an end.                              *)
FormOpen == forms.busy # {}
=============================================================================
