---------------------------- MODULE ProjectChat ----------------------------
(***************************************************************************)
(* The chat of a project in one browser: its pages, what the event stream  *)
(* adds to them, optimistic sends and their retries, deletions, and the    *)
(* unread count on the button.  Messages are numbered as they are created  *)
(* (their time is taken just before the commit: two that commit in the     *)
(* other order are not told apart), pages run from the newest to the       *)
(* oldest; of the order within a page only the cursor is kept, the oldest  *)
(* message it was read with.                                               *)
(*                                                                         *)
(* `missed' says that a change was lost on its way to the screen in one of *)
(* the ways the code allows: an answer read before an event replaced what  *)
(* the event had changed, a change arrived before there was a list to put  *)
(* it in, the catch-up was given up for an older page, a deletion overtook *)
(* its creation, an event was not published.  `belated' says that a        *)
(* message came late, when the pages shown began after it already, and was *)
(* put at their newest end, though an older page will bring it again.      *)
(***************************************************************************)
EXTENDS ProjectEvents

CONSTANTS
    PageSize,    \* messages of a page
    Before,      \* messages the chat holds when the project is opened
    ChatStories  \* how often the user and the others do what they may do

ASSUME ChatAssumption ==
    /\ PageSize \in Nat \ {0} /\ Before \in Nat
    /\ ChatStories \subseteq [sends : Nat, others : Nat, deletes : Nat, turns : Nat, olders : Nat,
                              breaks : Nat, faults : Nat, settled : BOOLEAN]

VARIABLES
    said,        \* the server's messages: whose, and whether deleted
    lastRead,    \* how many there were when the user last read the chat
    chatData,    \* the pages shown
    chatFetch,   \* the fetch of pages under way
    pending,     \* the messages sent: sending, failed, or the number a confirmed one got
    posts,       \* requests to post and to delete, and their answers
    unread,      \* the unread count and its fetch
    marking,     \* calls that mark the chat read: asked, and answered
    chatOpen,    \* the chat is the visible view
    chatLeft,    \* what is left of the story
    missed, belated

chatRoom == <<said, lastRead>>
chatVars == <<chatRoom, chatData, chatFetch, pending, posts, unread, marking, chatOpen, chatLeft,
              missed, belated>>

Idle == [kind |-> "none", base |-> << >>, got |-> << >>, want |-> 0, read |-> FALSE]
Sending == -1
Failed == 0
NewestPage(kind, want) == [Idle EXCEPT !.kind = kind, !.want = want]
ChatSpend(what) == chatLeft[what] > 0 /\ chatLeft' = [chatLeft EXCEPT ![what] = @ - 1]

-----------------------------------------------------------------------------
(* The pages.                                                              *)

Rows(pages) == UNION {page.rows : page \in ToSet(pages)}
Ids(pages) == {m.id : m \in Rows(pages)}
messages(data) == UNION {{p} \X data.pages[p].rows : p \in DOMAIN data.pages}
Item(id) == [id |-> id, gone |-> said[id].gone]
Unless1(id) == IF id > 1 THEN id ELSE 0
(* The newest PageSize messages older than the cursor, and the cursor of   *)
(* the page after them, 0 when there is none.                              *)
list_messages(before) ==
    LET top == IF before = 0 THEN Len(said) ELSE before - 1
        low == IF top > PageSize THEN top + 1 - PageSize ELSE 1
    IN  [rows |-> {Item(id) : id \in low..top}, next |-> Unless1(low)]
getNextPageParam(pages) == IF pages = << >> THEN 0 ELSE Last(pages).next
hasNextPage == chatData.loaded /\ getNextPageParam(chatData.pages) # 0
(* The pages are of the messages from this one on.                         *)
Reach(pages) == IF getNextPageParam(pages) = 0 THEN 1 ELSE getNextPageParam(pages)

(* Added at the newest end, unless it is there.                            *)
Adds(data, id) == data.loaded /\ id \notin Ids(data.pages)
withMessage(data, item) ==
    IF Adds(data, item.id) THEN [data EXCEPT !.pages[1].rows = @ \cup {item}] ELSE data
Belated(id) == Adds(chatData, id) /\ id < Reach(chatData.pages)
MarkGone(page, id) ==
    [page EXCEPT !.rows = {IF m.id = id THEN [m EXCEPT !.gone = TRUE] ELSE m : m \in @}]
withDeleted(data, id) == [data EXCEPT !.pages = [p \in DOMAIN @ |-> MarkGone(@[p], id)]]

(* A list not there yet takes nothing, nor does a page read but not shown. *)
DropsChange(id, gone) ==
    LET got == Rows(chatFetch.got)
    IN  \/ ~chatData.loaded /\ chatFetch.read /\ Item(id) \notin got
        \/ gone /\ [id |-> id, gone |-> FALSE] \in got

(* The chat is read while it is visible: on opening it, and on each change *)
(* of how many messages are shown.                                         *)
MarkRead(data, open) ==
    marking' = IF open /\ (~chatOpen \/ Cardinality(messages(data)) # Cardinality(messages(chatData)))
               THEN [marking EXCEPT !.asked = @ + 1] ELSE marking
ShowChat(data) == chatData' = data /\ MarkRead(data, chatOpen)

(* An invalidated query is fetched anew; a first fetch under way goes on.  *)
invalidateNone == chatFetch
invalidateMessages ==
    IF chatData.loaded THEN NewestPage("again", Len(chatData.pages)) ELSE chatFetch
CountsOld == ~unread.loaded /\ unread.fetch = "read"
refreshUnread ==
    IF unread.loaded \/ unread.fetch = "none" THEN [unread EXCEPT !.fetch = "asked"] ELSE unread

-----------------------------------------------------------------------------
(* The project was just opened; or all has arrived, and the chat is read   *)
(* if the user is about to write in it.                                    *)
chatInit ==
    /\ chatLeft \in ChatStories /\ chatOpen = (chatLeft.settled /\ chatLeft.sends > 0)
    /\ said = [i \in 1..Before |-> [mine |-> FALSE, gone |-> FALSE]]
    /\ lastRead = IF chatOpen THEN Before ELSE 0
    /\ IF chatLeft.settled
       THEN /\ stream = Closed("open")
            /\ chatData = [loaded |-> TRUE, pages |-> <<list_messages(0)>>] /\ chatFetch = Idle
            /\ unread = [loaded |-> TRUE, count |-> Before - lastRead, fetch |-> "none", got |-> 0]
       ELSE /\ stream = Closed("connecting")
            /\ chatData = [loaded |-> FALSE, pages |-> << >>] /\ chatFetch = NewestPage("first", 1)
            /\ unread = [loaded |-> FALSE, count |-> 0, fetch |-> "asked", got |-> 0]
    /\ outbox = {} /\ pending = << >> /\ posts = {}
    /\ marking = [asked |-> 0, done |-> 0] /\ missed = FALSE /\ belated = FALSE

(* The server reads a page.                                                *)
fetchMessagesPage ==
    /\ chatFetch.kind # "none" /\ ~chatFetch.read
    /\ LET upTo == IF chatFetch.got # << >> THEN chatFetch.got ELSE chatFetch.base
           page == list_messages(getNextPageParam(upTo))
       IN  chatFetch' = [chatFetch EXCEPT !.got = Append(@, page), !.read = TRUE]
    /\ UNCHANGED <<eventVars, chatRoom, chatData, pending, posts, unread, marking, chatOpen,
                   chatLeft, missed, belated>>

(* A refetch reads as many pages as were shown, each from where the one    *)
(* before it ends; an older page goes under those shown when it was asked. *)
FetchMore == chatFetch.kind = "again" /\ Len(chatFetch.got) < chatFetch.want
             /\ getNextPageParam(chatFetch.got) # 0
Fetched == [loaded |-> TRUE, pages |-> chatFetch.base \o chatFetch.got]
Overwrites(pages) ==
    \E m \in Rows(chatData.pages) :
        \/ m.gone /\ [m EXCEPT !.gone = FALSE] \in Rows(pages)
        \/ m.id >= Reach(pages) /\ m.id \notin Ids(pages)
useInfiniteQuery ==
    /\ chatFetch.read
    /\ IF FetchMore
       THEN chatFetch' = [chatFetch EXCEPT !.read = FALSE] /\ UNCHANGED <<chatData, marking, missed>>
       ELSE /\ chatFetch' = Idle /\ ShowChat(Fetched)
            /\ missed' = (missed \/ Overwrites(Fetched.pages))
    /\ UNCHANGED <<eventVars, chatRoom, pending, posts, unread, chatOpen, chatLeft, belated>>

(* Scrolling up, or the button: a refetch under way is given up for it.    *)
loadOlder ==
    /\ hasNextPage /\ chatFetch.kind # "older" /\ ChatSpend("olders")
    /\ chatFetch' = [NewestPage("older", 1) EXCEPT !.base = chatData.pages]
    /\ missed' = (missed \/ chatFetch.kind = "again")
    /\ UNCHANGED <<eventVars, chatRoom, chatData, pending, posts, unread, marking, chatOpen, belated>>

-----------------------------------------------------------------------------
(* The event stream.                                                       *)

MessageEvent ==
    LET id == NextFrame.id
        gone == NextFrame.type = "chat.message_deleted"
        data == IF gone THEN withDeleted(chatData, id)
                ELSE withMessage(chatData, [id |-> id, gone |-> FALSE])
    IN  /\ NextFrame.type \in {"chat.message_created", "chat.message_deleted"}
        /\ ShowChat(data) /\ UNCHANGED chatFetch
        /\ missed' = (missed \/ DropsChange(id, gone) \/ CountsOld)
        /\ belated' = (belated \/ (~gone /\ Belated(id)))
notifyOpen ==
    /\ NextFrame.type = "open" /\ chatFetch' = invalidateMessages
    /\ UNCHANGED <<chatData, marking, belated>>
    /\ missed' = (missed \/ (~chatData.loaded /\ chatFetch.read) \/ CountsOld)
ChatDelivered ==
    /\ deliver /\ (MessageEvent \/ notifyOpen) /\ unread' = refreshUnread
    /\ UNCHANGED <<chatRoom, pending, posts, chatOpen, chatLeft>>

Overtakes(event) ==
    event.type = "chat.message_deleted" /\ Event("chat.message_created", event.id) \in outbox
ChatPublished ==
    \E event \in outbox :
        /\ \/ publish_project_event(event) /\ missed' = (missed \/ Overtakes(event)) /\ UNCHANGED chatLeft
           \/ _publish_quietly(event) /\ ChatSpend("faults") /\ missed' = TRUE
        /\ UNCHANGED <<chatRoom, chatData, chatFetch, pending, posts, unread, marking, chatOpen, belated>>
ChatBreaks ==
    /\ streamError /\ ChatSpend("breaks")
    /\ UNCHANGED <<chatRoom, chatData, chatFetch, pending, posts, unread, marking, chatOpen, missed,
                   belated>>
ChatConnects == (project_events_stream \/ scheduleReconnect) /\ UNCHANGED chatVars

-----------------------------------------------------------------------------
(* Messages.                                                               *)

create_message(mine) ==
    /\ said' = Append(said, [mine |-> mine, gone |-> FALSE])
    /\ schedule_project_event(Event("chat.message_created", Len(said) + 1))
delete_message(id) ==
    /\ said' = [said EXCEPT ![id].gone = TRUE]
    /\ schedule_project_event(Event("chat.message_deleted", id))
OthersChat ==
    /\ \/ create_message(FALSE)
       \/ \E id \in DOMAIN said : ~said[id].mine /\ ~said[id].gone /\ delete_message(id)
    /\ ChatSpend("others")
    /\ UNCHANGED <<stream, lastRead, chatData, chatFetch, pending, posts, unread, marking, chatOpen,
                   missed, belated>>

Asked(kind, n) == [kind |-> kind, n |-> n, at |-> Sending]
attempt(n) == posts' = posts \cup {Asked("post", n)}
send ==
    /\ chatOpen /\ ChatSpend("sends")
    /\ LET n == Len(pending) + 1
       IN  pending' = Append(pending, Sending) /\ attempt(n)
    /\ UNCHANGED <<eventVars, chatRoom, chatData, chatFetch, unread, marking, chatOpen, missed, belated>>
retry ==
    /\ chatOpen /\ ChatSpend("sends")
    /\ \E n \in DOMAIN pending :
        pending[n] = Failed /\ pending' = [pending EXCEPT ![n] = Sending] /\ attempt(n)
    /\ UNCHANGED <<eventVars, chatRoom, chatData, chatFetch, unread, marking, chatOpen, missed, belated>>
remove ==
    /\ chatOpen /\ ChatSpend("deletes")
    /\ \E m \in Rows(chatData.pages) :
        said[m.id].mine /\ ~m.gone /\ posts' = posts \cup {Asked("delete", m.id)}
    /\ UNCHANGED <<eventVars, chatRoom, chatData, chatFetch, pending, unread, marking, chatOpen, missed,
                   belated>>

(* The server takes a request, or it fails; an answer may be lost.         *)
post_message ==
    /\ \E r \in posts :
        /\ r.at = Sending
        /\ \/ /\ r.kind = "post" /\ create_message(TRUE) /\ UNCHANGED chatLeft
              /\ posts' = (posts \ {r}) \cup {[r EXCEPT !.at = Len(said) + 1]}
           \/ /\ r.kind = "post" /\ create_message(TRUE) /\ ChatSpend("faults")
              /\ posts' = (posts \ {r}) \cup {[r EXCEPT !.at = Failed]}
           \/ /\ r.kind = "delete" /\ UNCHANGED chatLeft
              /\ IF said[r.n].gone THEN UNCHANGED <<said, outbox>> ELSE delete_message(r.n)
              /\ posts' = (posts \ {r}) \cup {[r EXCEPT !.at = r.n]}
           \/ /\ ChatSpend("faults") /\ UNCHANGED <<said, outbox>>
              /\ posts' = (posts \ {r}) \cup {[r EXCEPT !.at = Failed]}
    /\ UNCHANGED <<stream, lastRead, chatData, chatFetch, pending, unread, marking, chatOpen, missed,
                   belated>>

Confirm(data, id) == withMessage(data, [id |-> id, gone |-> FALSE])
ChatAnswered ==
    /\ \E r \in posts :
        /\ r.at # Sending /\ posts' = posts \ {r}
        /\ \/ /\ r.kind = "post" /\ r.at # Failed /\ ShowChat(Confirm(chatData, r.at))
              /\ pending' = [pending EXCEPT ![r.n] = r.at]
              /\ missed' = (missed \/ DropsChange(r.at, FALSE)) /\ belated' = (belated \/ Belated(r.at))
           \/ /\ r.kind = "post" /\ r.at = Failed /\ pending' = [pending EXCEPT ![r.n] = Failed]
              /\ UNCHANGED <<chatData, marking, missed, belated>>
           \/ /\ r.kind = "delete" /\ UNCHANGED <<pending, belated>>
              /\ ShowChat(IF r.at = Failed THEN chatData ELSE withDeleted(chatData, r.at))
              /\ missed' = (missed \/ (r.at # Failed /\ DropsChange(r.at, TRUE)))
    /\ UNCHANGED <<eventVars, chatRoom, chatFetch, unread, chatOpen, chatLeft>>

-----------------------------------------------------------------------------
(* Reading and the unread count.                                           *)

openChat ==
    /\ ChatSpend("turns") /\ chatOpen' = ~chatOpen /\ MarkRead(chatData, ~chatOpen)
    /\ UNCHANGED <<eventVars, chatRoom, chatData, chatFetch, pending, posts, unread, missed, belated>>
UnreadFrom(messagesSaid, from) ==
    Cardinality({i \in DOMAIN messagesSaid : i > from /\ ~messagesSaid[i].mine /\ ~messagesSaid[i].gone})
unread_count ==
    /\ unread.fetch = "asked"
    /\ unread' = [unread EXCEPT !.fetch = "read", !.got = UnreadFrom(said, lastRead)]
    /\ UNCHANGED <<eventVars, chatRoom, chatData, chatFetch, pending, posts, marking, chatOpen,
                   chatLeft, missed, belated>>
fetchUnreadCount ==
    /\ unread.fetch = "read"
    /\ unread' = [loaded |-> TRUE, count |-> unread.got, fetch |-> "none", got |-> 0]
    /\ UNCHANGED <<eventVars, chatRoom, chatData, chatFetch, pending, posts, marking, chatOpen,
                   chatLeft, missed, belated>>
mark_read ==
    /\ marking.asked > 0 /\ lastRead' = Len(said)
    /\ marking' = [asked |-> marking.asked - 1, done |-> marking.done + 1]
    /\ UNCHANGED <<eventVars, said, chatData, chatFetch, pending, posts, unread, chatOpen, chatLeft,
                   missed, belated>>
markRead ==
    /\ marking.done > 0 /\ marking' = [marking EXCEPT !.done = @ - 1] /\ unread' = refreshUnread
    /\ missed' = (missed \/ CountsOld)
    /\ UNCHANGED <<eventVars, chatRoom, chatData, chatFetch, pending, posts, chatOpen, chatLeft, belated>>

ChatStep ==
    \/ fetchMessagesPage \/ useInfiniteQuery \/ ChatDelivered \/ ChatConnects \/ post_message
    \/ ChatAnswered \/ unread_count \/ fetchUnreadCount \/ mark_read \/ markRead
    \/ ChatPublished
chatNext ==
    \/ ChatStep \/ loadOlder \/ ChatBreaks \/ OthersChat \/ send \/ retry \/ remove \/ openChat
chatSpec == chatInit /\ [][chatNext]_<<eventVars, chatVars>>

-----------------------------------------------------------------------------
ChatAtRest ==
    ChannelQuiet /\ chatData.loaded /\ chatFetch = Idle /\ posts = {} /\ unread.loaded
        /\ unread.fetch = "none" /\ marking = [asked |-> 0, done |-> 0]

chatTypeOK ==
    /\ stream.at \in {"connecting", "open", "waiting"} /\ lastRead \in 0..Len(said)
    /\ \A e \in outbox : e.type \in PROJECT_EVENT_TYPES
    /\ \A m \in Rows(chatData.pages) : m.id \in DOMAIN said
    /\ \A p \in DOMAIN chatData.pages : p > 1 => chatData.pages[p].rows # {}
    /\ \A n \in DOMAIN pending : pending[n] \in {Sending, Failed} \cup DOMAIN said
    /\ chatFetch.kind \in {"none", "first", "again", "older"} /\ unread.count \in 0..Len(said)

(* The list is the conversation: when nothing is under way, the messages   *)
(* shown are all of the server's from the oldest of its pages on, the      *)
(* deleted ones marked, after any reconnection (use-project-events.ts: a   *)
(* subscriber never relies on events it missed).                           *)
ChatConverges ==
    ChatAtRest /\ ~missed /\ ~belated =>
        Rows(chatData.pages) = {Item(id) : id \in Reach(chatData.pages)..Len(said)}

(* A message is in the list once, whether its answer or its event came     *)
(* first (withMessage).                                                    *)
OnceEach ==
    belated \/ \A m, n \in messages(chatData) : m[2].id = n[2].id => m = n

(* What the user sent is on the screen from then on: as pending, as failed *)
(* with Retry, or in the list once confirmed, until it is older than the   *)
(* pages shown (useChat: optimistic sends).                                *)
OwnMessageShown ==
    \A n \in DOMAIN pending :
        pending[n] \notin {Sending, Failed} /\ chatData.loaded /\ ~missed
            => pending[n] \in Ids(chatData.pages) \/ pending[n] < Reach(chatData.pages)

(* The badge counts what the user has not read, however reading, events    *)
(* and counts cross (useChatUnread).                                       *)
BadgeTrue == ChatAtRest /\ ~missed => unread.count = UnreadFrom(said, lastRead)

(* A message of anyone is neither shown nor under the pages shown.  That   *)
(* must come to an end, however the stream breaks (use-project-events.ts,  *)
(* scheduleReconnect and onOpen).                                          *)
MessageUnseen ==
    ~missed /\ ~belated /\ \E id \in DOMAIN said \ Ids(chatData.pages) : id >= Reach(chatData.pages)
=============================================================================
