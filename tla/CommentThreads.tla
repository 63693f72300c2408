--------------------------- MODULE CommentThreads ---------------------------
(***************************************************************************)
(* Comment threads in one browser: their anchors in a text that others     *)
(* edit, the list and how it is kept current, the panel's rows, and the    *)
(* writes: a comment on a selection, replies, edits with their mentions,   *)
(* deletions, resolving.                                                   *)
(*                                                                         *)
(* A text the user types is a number.  `thrown' keeps those that left the  *)
(* screen unsent: cancelled, typed over, or taken away with their box when *)
(* an earlier text of it was saved or the box was no longer shown.         *)
(* `overlooked' says that an event was not published, or came while the    *)
(* first list, read before it, was on its way.                             *)
(***************************************************************************)
EXTENDS ProjectEvents

CONSTANTS
    Name,           \* the project's members but the user
    TextLength,     \* characters of the open document at the start
    MaxThreads,     \* threads, at most
    CommentStories  \* how often the user and the others do what they may do

ASSUME CommentAssumption ==
    /\ TextLength \in Nat \ {0} /\ MaxThreads \in Nat \ {0, 1} /\ IsFiniteSet(Name)
    /\ CommentStories \subseteq [drafts : Nat, replies : Nat, edits : Nat, removes : Nat,
                                 presses : Nat, views : Nat, others : Nat, typing : Nat,
                                 breaks : Nat, faults : Nat, link : 0..2]

VARIABLES
    ydoc,           \* the Y.Text of the open document: its characters, those deleted too
    threads,        \* the server's threads
    comments,       \* the list shown, and its fetch
    review,         \* the panel, the open document, the deep link, what has been fetched
    draft,          \* the passage picked for a new comment
    boxes,          \* the texts in the composer and in the reply boxes
    editing,        \* the message being edited
    writes,         \* mutations under way
    commentLeft,    \* what is left of the story
    typed, thrown, overlooked

panelVars == <<review, draft, boxes, editing>>
commentVars == <<ydoc, threads, comments, panelVars, writes, commentLeft, typed, thrown, overlooked>>

NoDraft == [doc |-> "none", start |-> 0, end |-> 0, quote |-> {}]
NoEdit == [thread |-> 0, msg |-> 0, picked |-> {}, known |-> TRUE]
Composer == 0
CommentSpend(what) ==
    commentLeft[what] > 0 /\ commentLeft' = [commentLeft EXCEPT ![what] = @ - 1]

-----------------------------------------------------------------------------
(* Anchors.                                                                *)

LivePlaces == {p \in DOMAIN ydoc : ~ydoc[p].gone}
LiveUpTo(p) == Cardinality({q \in LivePlaces : q <= p})
LivePlace(i) == CHOOSE p \in LivePlaces : LiveUpTo(p) = i
Live == [i \in 1..Cardinality(LivePlaces) |-> ydoc[LivePlace(i)]]
Place(id) == CHOOSE p \in DOMAIN ydoc : ydoc[p].id = id

(* [from, to) of the text: the start sticks to the character after it, the *)
(* end to the one before it.                                               *)
encodeAnchor(from, to) == [start |-> Live[from + 1].id, end |-> Live[to].id]
(* The current range, <<0, 0>> when it no longer exists.                   *)
resolveAnchor(t) ==
    LET from == LiveUpTo(Place(t.start) - 1)
        to == LiveUpTo(Place(t.end))
    IN  IF from >= to THEN <<0, 0>> ELSE <<from, to>>
Quote(from, to) == {Live[i].id : i \in (from + 1)..to}

useEditorSelection == {s \in (0..Len(Live)) \X (0..Len(Live)) : s[1] < s[2]}
Passage(from, to) ==
    LET at == encodeAnchor(from, to)
    IN  [doc |-> "main", start |-> at.start, end |-> at.end, quote |-> Quote(from, to)]

(* An insertion goes after the deleted characters at its place.            *)
Insert(at) ==
    LET p == IF at = Len(Live) THEN Len(ydoc) ELSE Place(Live[at + 1].id) - 1
    IN  ydoc' = InsertAt(ydoc, p + 1, [id |-> Len(ydoc) + 1, gone |-> FALSE])
Erase(i) == ydoc' = [ydoc EXCEPT ![Place(Live[i].id)].gone = TRUE]

-----------------------------------------------------------------------------
(* The rows of the panel.                                                  *)

Present(list) == {n \in DOMAIN list : \E m \in DOMAIN list[n].msgs : ~list[n].msgs[m].gone}
matchesStatus(thread, filter) ==
    CASE filter = "open" -> ~thread.resolved
      [] filter = "resolved" -> thread.resolved
      [] filter = "all" -> TRUE
orderThreads(list, view) ==
    {n \in Present(list) : /\ matchesStatus(list[n], view.filter)
                           /\ view.scope = "all" \/ list[n].doc = view.doc}
ReplyShown(list, view) ==
    IF ~view.open THEN {} ELSE {n \in orderThreads(list, view) : ~list[n].resolved}

(* The threads whose passages are marked in the open document, and where.  *)
commentMarks(list, view) == {n \in Present(list) : list[n].doc = view.doc /\ ~list[n].resolved}
useThreadRanges(list) ==
    [n \in {i \in Present(list) : list[i].doc = "main"} |-> resolveAnchor(list[n])]
buildDecorations(range) == {Live[i].id : i \in (range[1] + 1)..range[2]}

(* A box no longer shown goes, with the text in it.                        *)
PanelBody(list, view, passage) ==
    LET shown == ReplyShown(list, view)
                     \cup (IF view.open /\ passage # NoDraft THEN {Composer} ELSE {})
    IN  /\ review' = view /\ draft' = passage
        /\ boxes' = [b \in DOMAIN boxes |-> IF b \in shown THEN boxes[b] ELSE 0]
        /\ thrown' = thrown \cup ({boxes[b] : b \in DOMAIN boxes \ shown} \ {0})
        /\ editing' = IF view.open /\ editing.thread \in orderThreads(list, view) THEN editing ELSE NoEdit
CommentsPanel(view, passage) == PanelBody(comments.list, view, passage) /\ UNCHANGED comments

-----------------------------------------------------------------------------
(* The list.                                                               *)

(* A fetch under way is given up for the new one; a first fetch goes on.   *)
refreshComments ==
    /\ overlooked' = (overlooked \/ (~comments.loaded /\ comments.fetch = "read"))
    /\ comments' = IF comments.loaded \/ comments.fetch = "none"
                   THEN [comments EXCEPT !.fetch = "asked"] ELSE comments

fetchThreads ==
    /\ comments.fetch = "asked"
    /\ comments' = [comments EXCEPT !.fetch = "read", !.got = threads]
    /\ UNCHANGED <<eventVars, ydoc, threads, panelVars, writes, commentLeft, typed, thrown, overlooked>>

(* The link from the bell opens its thread once it is in the list.         *)
LinkReady(list) == review.link \in Present(list)
selectThread(n, list, view) ==
    [view EXCEPT !.selected = n,
                 !.doc = IF list[n].doc # view.doc /\ view.tree THEN list[n].doc ELSE view.doc]
Linked(list) ==
    IF LinkReady(list)
    THEN [selectThread(review.link, list, review) EXCEPT !.open = TRUE, !.link = 0] ELSE review

useCommentThreads ==
    /\ comments.fetch = "read"
    /\ comments' = [loaded |-> TRUE, list |-> comments.got, fetch |-> "none", got |-> << >>]
    /\ PanelBody(comments.got, Linked(comments.got), draft)
    /\ UNCHANGED <<eventVars, ydoc, threads, writes, commentLeft, typed, overlooked>>

CommentDelivered ==
    /\ deliver /\ refreshComments
    /\ UNCHANGED <<ydoc, threads, panelVars, writes, commentLeft, typed, thrown>>
CommentPublished ==
    /\ \E event \in outbox :
        \/ publish_project_event(event) /\ UNCHANGED <<overlooked, commentLeft>>
        \/ _publish_quietly(event) /\ CommentSpend("faults") /\ overlooked' = TRUE
    /\ UNCHANGED <<ydoc, threads, comments, panelVars, writes, typed, thrown>>
CommentBreaks ==
    /\ streamError /\ CommentSpend("breaks")
    /\ UNCHANGED <<ydoc, threads, comments, panelVars, writes, typed, thrown, overlooked>>
CommentConnects == (project_events_stream \/ scheduleReconnect) /\ UNCHANGED commentVars
TreeArrives ==
    /\ ~review.tree /\ review' = [review EXCEPT !.tree = TRUE]
    /\ UNCHANGED <<eventVars, ydoc, threads, comments, draft, boxes, editing, writes, commentLeft,
                   typed, thrown, overlooked>>
useMentionMembers ==
    /\ review.open /\ ~review.members /\ review' = [review EXCEPT !.members = TRUE]
    /\ UNCHANGED <<eventVars, ydoc, threads, comments, draft, boxes, editing, writes, commentLeft,
                   typed, thrown, overlooked>>

-----------------------------------------------------------------------------
(* The server's writes.                                                    *)

Message(mine, text, names) ==
    [mine |-> mine, text |-> text, names |-> names, mentions |-> names, gone |-> FALSE]
Emit(type) == schedule_project_event(Event(type, 0))
Thread(passage, message) ==
    [doc |-> passage.doc, start |-> passage.start, end |-> passage.end, quote |-> passage.quote,
     resolved |-> FALSE, msgs |-> <<message>>]
create_thread(passage, message) ==
    /\ threads' = Append(threads, Thread(passage, message))
    /\ Emit("comment.thread_created")
add_reply(n, message) ==
    /\ threads' = [threads EXCEPT ![n].msgs = Append(@, message)] /\ Emit("comment.message_created")
edit_message(n, m, mentions) ==
    /\ threads' = [threads EXCEPT ![n].msgs[m].mentions = mentions] /\ Emit("comment.message_updated")
(* The last live message takes the thread with it: see Present.            *)
delete_comment(n, m) ==
    threads' = [threads EXCEPT ![n].msgs[m].gone = TRUE] /\ Emit("comment.message_deleted")
set_resolved(n, resolved) ==
    IF threads[n].resolved = resolved THEN UNCHANGED <<threads, outbox>>
    ELSE /\ threads' = [threads EXCEPT ![n].resolved = resolved]
         /\ Emit(IF resolved THEN "comment.thread_resolved" ELSE "comment.thread_reopened")

Pending(kind, n) == \E w \in writes : w.kind = kind /\ w.thread = n
Room == Len(threads) + (IF Pending("create", Composer) THEN 1 ELSE 0) < MaxThreads
LiveMessage(n, m) == n \in Present(threads) /\ ~threads[n].msgs[m].gone
OthersComment ==
    /\ CommentSpend("others")
    /\ \/ \E from, to \in 0..Len(Live) :
            from < to /\ Room /\ create_thread(Passage(from, to), Message(FALSE, 0, {}))
       \/ \E n \in Present(threads) :
            \/ set_resolved(n, ~threads[n].resolved)
            \/ add_reply(n, Message(FALSE, 0, {}))
            \/ \E m \in DOMAIN threads[n].msgs :
                 LiveMessage(n, m) /\ ~threads[n].msgs[m].mine /\ delete_comment(n, m)
    /\ UNCHANGED <<stream, ydoc, comments, panelVars, writes, typed, thrown, overlooked>>
OthersType ==
    /\ CommentSpend("typing")
    /\ (\E at \in 0..Len(Live) : Insert(at)) \/ (\E i \in 1..Len(Live) : Erase(i))
    /\ UNCHANGED <<eventVars, threads, comments, panelVars, writes, typed, thrown, overlooked>>

(* A mutation reaches the server, or it does not; what it is about may be  *)
(* gone by then.                                                           *)
Taken(w) ==
    CASE w.kind = "create" -> create_thread(w.passage, Message(TRUE, w.text, w.names))
      [] w.kind = "reply" -> w.thread \in Present(threads)
                                 /\ add_reply(w.thread, Message(TRUE, w.text, w.names))
      [] w.kind = "edit" -> LiveMessage(w.thread, w.msg) /\ edit_message(w.thread, w.msg, w.names)
      [] w.kind = "remove" -> LiveMessage(w.thread, w.msg) /\ delete_comment(w.thread, w.msg)
      [] w.kind = "resolve" -> w.thread \in Present(threads) /\ set_resolved(w.thread, w.to)
Refused(w) == w.kind # "create" /\ w.thread \notin Present(threads)
CommentRequest ==
    /\ \E w \in writes :
        /\ w.at = "asked"
        /\ \/ Taken(w) /\ writes' = (writes \ {w}) \cup {[w EXCEPT !.at = "done"]} /\ UNCHANGED commentLeft
           \/ /\ (IF Refused(w) THEN UNCHANGED commentLeft ELSE CommentSpend("faults"))
              /\ writes' = (writes \ {w}) \cup {[w EXCEPT !.at = "failed"]}
              /\ UNCHANGED <<threads, outbox>>
    /\ UNCHANGED <<stream, ydoc, comments, panelVars, typed, thrown, overlooked>>

-----------------------------------------------------------------------------
(* The user.                                                               *)

startDraft ==
    /\ review.doc = "main" /\ CommentSpend("drafts")
    /\ \E s \in useEditorSelection : CommentsPanel([review EXCEPT !.open = TRUE], Passage(s[1], s[2]))
    /\ UNCHANGED <<eventVars, ydoc, threads, writes, typed, overlooked>>
WriteIn(box) ==
    /\ boxes[box] = 0 /\ typed' = typed + 1 /\ boxes' = [boxes EXCEPT ![box] = typed + 1]
    /\ UNCHANGED <<eventVars, ydoc, threads, comments, review, draft, editing, writes, thrown, overlooked>>
CommentComposer == review.open /\ draft # NoDraft /\ WriteIn(Composer) /\ UNCHANGED commentLeft
ReplyBox == \E n \in ReplyShown(comments.list, review) : CommentSpend("replies") /\ WriteIn(n)

Write(kind, n) == [kind |-> kind, thread |-> n, msg |-> 0, text |-> 0, names |-> {}, to |-> FALSE,
                   passage |-> NoDraft, known |-> TRUE, at |-> "asked"]
Mutate(w) ==
    /\ writes' = writes \cup {w}
    /\ UNCHANGED <<eventVars, ydoc, threads, comments, review, draft, typed, thrown, overlooked>>
DropsText(box) == [boxes EXCEPT ![box] = 0]
KeepsText(box) == boxes
(* Whom the menu lets the user name.                                       *)
MentionTextarea == IF review.members THEN SUBSET Name ELSE {{}}
mentionIds(body, picked) == body \cap picked
onCreate ==
    /\ draft # NoDraft /\ boxes[Composer] # 0 /\ ~Pending("create", Composer)
    /\ CommentSpend("presses") /\ Room
    /\ \E picked \in MentionTextarea :
        Mutate([Write("create", Composer) EXCEPT !.text = boxes[Composer], !.passage = draft,
                    !.names = picked])
    /\ boxes' = KeepsText(Composer) /\ UNCHANGED editing
(* The button waits for the last answer; Ctrl+Enter does not.              *)
sendReply ==
    /\ \E n \in ReplyShown(comments.list, review) :
        /\ boxes[n] # 0 /\ CommentSpend("presses")
        /\ Mutate([Write("reply", n) EXCEPT !.text = boxes[n]]) /\ boxes' = KeepsText(n)
    /\ UNCHANGED editing
(* More is typed while the last text is on its way.                        *)
TypeOver ==
    /\ \E w \in writes :
        /\ w.kind \in {"create", "reply"} /\ boxes[w.thread] = w.text /\ CommentSpend("replies")
        /\ typed' = typed + 1 /\ boxes' = [boxes EXCEPT ![w.thread] = typed + 1]
        /\ thrown' = thrown \cup {w.text}
    /\ UNCHANGED <<eventVars, ydoc, threads, comments, review, draft, editing, writes, overlooked>>

Own(n, m) == LET msg == comments.list[n].msgs[m] IN msg.mine /\ ~msg.gone
PickedAgain(msg) == msg.mentions \cap (IF review.members THEN Name ELSE {})
MessageEditor ==
    /\ review.open /\ editing = NoEdit /\ CommentSpend("edits")
    /\ \E n \in orderThreads(comments.list, review) : \E m \in DOMAIN comments.list[n].msgs :
        /\ Own(n, m)
        /\ editing' = [thread |-> n, msg |-> m, picked |-> PickedAgain(comments.list[n].msgs[m]),
                       known |-> review.members /\ comments.fetch = "none"]
    /\ UNCHANGED <<eventVars, ydoc, threads, comments, review, draft, boxes, writes, typed, thrown,
                   overlooked>>
(* Saved as it is: the names are still in its text.                        *)
SaveEdit ==
    /\ editing # NoEdit /\ ~Pending("edit", editing.thread)
    /\ LET msg == comments.list[editing.thread].msgs[editing.msg]
       IN  Mutate([Write("edit", editing.thread) EXCEPT !.msg = editing.msg,
                       !.known = editing.known, !.names = mentionIds(msg.names, editing.picked)])
    /\ UNCHANGED <<boxes, editing, commentLeft>>
MessageItem ==
    /\ review.open /\ CommentSpend("removes")
    /\ \E n \in orderThreads(comments.list, review) : \E m \in DOMAIN comments.list[n].msgs :
        Own(n, m) /\ ~Pending("remove", n) /\ Mutate([Write("remove", n) EXCEPT !.msg = m])
    /\ UNCHANGED <<boxes, editing>>
ThreadView ==
    /\ review.open /\ CommentSpend("presses")
    /\ \E n \in orderThreads(comments.list, review) :
        ~Pending("resolve", n)
            /\ Mutate([Write("resolve", n) EXCEPT !.to = ~comments.list[n].resolved])
    /\ UNCHANGED <<boxes, editing>>
Views ==
    {[review EXCEPT !.open = ~@], [review EXCEPT !.filter = "all"], [review EXCEPT !.filter = "resolved"],
     [review EXCEPT !.scope = "all"]}
        \cup {selectThread(n, comments.list, review) :
                 n \in commentMarks(comments.list, review)
                         \cup (IF review.open THEN orderThreads(comments.list, review) ELSE {})}
useCommentState ==
    /\ CommentSpend("views") /\ \E view \in Views : CommentsPanel(view, draft)
    /\ UNCHANGED <<eventVars, ydoc, threads, writes, typed, overlooked>>
onDraftCancel ==
    /\ draft # NoDraft /\ CommentSpend("views") /\ CommentsPanel(review, NoDraft)
    /\ UNCHANGED <<eventVars, ydoc, threads, writes, typed, overlooked>>

(* The answer of a mutation: on success the list is fetched anew and the   *)
(* box, whatever is in it now, is emptied.                                 *)
Emptied(w) == IF w.thread \in DOMAIN boxes THEN [boxes EXCEPT ![w.thread] = 0] ELSE boxes
useCommentMutations ==
    /\ \E w \in writes :
        /\ w.at # "asked" /\ writes' = writes \ {w}
        /\ IF w.at = "failed" THEN UNCHANGED <<comments, panelVars, thrown, overlooked>>
           ELSE /\ refreshComments
                /\ IF w.kind \in {"create", "reply"}
                   THEN /\ boxes' = Emptied(w)
                        /\ thrown' = thrown \cup ({boxes[w.thread]} \ {0, w.text})
                   ELSE UNCHANGED <<boxes, thrown>>
                /\ draft' = IF w.kind = "create" THEN NoDraft ELSE draft
                /\ editing' = IF w.kind = "edit" THEN NoEdit ELSE editing
                /\ UNCHANGED review
    /\ UNCHANGED <<eventVars, ydoc, threads, commentLeft, typed>>

CommentStep ==
    \/ fetchThreads \/ useCommentThreads \/ CommentDelivered \/ CommentPublished \/ CommentConnects
    \/ CommentRequest \/ useCommentMutations \/ useMentionMembers \/ TreeArrives
commentNext ==
    \/ CommentStep \/ CommentBreaks \/ OthersComment \/ OthersType \/ startDraft \/ CommentComposer
    \/ ReplyBox \/ onCreate \/ sendReply \/ TypeOver \/ MessageEditor \/ SaveEdit \/ MessageItem
    \/ ThreadView \/ useCommentState \/ onDraftCancel

(* Two threads, one by the user on the open document and one of another    *)
(* member on another; the page was opened by a link, or all has arrived.   *)
commentInit ==
    /\ commentLeft \in CommentStories
    /\ ydoc = [i \in 1..TextLength |-> [id |-> i, gone |-> FALSE]]
    /\ threads =
         <<Thread(Passage(0, 1), Message(TRUE, 0, Name)),
           Thread([NoDraft EXCEPT !.doc = "other"], Message(FALSE, 0, {}))>>
    /\ outbox = {}
    /\ LET settled == commentLeft.link = 0
       IN  /\ stream = Closed(IF settled THEN "open" ELSE "connecting")
           /\ comments = [loaded |-> settled, list |-> IF settled THEN threads ELSE << >>,
                          fetch |-> IF settled THEN "none" ELSE "asked", got |-> << >>]
           /\ review = [open |-> settled, doc |-> "main", selected |-> 0, filter |-> "open",
                        scope |-> "file", link |-> commentLeft.link, tree |-> settled,
                        members |-> FALSE]
    /\ draft = NoDraft /\ boxes = [b \in 0..MaxThreads |-> 0] /\ editing = NoEdit /\ writes = {}
    /\ typed = 0 /\ thrown = {} /\ overlooked = FALSE

commentSpec == commentInit /\ [][commentNext]_<<eventVars, commentVars>>

-----------------------------------------------------------------------------
commentTypeOK ==
    /\ Len(threads) <= MaxThreads /\ comments.fetch \in {"none", "asked", "read"}
    /\ \A b \in DOMAIN boxes : boxes[b] \in 0..typed
    /\ \A n \in DOMAIN boxes \ {Composer} :
         boxes[n] # 0 => n \in Present(comments.list) /\ ~comments.list[n].resolved
    /\ editing # NoEdit => editing.thread \in Present(comments.list)

(* The list is the server's when nothing is under way, after any           *)
(* reconnection and however writes and events cross (use-comments.ts).     *)
ListConverges ==
    ChannelQuiet /\ comments.loaded /\ comments.fetch = "none" /\ writes = {} /\ ~overlooked
        => comments.list = threads

(* A highlight is on the text it was put on: all of it that is left, and   *)
(* nothing but what was typed inside it; when all is deleted the thread is *)
(* detached and never jumps elsewhere (anchors.ts, comment-marks.ts).      *)
QuoteHighlighted ==
    LET ranges == useThreadRanges(comments.list)
    IN  \A n \in DOMAIN ranges :
            LET quote == comments.list[n].quote
                marked == buildDecorations(ranges[n])
            IN  /\ quote \cap {c.id : c \in ToSet(Live)} \subseteq marked
                /\ \A id \in marked : \E first, last \in quote :
                       Place(first) <= Place(id) /\ Place(id) <= Place(last)

(* Saving an edit that leaves a name in the text keeps its mention, once   *)
(* the members were known when the editor opened, and no fetch of the list *)
(* was under way (MessageEditor).                                          *)
MentionsKept ==
    [][\A w \in writes : w.kind = "edit" /\ w.at = "asked" /\ w.known /\ w \notin writes' =>
           \A n \in DOMAIN threads : \A m \in DOMAIN threads[n].msgs :
               threads[n].msgs[m].mentions \subseteq threads'[n].msgs[m].mentions]_commentVars

(* No text typed is lost: it is in its box until the server has it, unless *)
(* the box was emptied under it (use-comments.ts, thread.tsx).             *)
NothingTypedLost ==
    \A text \in 1..typed :
        \/ text \in thrown \/ \E b \in DOMAIN boxes : boxes[b] = text
        \/ \E w \in writes : w.text = text /\ w.at # "failed"
        \/ \E n \in DOMAIN threads : \E m \in DOMAIN threads[n].msgs : threads[n].msgs[m].text = text

(* Resolve resolves and Reopen reopens, though another member pressed      *)
(* first: a press never undoes what its button said (setThreadResolved).   *)
PressHolds ==
    [][\A w \in writes : w.kind = "resolve" /\ w.at = "asked" /\ w \notin writes' =>
           \/ threads'[w.thread].resolved = w.to \/ threads'[w.thread] = threads[w.thread]]_commentVars

(* At any time the panel shows the threads as they are and holds what was  *)
(* typed, an edit keeps the mentions of the names it leaves in, and a      *)
(* press does what its button said or nothing.                             *)
CommentsKept ==
    /\ [](commentTypeOK /\ ListConverges /\ QuoteHighlighted /\ NothingTypedLost)
    /\ MentionsKept /\ PressHolds

(* The bell's link to a thread waits.  That must come to an end with the   *)
(* panel open on the thread (useCommentEffects).                           *)
LinkWaits == review.link \in Present(threads) \ {0} /\ ~overlooked
=============================================================================
