----------------------------- MODULE MCWorkspace -----------------------------
(* The agent's panel, the project chat, the comment threads and the file    *)
(* tree share only the channel of project events, so one run takes them one *)
(* at a time: `focus' is the panel a behaviour is about, the others stay as *)
(* they begin.                                                              *)
(* The agent's stories: two sessions that the user switches between, two    *)
(* runs in one session, one run that proposes a file operation, and two     *)
(* messages typed or dictated.                                              *)
EXTENDS AgentChat, ProjectChat, CommentThreads, FileTree

MCScripts ==
    {[about |-> "switch", sends |-> 2, body |-> 1, kinds |-> {"token"}, faults |-> {}],
     [about |-> "run", sends |-> 2, body |-> 1, kinds |-> {"token"}, faults |-> {"lost", "error"}],
     [about |-> "op", sends |-> 1, body |-> 3, faults |-> {"too long", "lost", "error"},
      kinds |-> {"token", "tool_call", "tool_result", "file_op_proposed"}],
     [about |-> "box", sends |-> 2, body |-> 0, kinds |-> {}, faults |-> {"too long"}]}

Tale(settled, mine, others, deletes, turns, olders, breaks, faults) ==
    [settled |-> settled, sends |-> mine, others |-> others, deletes |-> deletes, turns |-> turns,
     olders |-> olders, breaks |-> breaks, faults |-> faults]
MCChatStories ==
    {Tale(FALSE, 0, 1, 0, 0, 0, 0, 0), Tale(FALSE, 1, 0, 0, 1, 0, 0, 0), Tale(TRUE, 0, 2, 0, 0, 0, 1, 0),
     Tale(TRUE, 2, 0, 0, 0, 0, 0, 1), Tale(TRUE, 1, 0, 1, 0, 0, 0, 0), Tale(TRUE, 1, 0, 0, 0, 1, 0, 0),
     Tale(TRUE, 0, 1, 0, 1, 2, 1, 0)}

Unused == [drafts |-> 0, replies |-> 0, edits |-> 0, removes |-> 0, presses |-> 0, views |-> 0,
         others |-> 0, typing |-> 0, breaks |-> 0, faults |-> 0, link |-> 0]
MCCommentStories ==
    {[Unused EXCEPT !.link = 1, !.others = 1],
     [Unused EXCEPT !.link = 2, !.views = 1],
     [Unused EXCEPT !.typing = 3],
     [Unused EXCEPT !.drafts = 1, !.typing = 1, !.presses = 1],
     [Unused EXCEPT !.drafts = 2, !.presses = 1],
     [Unused EXCEPT !.drafts = 1, !.presses = 1, !.faults = 1, !.views = 1],
     [Unused EXCEPT !.replies = 2, !.presses = 2],
     [Unused EXCEPT !.replies = 2, !.presses = 1, !.faults = 1],
     [Unused EXCEPT !.replies = 1, !.presses = 1, !.others = 1],
     [Unused EXCEPT !.replies = 1, !.views = 1, !.others = 1],
     [Unused EXCEPT !.edits = 1, !.others = 1],
     [Unused EXCEPT !.edits = 3], [Unused EXCEPT !.edits = 2, !.faults = 1],
     [Unused EXCEPT !.edits = 1, !.removes = 1],
     [Unused EXCEPT !.presses = 1, !.others = 1, !.breaks = 1]}

(* The file tree.                                                           *)
R(parent, name, kind) == [parent |-> parent, name |-> name, kind |-> kind]
MCFirstTree == ("root" :> R("none", 0, "folder")) @@ ("A" :> R("root", 1, "folder"))
               @@ ("B" :> R("root", 2, "folder")) @@ ("d" :> R("A", 3, "doc")) @@ ("f" :> R("B", 2, "file"))
Plain == [may |-> {}, own |-> 0, looks |-> 0, theirs |-> {}, others |-> 0, faults |-> 0, readOnly |-> FALSE]
MCFileStories ==
    {[Plain EXCEPT !.may = {"look"}, !.looks = 4],
     [Plain EXCEPT !.may = {"look", "rename"}, !.looks = 3, !.own = 2, !.faults = 1],
     [Plain EXCEPT !.may = {"rename"}, !.looks = 3, !.own = 1, !.theirs = {"rename"}, !.others = 1],
     [Plain EXCEPT !.may = {"rename", "select"}, !.looks = 2, !.own = 1, !.theirs = {"move"}, !.others = 1],
     [Plain EXCEPT !.may = {"rename", "delete"}, !.looks = 3, !.own = 2],
     [Plain EXCEPT !.may = {"create", "select"}, !.looks = 2, !.own = 1, !.faults = 1],
     [Plain EXCEPT !.may = {"create", "delete"}, !.looks = 2, !.own = 2],
     [Plain EXCEPT !.may = {"move"}, !.looks = 2, !.own = 2, !.faults = 1],
     [Plain EXCEPT !.may = {"move"}, !.looks = 1, !.own = 1, !.theirs = {"move"}, !.others = 1],
     [Plain EXCEPT !.may = {"delete"}, !.looks = 2, !.own = 2, !.faults = 1],
     [Plain EXCEPT !.may = {"delete"}, !.looks = 1, !.own = 1, !.theirs = {"upload"}, !.others = 1],
     [Plain EXCEPT !.may = {"delete"}, !.looks = 1, !.own = 1, !.theirs = {"move"}, !.others = 1],
     [Plain EXCEPT !.may = {"upload"}, !.looks = 1, !.own = 1, !.faults = 1],
     [Plain EXCEPT !.may = Gestures, !.looks = 3, !.own = 1, !.readOnly = TRUE],
     [Plain EXCEPT !.theirs = {"move"}, !.others = 2]}

VARIABLE focus
agentVars == vars
allVars == <<agentVars, eventVars, chatVars, commentVars, fileVars, focus>>

WorkspaceInit ==
    /\ Init /\ chatInit /\ commentInit /\ fileInit
    /\ focus \in {"agent", "chat", "comments", "file"}
    /\ focus # "agent" => /\ script = CHOOSE s \in Scripts : TRUE
                         /\ voice = Quiet
    /\ focus # "chat" =>
           chatLeft = CHOOSE t \in ChatStories : t.settled = (commentLeft.link = 0)
    /\ focus # "comments" =>
           commentLeft = CHOOSE t \in CommentStories : (t.link = 0) = chatLeft.settled
    /\ focus \in {"agent", "file"} => chatLeft.settled
    /\ focus # "file" => fileLeft = CHOOSE t \in FileStories : TRUE
Agent(A) == focus = "agent" /\ A /\ UNCHANGED <<eventVars, chatVars, commentVars, fileVars, focus>>
Chat(A) == focus = "chat" /\ A /\ UNCHANGED <<agentVars, commentVars, fileVars, focus>>
Comments(A) == focus = "comments" /\ A /\ UNCHANGED <<agentVars, chatVars, fileVars, focus>>
Tree(A) == focus = "file" /\ A /\ UNCHANGED <<agentVars, eventVars, chatVars, commentVars, focus>>
WorkspaceNext == Agent(Next) \/ Chat(chatNext) \/ Comments(commentNext) \/ Tree(fileNext)

WorkspaceSpec ==
    /\ WorkspaceInit /\ [][WorkspaceNext]_allVars
    /\ WF_allVars(Agent(Serve)) /\ WF_allVars(Agent(Work)) /\ WF_allVars(Agent(Answer)) /\ WF_allVars(Agent(Stream))
    /\ WF_allVars(Chat(ChatStep)) /\ WF_allVars(Comments(CommentStep)) /\ WF_allVars(Tree(FileStep))

(* Whatever a panel waits for comes to an end: a run of the agent, a        *)
(* message that is not shown yet, a link to a thread, a change of the tree  *)
(* (the definitions say which code each is about).                          *)
Waiting ==
    CASE focus = "agent" -> RunShown [] focus = "chat" -> MessageUnseen [] focus = "comments" -> LinkWaits
      [] focus = "file" -> TreeOpen
PanelsSettle == Waiting ~> ~Waiting

(* Each panel shows what the server has, however answers and events cross:  *)
(* a transcript of its own session, with the cards the runs' decisions; the *)
(* tree, with the selection and the rows that can be reached in it.  (Of    *)
(* the chat and the threads DiscussionKept says so.)                        *)
PanelsTrue ==
    /\ TypeOK /\ chatTypeOK /\ fileTypeOK
    /\ OwnTranscript /\ OtherwiseReleased /\ CardsTrue
    /\ TreeConverges /\ SelectionTrue /\ BlobsMatch /\ RowInReach

(* The chat shows the conversation, each message once and the user's own at *)
(* all times, and the badge counts what is unread, however events, answers, *)
(* pages and reconnections cross (use-chat.ts, use-chat-unread.ts); of the  *)
(* threads CommentsKept says what it does.                                  *)
ChatTrue == ChatConverges /\ OnceEach /\ OwnMessageShown /\ BadgeTrue
DiscussionKept == CommentsKept /\ []ChatTrue

(* What the user wrote, picked or pressed is done once or is still there to *)
(* see: drafts, uploads, names; and a panel sends                           *)
(* nothing that its user did not ask for.                                   *)
InputKept ==
    /\ [](DraftKept /\ UploadsTold /\ ViewerSendsNothing)
    /\ RenamesTyped
=============================================================================
