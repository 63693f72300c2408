----------------------------- MODULE AgentChat -----------------------------
(***************************************************************************)
(* The assistant's panel in one browser: sessions, runs and the stream of  *)
(* a run's events (useAgentChat, useRunActions, useRunStream, reducer),    *)
(* the message box with its dictation (useComposer, useDictation), and the *)
(* cards of proposed file operations.  The server is its post, cancel and  *)
(* events routes and the worker that runs a turn.                          *)
(*                                                                         *)
(* The code writes the answers of requests into whatever run state is      *)
(* current when they arrive.  Some of what follows is then not what one    *)
(* wants: `mishap' records each such occasion, so that a property can say  *)
(* what holds otherwise.                                                   *)
(*   crossed      a send's answer reached the state of another session     *)
(*   dropped      an event was ignored as seen, though another run's       *)
(*   swallowed    a draft was taken from the box and never sent            *)
(*   uncreated    a draft was taken and its session could not be created   *)
(*   overwritten  a refused draft came back over a newer one               *)
(*   orphaned     the stream was closed for a session that never came      *)
(* A transcript's reply is read at the moment it arrives.                  *)
(***************************************************************************)
EXTENDS Integers, Sequences, FiniteSets, SequencesExt

CONSTANTS
    MaxSession,  \* sessions created, at most
    MaxSend,     \* messages sent (and runs started), at most
    MaxBody,     \* events other than the terminal ones, in all, at most
    Scripts      \* what a behaviour is about (switching between sessions, the
                 \* runs of one session, a proposed operation, the message box),
                 \* how many sends, which events its runs have, how
                 \* a request or a run may fail

ASSUME BoundAssumption == {MaxSession, MaxSend, MaxBody} \subseteq Nat \ {0}
ASSUME ScriptAssumption ==
    \A s \in Scripts : /\ s.about \in {"switch", "run", "op", "box"}
                       /\ s.sends \in 1..MaxSend /\ s.body \in 0..MaxBody
                       /\ s.kinds \subseteq
                              {"token", "tool_call", "tool_result", "file_op_proposed"}
                       /\ s.faults \subseteq {"too long", "lost", "error"}

VARIABLES
    sessions,  \* sessions created on the server: 1..sessions
    runs,      \* the server's runs, in the order they started
    ops,       \* the server's status of the operation each run proposed
    active,    \* activeSessionId, 0 for null
    run,       \* AgentRunState
    es,        \* the EventSource: the run it is for (0: none), where it stands
    sends,     \* the calls of send(), each with how far it got
    fresh,     \* newChat() awaits its session
    loads,     \* sessions whose transcript is awaited
    card,      \* the decision state of each run's file operation card
    box,       \* the pieces of text in the message box
    pieces,    \* pieces put in the box so far
    gone,      \* pieces Escape dropped
    voice,     \* the dictation
    mishap,    \* history, see above
    script

agentServer == <<sessions, runs, ops>>
chat == <<active, run, es, sends, fresh, loads>>
composer == <<box, pieces, gone, voice>>
vars == <<agentServer, chat, card, composer, mishap, script>>

Session == 1..MaxSession
Run == 1..MaxSend
Active == {"starting", "streaming", "stopping"}
Body == {"token", "tool_call", "tool_result", "file_op_proposed"}
Terminal == {"done", "cancelled", "error"}

initialRunState(s) ==
    [sid |-> s, rid |-> 0, phase |-> "idle", items |-> << >>, seen |-> {}]
NoStream == [rid |-> 0, linked |-> FALSE, next |-> 0]
Quiet == [state |-> "idle", starting |-> FALSE, heard |-> FALSE, atStart |-> {},
          sendAfter |-> FALSE, open |-> TRUE]

Init ==
    /\ sessions = 0 /\ runs = << >> /\ ops = [r \in Run |-> "none"]
    /\ active = 0 /\ run = initialRunState(0) /\ es = NoStream
    /\ sends = << >> /\ fresh = FALSE /\ loads = {}
    /\ card = [r \in Run |-> [status |-> "proposed", busy |-> FALSE]]
    /\ box = {} /\ pieces = 0 /\ gone = {}
    /\ script \in Scripts
    /\ voice \in {Quiet, [Quiet EXCEPT !.sendAfter = (script.about = "box")]}
    /\ mishap = {}

-----------------------------------------------------------------------------
(* The reducer.  An item is what it shows, the run (for a user's message   *)
(* the send) it comes from, and its status.                                *)

TranscriptItem(kind, of, status) == [kind |-> kind, of |-> of, status |-> status]
User(n) == TranscriptItem("user", n, "complete")

openAssistant(items) ==
    LET at == {i \in DOMAIN items :
                   items[i].kind = "assistant" /\ items[i].status = "streaming"}
    IN  IF at = {} THEN 0 ELSE CHOOSE i \in at : \A j \in at : j <= i

\* The open assistant message gets this status, if there is one.
closeAssistant(items, status) ==
    LET i == openAssistant(items)
    IN  IF i = 0 THEN items ELSE [items EXCEPT ![i].status = status]

applyToken(st, e) ==
    [st EXCEPT !.phase = "streaming",
               !.items = IF openAssistant(@) # 0 THEN @
                         ELSE Append(@, TranscriptItem("assistant", e.of, "streaming"))]

applyToolCall(st, e) ==
    [st EXCEPT !.phase = "streaming",
               !.items = Append(closeAssistant(@, "complete"), TranscriptItem("tool", e.of, "running"))]

applyToolResult(st, e) ==
    [st EXCEPT !.items = [i \in DOMAIN @ |->
         IF @[i].kind = "tool" /\ @[i].of = e.of THEN [@[i] EXCEPT !.status = "ok"] ELSE @[i]]]

applyFileOpProposed(st, e) ==
    [st EXCEPT !.items = Append(@, TranscriptItem("file-op", e.of, "proposed"))]

applyDone(st, e) ==
    [st EXCEPT !.phase = "done",
               !.items = IF openAssistant(@) # 0 THEN closeAssistant(@, "complete")
                         ELSE Append(@, TranscriptItem("assistant", e.of, "complete"))]

applyCancelled(st, e) ==
    [st EXCEPT !.phase = "cancelled",
               !.items = IF openAssistant(@) # 0 THEN closeAssistant(@, "cancelled")
                         ELSE Append(@, TranscriptItem("assistant", e.of, "cancelled"))]

\* Retrying is offered for failures, not for refusals.
applyError(st, e) ==
    [st EXCEPT !.phase = "error",
               !.items = Append(@, TranscriptItem("error", e.of, IF e.type = "error" THEN "retryable"
                                                       ELSE "final"))]

NoSeq == -1
Seen(st, e) == e.seq # NoSeq /\ e.seq \in st.seen

\* An event made up in the browser has no number and is not remembered.
RememberedAll(e) == {e.seq}
Remembered(e) == {e.seq} \ {NoSeq}

applyEvent(state, e) ==
    LET st == [state EXCEPT !.seen = @ \cup Remembered(e)]
    IN  CASE Seen(state, e)               -> state
          [] e.type = "token"             -> applyToken(st, e)
          [] e.type = "tool_call"         -> applyToolCall(st, e)
          [] e.type = "tool_result"       -> applyToolResult(st, e)
          [] e.type = "file_op_proposed"  -> applyFileOpProposed(st, e)
          [] e.type = "done"              -> applyDone(st, e)
          [] e.type = "cancelled"         -> applyCancelled(st, e)
          [] OTHER                        -> applyError(st, e)

\* A stored transcript: the messages of the runs that were committed, a tool
\* call with no stored result still "running", then the proposed operations.
Kept(s) == SelectSeq([r \in 1..Len(runs) |-> r],
                     LAMBDA r : runs[r].sid = s /\ runs[r].state = "committed")
historyToItems(s) ==
    LET Has(r, type) == \E i \in DOMAIN runs[r].log : runs[r].log[i] = type
        When(cond, item) == IF cond THEN <<item>> ELSE << >>
        Messages(r) ==
            <<User(runs[r].send)>>
            \o When(Has(r, "tool_call"),
                    TranscriptItem("tool", r, IF Has(r, "tool_result") THEN "ok" ELSE "running"))
            \o When(Has(r, "token"), TranscriptItem("assistant", r, "complete"))
        kept == Kept(s)
    IN  FlattenSeq([i \in DOMAIN kept |-> Messages(kept[i])])
        \o FlattenSeq([i \in DOMAIN kept |->
               When(ops[kept[i]] # "none", TranscriptItem("file-op", kept[i], ops[kept[i]]))])

-----------------------------------------------------------------------------
(* The server.                                                             *)

RunOpen(s) == \E r \in DOMAIN runs : runs[r].sid = s /\ runs[r].state # "committed"
                                  /\ runs[r].state # "rolled back"
Published == Cardinality({e \in (DOMAIN runs) \X (1..MaxBody) :
                             e[2] <= Len(runs[e[1]].log) /\ runs[e[1]].log[e[2]] \in Body})
RunOver(r) == \E i \in DOMAIN runs[r].log : runs[r].log[i] \in Terminal

\* post_message: one active run per session, a message not too long.
PostMessage(n) ==
    /\ sends[n].stage = "posting"
    /\ \E answer \in {"started"} \cup (script.faults \ {"error"}) :
           IF answer = "too long"
           THEN sends' = [sends EXCEPT ![n].stage = "too long"] /\ UNCHANGED runs
           ELSE IF RunOpen(sends[n].sid)
           THEN /\ sends' = [sends EXCEPT ![n].stage = "conflict"]
                /\ UNCHANGED runs
           ELSE /\ runs' = Append(runs, [sid |-> sends[n].sid, send |-> n, log |-> << >>,
                                         state |-> "running", cancel |-> FALSE])
                /\ sends' = [sends EXCEPT ![n].rid = Len(runs) + 1,
                                          ![n].stage = IF answer = "lost" THEN "failed"
                                                       ELSE answer]
    /\ UNCHANGED <<sessions, ops, active, run, es, fresh, loads, card, composer, mishap, script>>

\* The worker publishes an event; a proposed operation is announced as the
\* results are persisted, last before the terminal event.
EmitEvent(r) ==
    /\ runs[r].state = "running" /\ ~RunOver(r)
    /\ Published < script.body
    /\ ops[r] = "none"
    /\ \E type \in script.kinds :
           /\ type = "tool_result" => Contains(runs[r].log, "tool_call")
           /\ runs' = [runs EXCEPT ![r].log = Append(@, type)]
           /\ ops' = IF type = "file_op_proposed" THEN [ops EXCEPT ![r] = "proposed"] ELSE ops
    /\ UNCHANGED <<sessions, chat, card, composer, mishap, script>>

\* The terminal event is published before the session is settled.
EmitTerminal(r) ==
    /\ runs[r].state = "running" /\ ~RunOver(r)
    /\ \E type \in IF runs[r].cancel THEN {"done", "cancelled"}
                   ELSE {"done"} \cup (script.faults \cap {"error"}) :
           runs' = [runs EXCEPT ![r].log = Append(@, type)]
    /\ UNCHANGED <<sessions, ops, chat, card, composer, mishap, script>>

\* An error rolls the turn's rows back, anything else commits them.
Settle(r) ==
    /\ runs[r].state = "running" /\ RunOver(r)
    /\ IF Last(runs[r].log) = "error"
       THEN /\ runs' = [runs EXCEPT ![r].state = "rolled back"]
            /\ ops' = [ops EXCEPT ![r] = "none"]
       ELSE runs' = [runs EXCEPT ![r].state = "committed"] /\ UNCHANGED ops
    /\ UNCHANGED <<sessions, chat, card, composer, mishap, script>>

-----------------------------------------------------------------------------
(* Sessions.                                                               *)

closeStream == es' = NoStream
Orphaned == mishap' = mishap \cup IF run.phase \in Active THEN {"orphaned"} ELSE {}

\* createActiveSession, when the new session has come back.
createActiveSession(s) == sessions' = s /\ active' = s

\* selectSession: the stream is closed, the transcript asked for.
CloseForSelection(s) == closeStream
selectSession(s) ==
    /\ script.about = "switch" /\ s \in (1..sessions) \ {active}
    /\ CloseForSelection(s)
    /\ active' = s
    /\ loads' = loads \cup {s}
    /\ UNCHANGED <<agentServer, run, sends, fresh, card, composer, mishap, script>>

\* loadTranscript: the reply replaces the run state, whatever is selected now.
TranscriptArrives(s) ==
    /\ s \in loads
    /\ loads' = loads \ {s}
    /\ \/ run' = [initialRunState(s) EXCEPT !.items = historyToItems(s)] /\ UNCHANGED mishap
       \/ UNCHANGED run /\ Orphaned                     \* the request failed
    /\ UNCHANGED <<agentServer, active, es, sends, fresh, card, composer, script>>

newChat ==
    /\ script.about = "switch" /\ ~fresh /\ sessions < MaxSession
    /\ closeStream
    /\ fresh' = TRUE
    /\ UNCHANGED <<agentServer, active, run, sends, loads, card, composer, mishap, script>>

NewChatArrives ==
    /\ fresh /\ fresh' = FALSE
    /\ \/ /\ sessions < MaxSession
          /\ createActiveSession(sessions + 1)
          /\ run' = initialRunState(sessions + 1)
          /\ UNCHANGED mishap
       \/ UNCHANGED <<sessions, active, run>> /\ Orphaned  \* the request failed
    /\ UNCHANGED <<runs, ops, es, sends, loads, card, composer, script>>

-----------------------------------------------------------------------------
(* Sending.                                                                *)

CanSend == run.phase \notin {"starting", "streaming"} /\ Len(sends) < script.sends

\* The state a send leaves while its request is made: the message at the end.
Starting(st, s, n) ==
    [st EXCEPT !.sid = s, !.phase = "starting", !.items = Append(@, User(n))]

\* send(content): with no session, the first thing is to create one.
sendMessage(content) ==
    LET n == Len(sends) + 1
        first == [sid |-> active, rid |-> 0, text |-> content,
                  stage |-> IF active = 0 THEN "creating" ELSE "posting"]
    IN  /\ CanSend
        /\ sends' = Append(sends, first)
        /\ run' = IF active = 0 THEN run ELSE Starting(run, active, n)
        /\ mishap' = mishap \cup IF active # run.sid \/ fresh \/ loads # {}
                                 THEN {"crossed"} ELSE {}

\* The session a send asked for.
SessionArrives(n) ==
    /\ sends[n].stage = "creating"
    /\ sessions < MaxSession
    /\ createActiveSession(sessions + 1)
    /\ sends' = [sends EXCEPT ![n].sid = sessions + 1, ![n].stage = "posting"]
    /\ run' = Starting(initialRunState(sessions + 1), sessions + 1, n)
    /\ mishap' = mishap \cup IF es.rid # 0 THEN {"crossed"} ELSE {}
    /\ UNCHANGED <<runs, ops, es, fresh, loads, card, composer, script>>

SessionFails(n) ==
    /\ sends[n].stage = "creating"
    /\ sends' = [sends EXCEPT ![n].stage = "over"]
    /\ mishap' = mishap \cup {"uncreated"}
    /\ UNCHANGED <<agentServer, active, run, es, fresh, loads, card, composer, script>>

\* Another session is shown by now, or about to be.
Crossing(n) ==
    IF run.sid # sends[n].sid \/ fresh \/ loads # {} THEN {"crossed"} ELSE {}

\* startRun answered: the run's stream replaces any other.
RunStarted(n) ==
    /\ sends[n].stage = "started"
    /\ sends' = [sends EXCEPT ![n].stage = "over"]
    /\ run' = [run EXCEPT !.rid = sends[n].rid, !.phase = "streaming"]
    /\ es' = [rid |-> sends[n].rid, linked |-> FALSE, next |-> 0]
    /\ mishap' = mishap \cup Crossing(n)
    /\ UNCHANGED <<agentServer, active, fresh, loads, card, composer, script>>

\* sendText's continuation: a refused text goes back into the box.
Restored(n) == sends[n].text

\* startRun failed.  A text too long is taken back from the transcript.
StartFails(n) ==
    /\ sends[n].stage \in {"conflict", "failed", "too long"}
    /\ sends' = [sends EXCEPT ![n].stage = "over"]
    /\ LET refused == sends[n].stage = "too long"
           st == IF refused
                 THEN [run EXCEPT !.items = SelectSeq(@, LAMBDA item : item # User(n))]
                 ELSE run
           type == IF sends[n].stage = "failed" THEN "error" ELSE "refusal"
       IN  /\ run' = applyEvent(st, [type |-> type, seq |-> NoSeq, of |-> sends[n].rid])
           /\ IF refused /\ sends[n].text # {}
              THEN /\ box' = Restored(n)
                   /\ mishap' = mishap \cup Crossing(n)
                                \cup IF box \ Restored(n) # {} THEN {"overwritten"} ELSE {}
              ELSE UNCHANGED box /\ mishap' = mishap \cup Crossing(n)
    /\ UNCHANGED <<agentServer, active, es, fresh, loads, card, pieces, gone, voice, script>>

\* stop: shown as stopping at once; the request asks the worker to stop.  A
\* request that never arrives leaves the run going.
stop ==
    /\ script.about = "run"
    /\ run.phase \in Active /\ run.rid # 0
    /\ run.phase # "stopping"
    /\ run' = [run EXCEPT !.phase = "stopping"]
    /\ \/ runs' = [runs EXCEPT ![run.rid].cancel = TRUE]
       \/ UNCHANGED runs
    /\ UNCHANGED <<sessions, ops, active, es, sends, fresh, loads, card, composer, mishap, script>>

\* A send whose text is not in the box.
SendWithout ==
    /\ sendMessage({})
    /\ UNCHANGED <<agentServer, active, es, fresh, loads, card, composer, script>>

\* The editor asks about a selection or a problem.
EditorRequest == script.about # "op" /\ SendWithout

\* retry, offered beside an error: the last instruction once more.
retryMessage == run.phase = "error" /\ Last(run.items).status = "retryable" /\ SendWithout

-----------------------------------------------------------------------------
(* The stream.                                                             *)

\* The server subscribes: what was published before is missed, except a
\* terminal event, which is kept for late subscribers.
FirstDelivered(r) == IF RunOver(r) THEN Len(runs[r].log) ELSE Len(runs[r].log) + 1

Subscribe ==
    /\ es.rid # 0 /\ ~es.linked
    /\ es' = [es EXCEPT !.linked = TRUE, !.next = FirstDelivered(es.rid)]
    /\ UNCHANGED <<agentServer, active, run, sends, fresh, loads, card, composer, mishap, script>>

\* handle: an event is applied; a terminal one closes the stream.
StreamDelivers ==
    /\ es.linked /\ es.next \in DOMAIN runs[es.rid].log
    /\ LET type == runs[es.rid].log[es.next]
           e == [type |-> type, seq |-> es.next - 1, of |-> es.rid]
       IN  /\ run' = applyEvent(run, e)
           /\ IF type \in Terminal THEN closeStream ELSE es' = [es EXCEPT !.next = @ + 1]
           /\ mishap' = mishap \cup IF Seen(run, e) THEN {"dropped"} ELSE {}
    /\ UNCHANGED <<agentServer, active, sends, fresh, loads, card, composer, script>>

\* onerror: a run that was going on is shown as failed, the stream is closed.
Transport(st) ==
    IF st.phase \in Active
    THEN applyEvent(st, [type |-> "error", seq |-> NoSeq, of |-> es.rid]) ELSE st

StreamBreaks ==
    /\ es.rid # 0 /\ script.about \in {"run", "op"}
    /\ run' = Transport(run)
    /\ closeStream
    /\ UNCHANGED <<agentServer, active, sends, fresh, loads, card, composer, mishap, script>>

-----------------------------------------------------------------------------
(* File operation cards: useFileOpDecision, and the server's apply/reject. *)

Shown(r) == \E i \in DOMAIN run.items : run.items[i].kind = "file-op" /\ run.items[i].of = r

decide(r) ==
    /\ Shown(r) /\ card[r] = [status |-> "proposed", busy |-> FALSE]
    /\ card' = [card EXCEPT ![r].busy = TRUE]
    /\ UNCHANGED <<agentServer, chat, composer, mishap, script>>

\* The server decides an operation once; the card takes the status it returns.
\* An operation announced before its row is committed is not found.
ServerDecidesAny(r) == ops[r] # "none"
ServerDecides(r) == ops[r] = "proposed" /\ runs[r].state = "committed"
Decided(r) ==
    /\ card[r].busy
    /\ \E decision \in {"applied", "rejected"} :
           \/ /\ ServerDecides(r)
              /\ ops' = [ops EXCEPT ![r] = decision]
              /\ card' = [card EXCEPT ![r] = [status |-> decision, busy |-> FALSE]]
           \/ /\ card' = [card EXCEPT ![r].busy = FALSE]        \* refused, or lost
              /\ \/ UNCHANGED ops
                 \/ ServerDecides(r) /\ ops' = [ops EXCEPT ![r] = decision]
    /\ UNCHANGED <<sessions, runs, chat, composer, mishap, script>>

\* The card is unmounted and shown again: its state starts from the item.
Remount(r) ==
    /\ Shown(r) /\ ~card[r].busy
    /\ card' = [card EXCEPT ![r].status =
                   (CHOOSE item \in Range(run.items) :
                        item.kind = "file-op" /\ item.of = r).status]
    /\ UNCHANGED <<agentServer, chat, composer, mishap, script>>

-----------------------------------------------------------------------------
(* The message box and the dictation.                                      *)

Locked == run.phase \in Active
Add == pieces' = pieces + 1 /\ box' = box \cup {pieces + 1}

Type ==
    /\ script.about \in {"op", "box"} /\ ~Locked /\ voice.open /\ pieces < MaxSend
    /\ Add
    /\ UNCHANGED <<agentServer, chat, card, gone, voice, mishap, script>>

\* sendText: the box is emptied first; what send() ignores is not put back.
sendText ==
    /\ box' = {}
    /\ \/ sendMessage(box)
       \/ ~CanSend /\ UNCHANGED <<sends, run>> /\ mishap' = mishap \cup {"swallowed"}

\* cancel(): the recogniser is aborted, what it says later is not heard.
Cancelled(v) == [v EXCEPT !.state = IF @ = "listening" THEN "idle" ELSE @, !.heard = FALSE,
                          !.atStart = {}]

sendTyped ==
    /\ ~Locked /\ voice.open /\ box # {} /\ CanSend
    /\ sendText
    /\ voice' = [Cancelled(voice) EXCEPT !.state = "idle"]
    /\ UNCHANGED <<agentServer, active, es, fresh, loads, card, pieces, gone, script>>

\* toggle: a second press stops listening, which is VoiceEnds.
Toggle ==
    /\ script.about = "box" /\ voice.open
    /\ voice.state = "idle" /\ ~voice.starting /\ ~Locked /\ pieces < MaxSend
    /\ voice' = [voice EXCEPT !.starting = TRUE]
    /\ UNCHANGED <<agentServer, chat, card, box, pieces, gone, mishap, script>>

listen(v) == [v EXCEPT !.state = "listening", !.heard = FALSE, !.atStart = box]

\* begin() after asking whether speech is processed locally.
Begin ==
    /\ voice.starting
    /\ \E v \in IF voice.open THEN {listen(voice), [voice EXCEPT !.state = "asking-consent"]}
                ELSE {voice} :
           voice' = [v EXCEPT !.starting = FALSE]
    /\ UNCHANGED <<agentServer, chat, card, box, pieces, gone, mishap, script>>

answerConsent ==
    /\ voice.state = "asking-consent"
    /\ voice' \in {listen(voice), [voice EXCEPT !.state = "idle"]}
    /\ UNCHANGED <<agentServer, chat, card, box, pieces, gone, mishap, script>>

\* onFinal of a live session.
Hear ==
    /\ voice.state = "listening" /\ pieces < MaxSend
    /\ Add
    /\ voice' = [voice EXCEPT !.heard = TRUE]
    /\ UNCHANGED <<agentServer, chat, card, gone, mishap, script>>

\* finish: stopped, silent for too long, or the browser ended.
VoiceEnds ==
    /\ voice.state = "listening"
    /\ voice' = Cancelled(voice)
    /\ IF voice.heard /\ voice.sendAfter /\ box # {}
       THEN sendText
       ELSE UNCHANGED <<box, sends, run, mishap>>
    /\ UNCHANGED <<agentServer, active, es, fresh, loads, card, pieces, gone, script>>

\* Escape: while listening it drops what this session heard; otherwise it folds.
EscapeTo == voice.atStart
Escape ==
    /\ voice.open /\ script.about = "box"
    /\ IF voice.state = "listening"
       THEN /\ voice' = Cancelled(voice)
            /\ box' = EscapeTo
            /\ gone' = gone \cup (box \ EscapeTo)
       ELSE /\ voice' = [Cancelled(voice) EXCEPT !.open = FALSE, !.state = "idle"]
            /\ UNCHANGED <<box, gone>>
    /\ UNCHANGED <<agentServer, chat, card, pieces, mishap, script>>

Unfold ==
    /\ ~voice.open /\ voice' = [voice EXCEPT !.open = TRUE]
    /\ UNCHANGED <<agentServer, chat, card, box, pieces, gone, mishap, script>>

-----------------------------------------------------------------------------
Serve == \E n \in DOMAIN sends : PostMessage(n)
Work == \E r \in DOMAIN runs : EmitTerminal(r) \/ Settle(r)
Answer ==
    \/ \E n \in DOMAIN sends :
           SessionArrives(n) \/ SessionFails(n) \/ RunStarted(n) \/ StartFails(n)
    \/ \E s \in Session : TranscriptArrives(s)
    \/ NewChatArrives
Stream == Subscribe \/ StreamDelivers

\* A behaviour is followed to its first mishap: what the panel shows after one is
\* not claimed to be right, and every such occasion is reached.
StreamFollowed == mishap = {}

Next == StreamFollowed /\ (
    \/ Serve \/ Work \/ Answer \/ Stream \/ StreamBreaks
    \/ \E r \in DOMAIN runs : EmitEvent(r) \/ decide(r) \/ Decided(r) \/ Remount(r)
    \/ \E s \in Session : selectSession(s)
    \/ newChat \/ stop \/ EditorRequest \/ retryMessage
    \/ Type \/ sendTyped \/ Toggle \/ Begin \/ answerConsent \/ Hear \/ VoiceEnds
    \/ Escape \/ Unfold)

\* The server handles what it gets, a run ends, an answer comes back, a stream
\* that stays up delivers.
Fairness == WF_vars(Serve) /\ WF_vars(Work) /\ WF_vars(Answer) /\ WF_vars(Stream)

Spec == Init /\ [][Next]_vars /\ Fairness

-----------------------------------------------------------------------------
TypeOK ==
    /\ sessions \in 0..MaxSession /\ active \in 0..sessions /\ loads \subseteq Session
    /\ Len(runs) <= MaxSend /\ Len(sends) <= MaxSend
    /\ \A r \in DOMAIN runs :
           /\ runs[r].sid \in 1..sessions
           /\ runs[r].state \in {"running", "committed", "rolled back"}
           /\ Range(runs[r].log) \subseteq Body \cup Terminal
    /\ run.phase \in Active \cup {"idle", "done", "cancelled", "error"}
    /\ run.sid \in 0..sessions /\ run.rid \in 0..Len(runs)
    /\ run.seen \subseteq 0..MaxBody
    /\ es.rid \in 0..Len(runs) /\ (es.linked => es.next \in 1..(MaxBody + 2))
    /\ \A r \in Run : ops[r] \in {"none", "proposed", "applied", "rejected"}
    /\ \A r \in Run : card[r].status \in {"proposed", "applied", "rejected"}
    /\ box \subseteq 1..pieces /\ gone \subseteq 1..pieces /\ pieces <= MaxSend
    /\ voice.state \in {"idle", "asking-consent", "listening"}

\* A conversation shows what was said in it: everything shown under a session
\* comes from that session's runs and sends, though streams are opened and
\* closed, transcripts loaded and sessions changed meanwhile.
OwnTranscript == StreamFollowed =>
    \A i \in DOMAIN run.items :
        LET item == run.items[i]
            of == CASE item.kind = "user" -> sends[item.of].sid
                    [] item.of = 0 -> run.sid
                    [] OTHER -> runs[item.of].sid
        IN  of = run.sid

\* When nothing is awaited, the box is not locked: no run is shown as going on
\* without a stream to end it (spec 46: on a terminal event "the working
\* indicator hides, and the composer re-enables").
Released ==
    run.phase \in Active =>
        \/ es.rid # 0
        \/ \E n \in DOMAIN sends : sends[n].stage # "over"
        \/ fresh \/ loads # {}

OtherwiseReleased == Released \/ mishap # {}

\* What the user put in the box is in the box, in a message under way or one
\* the conversation got, or was dropped by Escape.
Delivered(n) == sends[n].stage # "over" \/ sends[n].rid # 0
DraftKept ==
    \A p \in 1..pieces :
        \/ p \in box \cup gone
        \/ \E n \in DOMAIN sends : p \in sends[n].text
               /\ (Delivered(n) \/ User(n) \in Range(run.items))
        \/ mishap # {}

\* A card says an operation was decided only as the server decided it, even
\* after the transcript was reloaded or the card shown again.
CardsTrue ==
    \A r \in DOMAIN runs :
        Shown(r) /\ card[r].status # "proposed" => ops[r] = card[r].status

\* The panel shows a run as going on.  That must come to an end, also when its
\* reply is lost, its stream breaks, or it is over before the stream opens.
RunShown == Locked /\ mishap = {}
=============================================================================
