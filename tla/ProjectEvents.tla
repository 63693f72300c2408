--------------------------- MODULE ProjectEvents ---------------------------
(***************************************************************************)
(* The event stream of a project, as one browser sees it: the server       *)
(* publishes after the commit of a write, in a task of its own, to those   *)
(* subscribed at that moment, and replays nothing; the browser shares one  *)
(* EventSource among its subscribers and reconnects when it breaks.        *)
(***************************************************************************)
EXTENDS Integers, Sequences, FiniteSets, SequencesExt

VARIABLES
    stream,      \* SharedStream: where it is, and what is on its way in it
    outbox       \* events of committed writes, not published yet

eventVars == <<stream, outbox>>

PROJECT_EVENT_TYPES ==
    {"chat.message_created", "chat.message_deleted", "comment.thread_created",
     "comment.message_created", "comment.message_updated", "comment.message_deleted",
     "comment.thread_resolved", "comment.thread_reopened"}
Opened == [type |-> "open", id |-> 0]
Event(type, id) == [type |-> type, id |-> id]
Closed(at) == [at |-> at, queue |-> << >>]

(* The server subscribes and the stream opens.  It opens in the browser on *)
(* the response's headers, before the server subscribes: an event of that  *)
(* moment reaches nobody, as one that is not published.                    *)
project_events_stream ==
    /\ stream.at = "connecting"
    /\ stream' = [at |-> "open", queue |-> <<Opened>>]
    /\ UNCHANGED outbox

schedule_project_event(event) == outbox' = outbox \cup {event}
publish_project_event(event) ==
    /\ event \in outbox /\ outbox' = outbox \ {event}
    /\ stream' = IF stream.at = "open" THEN [stream EXCEPT !.queue = Append(@, event)] ELSE stream
(* Its publishing failed and was logged, or it came between a stream's     *)
(* headers and its subscription.                                           *)
_publish_quietly(event) == event \in outbox /\ outbox' = outbox \ {event} /\ UNCHANGED stream

(* The next frame, handled by its subscriber in the same step.             *)
NextFrame == Head(stream.queue)
deliver ==
    /\ stream.queue # << >>
    /\ stream' = [stream EXCEPT !.queue = Tail(@)] /\ UNCHANGED outbox

streamError == stream.at \in {"connecting", "open"} /\ stream' = Closed("waiting") /\ UNCHANGED outbox
reconnectOnce == stream.at = "waiting" /\ stream' = Closed("waiting") /\ UNCHANGED outbox
scheduleReconnect == stream.at = "waiting" /\ stream' = Closed("connecting") /\ UNCHANGED outbox

ChannelQuiet == stream = Closed("open") /\ outbox = {}
=============================================================================
