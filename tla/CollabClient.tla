---------------------------- MODULE CollabClient ----------------------------
(***************************************************************************)
(* One collaborative document as the browsers see it: every open editor is *)
(* a session (useCollabDoc) with a Y.Doc, an awareness table and a         *)
(* provider (InkstaveWsProvider) that dials, re-dials and resynchronises;  *)
(* the server's WebSocket endpoint is its counterpart, one connection per  *)
(* dialled socket, one room, one awareness registry.                       *)
(*                                                                         *)
(* A Y.Doc is the set of updates it has merged (update 0 is the content    *)
(* the room opened with), so that applying an update is set union: what a  *)
(* CRDT promises and all the provider relies on.  A link that dies is seen *)
(* by the browser and by the server at different moments: frames already   *)
(* sent upwards may still be handled, frames sent downwards are lost.      *)
(* The endpoint's send queue is taken to have room for the two or three    *)
(* frames of a handshake; a full queue at a broadcast is ServerCloses.     *)
(***************************************************************************)
EXTENDS Integers, Sequences, FiniteSets, Functions

CONSTANTS
    Client,     \* editor sessions (one browser tab on the document)
    Writer,     \* those whose role lets them write; the others are viewers
    MaxConn,    \* sockets each session may open, which bounds its link failures
    MaxEdit,    \* local edits in all, at most
    Scripts     \* what may happen in a behaviour: how many edits, who announces
                \* itself (a behaviour has one script, to keep the two apart)

ASSUME ClientAssumption == Writer \subseteq Client
ASSUME BoundAssumption ==
    MaxConn \in [Client -> Nat \ {0}] /\ MaxEdit \in Nat
    /\ Scripts \subseteq [edits: 0..MaxEdit, present: SUBSET Client]

VARIABLES
    prov,    \* the provider's own fields
    sock,    \* its _ws: 0 (null) or the number of the socket it holds
    open,    \* readyState of that socket is OPEN
    dialled, \* how many sockets it has opened so far
    doc,     \* the updates merged in its Y.Doc
    aware,   \* its awareness table: the sessions that have a state in it
    phase,   \* the server's side of each socket
    up, down,\* frames in flight on each socket, both ways
    room,    \* the updates merged in the server's document
    reg,     \* the server's awareness registry
    known,   \* connections whose awareness client id the server has learnt
    draining,\* rooms that emptied and whose registry is about to be dropped
    raced,   \* history: the registry was dropped under a room in use
    made,    \* who made each update so far
    script   \* the script of this behaviour

link == <<phase, up, down>>
server == <<room, reg, known, draining, raced>>
vars == <<prov, sock, open, dialled, doc, aware, link, server, made, script>>

Update == 0..MaxEdit
Conn == UNION {{c} \X (1..MaxConn[c]) : c \in Client}

\* RECONNECT_CAP_MS: past this attempt the delay no longer grows.
AttemptCap == 1

Here(c) == <<c, sock[c]>>
Idle(c) == prov[c].status = "idle"

Init ==
    /\ prov = [c \in Client |->
           [status |-> "idle", dialing |-> FALSE, timer |-> FALSE, attempt |-> 0,
            synced |-> FALSE, destroyed |-> FALSE]]
    /\ sock = [c \in Client |-> 0]
    /\ open = [c \in Client |-> FALSE]
    /\ dialled = [c \in Client |-> 0]
    /\ doc = [c \in Client |-> {}]
    /\ aware = [c \in Client |-> {}]
    /\ phase = [k \in Conn |-> "unused"]
    /\ up = [k \in Conn |-> << >>]
    /\ down = [k \in Conn |-> << >>]
    /\ room = {0}
    /\ reg = {}
    /\ known = [k \in Conn |-> FALSE]
    /\ draining = FALSE
    /\ raced = FALSE
    /\ made = << >>
    /\ script \in Scripts

-----------------------------------------------------------------------------
(* Frames.  Sending on a socket that is not OPEN drops the frame: the      *)
(* next handshake reconciles the documents.                                *)

SendUp(c, frames) ==
    IF sock[c] # 0 /\ open[c] THEN up' = [up EXCEPT ![Here(c)] = @ \o frames]
                              ELSE UNCHANGED up

Step1(have) == [kind |-> "step1", upd |-> have]
Step2None(upd) == [kind |-> "step2", upd |-> {}]
Step2(upd) == [kind |-> "step2", upd |-> upd]
Delta(upd) == [kind |-> "update", upd |-> upd]
\* An awareness frame: the sessions it announces, and those it takes away.
Presence(on, off) == [kind |-> "awareness", on |-> on, off |-> off]

\* The table after a frame.  Frames of one session reach the table in the order
\* the server handled them, which is all the clocks of the library decide;
\* nobody takes my own live entry away (self).
Merge(table, frame, self) == (table \cup frame.on) \ (frame.off \ {self})

-----------------------------------------------------------------------------
(* The provider's life.                                                    *)

\* The status the badge of the toolbar shows (mapStatus).
Badge(c) ==
    CASE prov[c].status = "closed" -> "offline"
      [] prov[c].status = "idle"   -> "connecting"
      [] OTHER -> prov[c].status

\* connect(): nothing when torn down or already holding a socket;
\* otherwise the status changes and the token is awaited.
ConnectFrom(p, held) ==
    IF p.destroyed \/ held THEN p
    ELSE [p EXCEPT !.status = IF p.attempt > 0 THEN "reconnecting" ELSE "connecting",
                   !.dialing = TRUE]

\* _scheduleReconnect(): one timer at a time, a longer delay at each attempt.
ScheduleStarted(p) ==
    IF p.destroyed \/ p.timer \/ p.status = "reconnecting" THEN p
    ELSE [p EXCEPT !.timer = TRUE, !.attempt = 1]
ScheduleFrom(p) ==
    IF p.destroyed \/ p.timer THEN p
    ELSE [p EXCEPT !.timer = TRUE, !.attempt = IF @ < AttemptCap THEN @ + 1 ELSE @]

\* The effect of useCollabDoc builds a session and connects at once.
Mount(c) ==
    /\ Idle(c)
    /\ ~prov[c].dialing
    /\ ~prov[c].destroyed
    /\ prov' = [prov EXCEPT ![c] = ConnectFrom(@, FALSE)]
    /\ UNCHANGED <<sock, open, dialled, doc, aware, link, server, made, script>>

\* What a dial that resumes looks at again: the teardown, nothing else.
AbandonedNever(p) == FALSE
Abandoned(p) == p.destroyed

\* connect() resumes with a token.
TokenArrives(c) ==
    /\ prov[c].dialing
    /\ prov' = [prov EXCEPT ![c].dialing = FALSE]
    /\ IF Abandoned(prov[c])
       THEN UNCHANGED <<sock, open, dialled, phase>>
       ELSE /\ dialled[c] < MaxConn[c]
            /\ dialled' = [dialled EXCEPT ![c] = @ + 1]
            /\ sock' = [sock EXCEPT ![c] = dialled[c] + 1]
            /\ open' = [open EXCEPT ![c] = FALSE]
            /\ phase' = [phase EXCEPT ![<<c, dialled[c] + 1>>] = "dialled"]
    /\ UNCHANGED <<doc, aware, up, down, server, made, script>>

\* getToken() throws: a reconnect is scheduled.  Like a link, it fails only
\* while the session has sockets to spare.
TokenFails(c) ==
    /\ prov[c].dialing
    /\ dialled[c] + 1 < MaxConn[c]
    /\ prov' = [prov EXCEPT ![c] = ScheduleFrom([@ EXCEPT !.dialing = FALSE])]
    /\ UNCHANGED <<sock, open, dialled, doc, aware, link, server, made, script>>

TimerFires(c) ==
    /\ prov[c].timer
    /\ prov' = [prov EXCEPT ![c] = ConnectFrom([@ EXCEPT !.timer = FALSE], sock[c] # 0)]
    /\ UNCHANGED <<sock, open, dialled, doc, aware, link, server, made, script>>

\* _onOpen(): the attempt counter is reset and our step 1 goes out.
SocketOpens(c) ==
    /\ sock[c] # 0
    /\ ~open[c]
    /\ phase[Here(c)] = "serving"
    /\ open' = [open EXCEPT ![c] = TRUE]
    /\ prov' = [prov EXCEPT ![c].attempt = 0, ![c].status = "connected"]
    /\ up' = [up EXCEPT ![Here(c)] = <<Step1(doc[c])>>]
    /\ UNCHANGED <<sock, dialled, doc, aware, phase, down, server, made, script>>

\* _onClose() after the link is lost or the server closed it: it re-dials.  (The
\* codes at which it would stop are those of a refused admission, which the
\* endpoint sends before it accepts: the browser reports them as 1006.)
Closed(c) ==
    /\ sock' = [sock EXCEPT ![c] = 0]
    /\ open' = [open EXCEPT ![c] = FALSE]
    /\ down' = [down EXCEPT ![Here(c)] = << >>]
    /\ prov' = [prov EXCEPT ![c] = ScheduleFrom([@ EXCEPT !.status = "reconnecting"])]

\* The link is lost, or its admission refused.
LinkDies(c) ==
    /\ sock[c] # 0
    /\ phase[Here(c)] \in {"dialled", "serving"}
    /\ dialled[c] < MaxConn[c]
    /\ Closed(c)
    /\ phase' = [phase EXCEPT ![Here(c)] =
           IF @ = "dialled" THEN "gone" ELSE "broken"]
    /\ UNCHANGED <<dialled, doc, aware, up, server, made, script>>

ServerClosed(c) ==
    /\ sock[c] # 0
    /\ phase[Here(c)] \in {"closing", "gone"}
    /\ Closed(c)
    /\ UNCHANGED <<dialled, doc, aware, phase, up, server, made, script>>

\* Unmount: destroy() cancels the timer, drops the listeners, says goodbye if
\* the socket is open, and closes it.  A dial that is still awaiting its
\* token finds _destroyed when it resumes.
Destroy(c) ==
    /\ ~Idle(c)
    /\ ~prov[c].destroyed
    /\ prov' = [prov EXCEPT ![c].destroyed = TRUE, ![c].timer = FALSE, ![c].status = "closed"]
    /\ aware' = [aware EXCEPT ![c] = @ \ {c}]
    /\ SendUp(c, <<Presence({}, {c})>>)
    /\ sock' = [sock EXCEPT ![c] = 0]
    /\ open' = [open EXCEPT ![c] = FALSE]
    /\ IF sock[c] = 0 THEN UNCHANGED <<phase, down>>
       ELSE /\ down' = [down EXCEPT ![Here(c)] = << >>]
            /\ phase' = [phase EXCEPT ![Here(c)] =
                   IF @ = "dialled" THEN "gone" ELSE IF @ = "serving" THEN "broken" ELSE @]
    /\ UNCHANGED <<dialled, doc, server, made, script>>

-----------------------------------------------------------------------------
(* Editing, and what arrives.                                              *)

\* The editor is editable once the first sync is done, for a writer.
Editable(c) == prov[c].synced /\ c \in Writer

\* A local transaction: _onDocUpdate sends it if the socket is open.
Edit(c) ==
    /\ Editable(c)
    /\ ~prov[c].destroyed
    /\ Len(made) < script.edits
    /\ made' = Append(made, c)
    /\ doc' = [doc EXCEPT ![c] = @ \cup {Len(made) + 1}]
    /\ SendUp(c, <<Delta({Len(made) + 1})>>)
    /\ UNCHANGED <<prov, sock, open, dialled, aware, phase, down, server, script>>

\* _onMessage(): step 1 is answered with what the peer lacks; step 2 completes
\* the first sync; updates and step 2 are applied with origin this (no echo).
Receive(c) ==
    /\ sock[c] # 0
    /\ open[c]
    /\ down[Here(c)] # << >>
    /\ LET f == Head(down[Here(c)]) IN
       /\ doc' = [doc EXCEPT ![c] = IF f.kind \in {"step2", "update"} THEN @ \cup f.upd ELSE @]
       /\ prov' = [prov EXCEPT ![c].synced = @ \/ f.kind = "step2"]
       /\ aware' = [aware EXCEPT ![c] = IF f.kind = "awareness" THEN Merge(@, f, c) ELSE @]
       /\ IF f.kind = "step1" THEN SendUp(c, <<Step2(doc[c] \ f.upd)>>) ELSE UNCHANGED up
    /\ down' = [down EXCEPT ![Here(c)] = Tail(@)]
    /\ UNCHANGED <<sock, open, dialled, phase, server, made, script>>

\* The identity is put in the awareness state once per session and renewed by
\* the library every few seconds; it goes out only if the socket is open.  A
\* renewal that tells the server nothing new is left out.
Announce(c) ==
    /\ ~Idle(c)
    /\ ~prov[c].destroyed
    /\ c \in script.present
    /\ c \notin aware[c] \/ (open[c] /\ c \notin reg /\ Presence({c}, {}) \notin Range(up[Here(c)]))
    /\ aware' = [aware EXCEPT ![c] = @ \cup {c}]
    /\ SendUp(c, <<Presence({c}, {})>>)
    /\ UNCHANGED <<prov, sock, open, dialled, doc, phase, down, server, made, script>>

\* The users OnlineUsers lists and whose carets are drawn: the sessions with a state.
Listed(c) == aware[c]

-----------------------------------------------------------------------------
(* The server.                                                             *)

InRoom == {k \in Conn : phase[k] \in {"serving", "broken"}}

\* local_broadcast(): to every connection of the room but the sender's.
Broadcast(k, frame) ==
    down' = [j \in Conn |-> IF j # k /\ phase[j] = "serving" THEN Append(down[j], frame)
                                                            ELSE down[j]]

\* Admission succeeds, the socket is accepted and joins its room; our step 1 and, if anyone is announced, the
\* awareness snapshot are queued.
Serve(k) ==
    /\ phase[k] = "dialled"
    /\ phase' = [phase EXCEPT ![k] = "serving"]
    /\ down' = [down EXCEPT ![k] =
           <<Step1(room)>> \o IF reg = {} THEN << >> ELSE <<Presence(reg, {})>>]
    /\ UNCHANGED <<prov, sock, open, dialled, doc, aware, up, server, made, script>>

\* One frame of the receive loop.  A viewer's updates are dropped.
Handle(k) ==
    /\ k \in InRoom
    /\ up[k] # << >>
    /\ LET f == Head(up[k]) IN
       \/ /\ f.kind = "step1"
          /\ down' = IF phase[k] = "serving"
                     THEN [down EXCEPT ![k] = Append(@, Step2(room \ f.upd))] ELSE down
          /\ UNCHANGED <<room, reg, known>>
       \/ /\ f.kind \in {"step2", "update"}
          /\ IF k[1] \in Writer
             THEN /\ room' = room \cup f.upd
                  /\ Broadcast(k, Delta(f.upd))
             ELSE UNCHANGED <<room, down>>
          /\ UNCHANGED <<reg, known>>
       \/ /\ f.kind = "awareness"
          /\ known' = [known EXCEPT ![k] = TRUE]
          /\ reg' = Merge(reg, f, "server")
          /\ Broadcast(k, f)
          /\ UNCHANGED room
    /\ up' = [up EXCEPT ![k] = Tail(@)]
    /\ UNCHANGED <<prov, sock, open, dialled, doc, aware, phase, draining, raced, made, script>>

\* _force_close(): overflow, rate limit or a bad frame.
ServerCloses(k) ==
    /\ phase[k] = "serving"
    /\ dialled[k[1]] < MaxConn[k[1]]
    /\ phase' = [phase EXCEPT ![k] = "closing"]
    /\ up' = [up EXCEPT ![k] = << >>]
    /\ down' = [down EXCEPT ![k] = << >>]
    /\ UNCHANGED <<prov, sock, open, dialled, doc, aware, server, made, script>>

\* Whom _cleanup() announces offline: the member the registry still holds.
Offline(k) == IF known[k] THEN reg \cap {k[1]} ELSE {}

\* _cleanup(): the member is announced offline, then leaves the room; the last
\* one to leave tears the subscription down before the registry is dropped.
Cleanup(k) ==
    /\ phase[k] \in {"broken", "closing"}
    /\ phase' = [phase EXCEPT ![k] = "gone"]
    /\ up' = [up EXCEPT ![k] = << >>]
    /\ reg' = reg \ Offline(k)
    /\ IF Offline(k) = {} THEN UNCHANGED down ELSE Broadcast(k, Presence({}, Offline(k)))
    /\ draining' = (draining \/ \A j \in Conn \ {k} : phase[j] \notin {"serving", "broken", "closing"})
    /\ UNCHANGED <<prov, sock, open, dialled, doc, aware, room, known, raced, made, script>>

\* aclose() has been awaited: the registry is forgotten, whoever has joined since.
DropRegistry ==
    /\ draining
    /\ draining' = FALSE
    /\ reg' = {}
    /\ raced' = (raced \/ InRoom # {})
    /\ UNCHANGED <<prov, sock, open, dialled, doc, aware, link, room, known, made, script>>

-----------------------------------------------------------------------------
Next ==
    \/ \E c \in Client :
          \/ Mount(c) \/ TokenArrives(c) \/ TokenFails(c) \/ TimerFires(c)
          \/ SocketOpens(c) \/ LinkDies(c) \/ ServerClosed(c)
          \/ Destroy(c) \/ Edit(c) \/ Receive(c) \/ Announce(c)
    \/ \E k \in Conn : Serve(k) \/ Handle(k) \/ ServerCloses(k) \/ Cleanup(k)
    \/ DropRegistry

ClientStep(c) == TimerFires(c) \/ SocketOpens(c) \/ ServerClosed(c) \/ Receive(c)
ServerStep == DropRegistry \/ \E k \in Conn : Serve(k) \/ Handle(k) \/ Cleanup(k)

\* Timers fire and both event loops run; the token call may fail, but not for
\* ever.  Nobody has to edit or leave, and links need not die.
Fairness ==
    /\ \A c \in Client : WF_vars(ClientStep(c)) /\ SF_vars(TokenArrives(c))
    /\ WF_vars(ServerStep)

Spec == Init /\ [][Next]_vars /\ Fairness

-----------------------------------------------------------------------------
Frame ==
    [kind: {"step1", "step2", "update"}, upd: SUBSET Update]
    \cup [kind: {"awareness"}, on: SUBSET Client, off: SUBSET Client]

\* Every field stays in its range; frames are frames of the protocol.
TypeOK ==
    /\ prov \in [Client ->
           [status: {"idle", "connecting", "connected", "reconnecting", "closed"},
            dialing: BOOLEAN, timer: BOOLEAN, attempt: 0..AttemptCap, synced: BOOLEAN,
            destroyed: BOOLEAN]]
    /\ sock \in [Client -> Nat] /\ \A c \in Client : dialled[c] \in sock[c]..MaxConn[c]
    /\ open \in [Client -> BOOLEAN]
    /\ doc \in [Client -> SUBSET Update] /\ room \in SUBSET Update
    /\ aware \in [Client -> SUBSET Client] /\ reg \in SUBSET Client
    /\ phase \in [Conn -> {"unused", "dialled", "serving", "closing", "broken", "gone"}]
    /\ known \in [Conn -> BOOLEAN] /\ draining \in BOOLEAN /\ raced \in BOOLEAN
    /\ \A k \in Conn : \A i \in DOMAIN up[k] : up[k][i] \in Frame
    /\ \A k \in Conn : \A i \in DOMAIN down[k] : down[k][i] \in Frame
    /\ Len(made) <= MaxEdit

\* A provider has at most one of: a dial in progress, a reconnect timer, a
\* socket.  Every socket it opened and let go of is closed, and a torn down
\* provider holds neither timer nor socket (no leak after unmount).
OneLink ==
    \A c \in Client :
        /\ ~(prov[c].dialing /\ prov[c].timer)
        /\ (prov[c].dialing \/ prov[c].timer) => sock[c] = 0
        /\ \A n \in 1..MaxConn[c] :
              phase[<<c, n>>] \in {"dialled", "serving"} => sock[c] = n
        /\ prov[c].destroyed => ~prov[c].timer /\ sock[c] = 0

\* The badge says connected only over an open socket; and when nothing is in
\* flight on it after the handshake, the session has everything the server has
\* and the server everything a writer made on it: what was lost with earlier
\* links has been made up for.
QuietMeansEqual ==
    \A c \in Client : Badge(c) = "connected" =>
        LET k == Here(c) IN
        /\ sock[c] # 0 /\ open[c]
        /\ (phase[k] = "serving" /\ up[k] = << >> /\ down[k] = << >>)
              => /\ room \subseteq doc[c]
                 /\ c \in Writer => doc[c] \subseteq room

\* Nobody types into an editor that has not yet received the document: every
\* local edit is made on top of the content the room opened with.
EditsFollowSync ==
    [][\A c \in Client : Len(made') > Len(made) /\ doc'[c] # doc[c] => 0 \in doc[c]]_vars

\* An edit reaches the server unless its author's session ends, whatever links
\* die in between.
EditsArrive ==
    \A e \in 1..MaxEdit :
        (Len(made) >= e) ~>
            \/ e \in room
            \/ Len(made) >= e /\ prov[made[e]].destroyed

\* A session that never had to re-dial has no ghosts: once the server has let
\* go of every connection of a peer, and nothing is in flight, the peer is not
\* listed any more.  (Unless the registry was dropped under a room that had
\* filled again: then only the awareness timeout clears the peer.)
NoGhosts ==
    \A c, d \in Client :
        (/\ c # d /\ ~raced /\ dialled[c] = 1 /\ sock[c] = 1
         /\ phase[<<c, 1>>] = "serving" /\ down[<<c, 1>>] = << >>
         /\ \A n \in 1..MaxConn[d] : phase[<<d, n>>] \in {"unused", "gone"})
        => d \notin Listed(c)

\* Sessions agree: on the text once quiet, from the first edit on, and on who is there.
SessionsAgree == [](QuietMeansEqual /\ NoGhosts) /\ EditsFollowSync

=============================================================================
