------------------------- MODULE CollabClientProofs -------------------------
(***************************************************************************)
(* What the browsers' sessions and the room promise each other, for any    *)
(* number of sessions, sockets and edits.  The inductive invariant has     *)
(* four parts: the types; LinkInv, what a session holds of its one link;   *)
(* SyncInv, that whatever one side of an open link lacks is on its way or  *)
(* has been asked for; PresenceInv, that what is in flight never announces *)
(* a session the registry has dropped.                                     *)
(***************************************************************************)
EXTENDS CollabClient, SequenceTheorems, TLAPS

ProvType == [status: {"idle", "connecting", "connected", "reconnecting", "closed"},
             dialing: BOOLEAN, timer: BOOLEAN, attempt: 0..AttemptCap, synced: BOOLEAN,
             destroyed: BOOLEAN]
Phases == {"unused", "dialled", "serving", "closing", "broken", "gone"}

-----------------------------------------------------------------------------
\* The types, with what TypeOK leaves open: sequences of frames, and of authors.
ProvOK == prov \in [Client -> ProvType]
LinksOK ==
    /\ sock \in [Client -> Nat] /\ dialled \in [Client -> Nat] /\ open \in [Client -> BOOLEAN]
    /\ \A c \in Client : sock[c] <= dialled[c] /\ dialled[c] <= MaxConn[c]
DataOK ==
    /\ doc \in [Client -> SUBSET Update] /\ room \in SUBSET Update
    /\ aware \in [Client -> SUBSET Client] /\ reg \in SUBSET Client
    /\ made \in Seq(Client) /\ Len(made) <= MaxEdit
    /\ script \in [edits: 0..MaxEdit, present: SUBSET Client]
PhasesOK ==
    /\ phase \in [Conn -> Phases] /\ known \in [Conn -> BOOLEAN]
    /\ draining \in BOOLEAN /\ raced \in BOOLEAN
FramesOK == up \in [Conn -> Seq(Frame)] /\ down \in [Conn -> Seq(Frame)]
TypeInv == ProvOK /\ LinksOK /\ DataOK /\ PhasesOK /\ FramesOK

\* The steps of a session, and those of the server.
ClientNext(c) ==
    \/ Mount(c) \/ TokenArrives(c) \/ TokenFails(c) \/ TimerFires(c)
    \/ SocketOpens(c) \/ LinkDies(c) \/ ServerClosed(c)
    \/ Destroy(c) \/ Edit(c) \/ Receive(c) \/ Announce(c)
ServerNext(k) == Serve(k) \/ Handle(k) \/ ServerCloses(k) \/ Cleanup(k)

\* A step is one of a session, of a connection of the server, or of a room.
LEMMA Steps ==
    ASSUME [Next]_vars
    PROVE  \/ \E c \in Client : ClientNext(c)
           \/ \E k \in Conn : ServerNext(k)
           \/ DropRegistry \/ UNCHANGED vars
BY DEF Next, ClientNext, ServerNext

\* A connection is a session and a number; the socket a session holds is one.
LEMMA ConnFacts ==
    /\ \A k \in Conn : k[1] \in Client /\ k[2] \in 1..MaxConn[k[1]] /\ k = <<k[1], k[2]>>
    /\ \A c \in Client : MaxConn[c] \in Nat \ {0} /\ \A n \in 1..MaxConn[c] : <<c, n>> \in Conn
<1>1. \A c \in Client : MaxConn[c] \in Nat \ {0}
  BY BoundAssumption
<1> QED
  BY <1>1 DEF Conn

\* The socket a session holds is one of its connections.
LEMMA HereFacts ==
    ASSUME LinksOK, NEW c \in Client, sock[c] # 0
    PROVE  Here(c) \in Conn /\ Here(c) = <<c, sock[c]>> /\ sock[c] \in 1..MaxConn[c]
<1>1. sock[c] \in 1..MaxConn[c]
  BY ConnFacts DEF LinksOK
<1> QED
  BY <1>1, ConnFacts DEF Here

\* connect() and _scheduleReconnect() keep the provider's fields in their ranges.
LEMMA ScheduleType ==
    ASSUME NEW p \in ProvType
    PROVE  /\ ScheduleFrom(p) \in ProvType
           /\ \A held \in BOOLEAN : ConnectFrom(p, held) \in ProvType
<1>1. ScheduleFrom(p) \in ProvType
  <2> DEFINE later == IF p.attempt < AttemptCap THEN p.attempt + 1 ELSE p.attempt
  <2>1. later \in 0..AttemptCap
    BY DEF ProvType, AttemptCap
  <2>2. ScheduleFrom(p) = IF p.destroyed \/ p.timer THEN p
                          ELSE [p EXCEPT !.timer = TRUE, !.attempt = later]
    BY DEF ScheduleFrom
  <2> HIDE DEF later
  <2>3. [p EXCEPT !.timer = TRUE, !.attempt = later] \in ProvType
    BY <2>1 DEF ProvType
  <2> QED
    BY <2>2, <2>3
<1>2. \A held \in BOOLEAN : ConnectFrom(p, held) \in ProvType
  BY DEF ConnectFrom, ProvType
<1> QED
  BY <1>1, <1>2

\* The provider's fields stay in their ranges.
LEMMA ProvTypes ==
    ASSUME TypeInv, [Next]_vars
    PROVE  ProvOK'
<1> USE DEF vars, link, server
<1>1. ASSUME NEW c \in Client, ClientNext(c) PROVE ProvOK'
  <2>1. prov \in [Client -> ProvType] /\ prov[c] \in ProvType
    BY DEF TypeInv, ProvOK
  <2>2. CASE Mount(c)
    BY <2>1, <2>2, ScheduleType DEF Mount, ProvOK
  <2>3. CASE TokenArrives(c)
    BY <2>1, <2>3 DEF TokenArrives, ProvOK, ProvType
  <2>4. CASE TokenFails(c)
    <3>1. [prov[c] EXCEPT !.dialing = FALSE] \in ProvType
      BY <2>1 DEF ProvType
    <3> QED
      BY <2>1, <2>4, <3>1, ScheduleType DEF TokenFails, ProvOK
  <2>5. CASE TimerFires(c)
    <3>1. [prov[c] EXCEPT !.timer = FALSE] \in ProvType
      BY <2>1 DEF ProvType
    <3> QED
      BY <2>1, <2>5, <3>1, ScheduleType DEF TimerFires, ProvOK
  <2>6. CASE SocketOpens(c)
    <3>1. 0 \in 0..AttemptCap
      BY DEF AttemptCap
    <3>2. [prov[c] EXCEPT !.attempt = 0, !.status = "connected"] \in ProvType
      BY <2>1, <3>1 DEF ProvType
    <3>3. prov' = [prov EXCEPT ![c] = [prov[c] EXCEPT !.attempt = 0, !.status = "connected"]]
      BY <2>1, <2>6 DEF SocketOpens
    <3> QED
      BY <2>1, <3>2, <3>3 DEF ProvOK
  <2>7. Closed(c) => ProvOK'
    <3>1. [prov[c] EXCEPT !.status = "reconnecting"] \in ProvType
      BY <2>1 DEF ProvType
    <3> QED
      BY <2>1, <3>1, ScheduleType DEF Closed, ProvOK
  <2>8. CASE LinkDies(c) \/ ServerClosed(c)
    BY <2>7, <2>8 DEF LinkDies, ServerClosed
  <2>9. CASE Destroy(c)
    BY <2>1, <2>9 DEF Destroy, ProvOK, ProvType
  <2>10. CASE Receive(c)
    <3>1. \A f : [prov EXCEPT ![c].synced = @ \/ f.kind = "step2"] \in [Client -> ProvType]
      BY <2>1 DEF ProvType
    <3> QED
      BY <2>10, <3>1 DEF Receive, ProvOK
  <2>11. CASE Edit(c) \/ Announce(c)
    BY <2>1, <2>11 DEF Edit, Announce, ProvOK
  <2> QED
    BY <1>1, <2>2, <2>3, <2>4, <2>5, <2>6, <2>8, <2>9, <2>10, <2>11 DEF ClientNext
<1>2. ASSUME NEW k \in Conn, ServerNext(k) PROVE ProvOK'
  BY <1>2 DEF TypeInv, ProvOK, ServerNext, Serve, Handle, ServerCloses, Cleanup
<1>3. CASE DropRegistry \/ UNCHANGED vars
  BY <1>3 DEF TypeInv, ProvOK, DropRegistry
<1> QED
  BY <1>1, <1>2, <1>3, Steps

\* A session never opens more sockets than it may.
LEMMA LinksTypes ==
    ASSUME TypeInv, [Next]_vars
    PROVE  LinksOK'
<1> USE DEF vars, link, server
<1>1. ASSUME NEW c \in Client, ClientNext(c) PROVE LinksOK'
  <2>1. /\ sock \in [Client -> Nat] /\ dialled \in [Client -> Nat] /\ open \in [Client -> BOOLEAN]
        /\ \A d \in Client : sock[d] <= dialled[d] /\ dialled[d] <= MaxConn[d] /\ MaxConn[d] \in Nat
    BY ConnFacts DEF TypeInv, LinksOK
  <2>2. CASE TokenArrives(c)
    <3>1. CASE Abandoned(prov[c])
      BY <2>1, <2>2, <3>1 DEF TokenArrives, LinksOK
    <3>2. CASE ~Abandoned(prov[c])
      <4>1. /\ dialled' = [dialled EXCEPT ![c] = @ + 1] /\ sock' = [sock EXCEPT ![c] = dialled[c] + 1]
            /\ open' = [open EXCEPT ![c] = FALSE] /\ dialled[c] < MaxConn[c]
        BY <2>2, <3>2 DEF TokenArrives
      <4>2. open' \in [Client -> BOOLEAN]
        BY <2>1, <4>1
      <4>3. sock' \in [Client -> Nat] /\ dialled' \in [Client -> Nat]
            /\ \A d \in Client : sock'[d] <= dialled'[d] /\ dialled'[d] <= MaxConn[d]
        BY <2>1, <4>1
      <4> QED
        BY <4>2, <4>3 DEF LinksOK
    <3> QED
      BY <3>1, <3>2
  <2>3. CASE dialled' = dialled /\ (sock' = sock \/ sock' = [sock EXCEPT ![c] = 0])
             /\ (open' = open \/ open' = [open EXCEPT ![c] = FALSE] \/ open' = [open EXCEPT ![c] = TRUE])
    <3>1. open' \in [Client -> BOOLEAN]
      BY <2>1, <2>3
    <3>2. sock' \in [Client -> Nat] /\ \A d \in Client : sock'[d] <= dialled[d]
      BY <2>1, <2>3
    <3> QED
      BY <2>1, <2>3, <3>1, <3>2 DEF LinksOK
  <2>4. CASE ~TokenArrives(c)
    <3>1. dialled' = dialled /\ (sock' = sock \/ sock' = [sock EXCEPT ![c] = 0])
          /\ (open' = open \/ open' = [open EXCEPT ![c] = FALSE] \/ open' = [open EXCEPT ![c] = TRUE])
      BY <1>1, <2>4 DEF ClientNext, Mount, TokenFails, TimerFires, SocketOpens, LinkDies, ServerClosed, Closed, Destroy, Edit, Receive, Announce
    <3> QED
      BY <2>3, <3>1
  <2> QED
    BY <2>2, <2>4
<1>2. ASSUME NEW k \in Conn, ServerNext(k) PROVE LinksOK'
  BY <1>2 DEF TypeInv, LinksOK, ServerNext, Serve, Handle, ServerCloses, Cleanup
<1>3. CASE DropRegistry \/ UNCHANGED vars
  BY <1>3 DEF TypeInv, LinksOK, DropRegistry
<1> QED
  BY <1>1, <1>2, <1>3, Steps

\* The server's side of each socket stays in its range.
LEMMA PhasesTypes ==
    ASSUME TypeInv, [Next]_vars
    PROVE  PhasesOK'
<1> USE DEF vars, link, server
<1>1. phase \in [Conn -> Phases] /\ known \in [Conn -> BOOLEAN] /\ draining \in BOOLEAN /\ raced \in BOOLEAN
  BY DEF TypeInv, PhasesOK
<1>2. ASSUME NEW c \in Client, ClientNext(c) PROVE PhasesOK'
  <2>1. UNCHANGED <<known, draining, raced>>
    BY <1>2 DEF ClientNext, Mount, TokenArrives, TokenFails, TimerFires, SocketOpens, LinkDies, ServerClosed, Destroy, Edit, Receive, Announce
  <2>2. phase' = phase \/ \E k : \E p \in Phases : phase' = [phase EXCEPT ![k] = p]
    <3>1. CASE TokenArrives(c)
      BY <3>1 DEF TokenArrives, Phases
    <3>2. CASE LinkDies(c)
      BY <3>2 DEF LinkDies, Phases
    <3>3. CASE Destroy(c)
      <4>1. sock[c] # 0 => phase[Here(c)] \in Phases
        BY <1>1, HereFacts DEF TypeInv
      <4> QED
        BY <3>3, <4>1 DEF Destroy, Phases
    <3> QED
      BY <1>2, <3>1, <3>2, <3>3 DEF ClientNext, Mount, TokenFails, TimerFires, SocketOpens, ServerClosed,
         Edit, Receive, Announce
  <2> QED
    BY <1>1, <2>1, <2>2 DEF PhasesOK
<1>3. ASSUME NEW k \in Conn, ServerNext(k) PROVE PhasesOK'
  <2>1. phase' = phase \/ \E p \in Phases : phase' = [phase EXCEPT ![k] = p]
    BY <1>3 DEF ServerNext, Serve, Handle, ServerCloses, Cleanup, Phases
  <2>2. known' = known \/ known' = [known EXCEPT ![k] = TRUE]
    BY <1>3 DEF ServerNext, Serve, Handle, ServerCloses, Cleanup
  <2>3. draining' \in BOOLEAN /\ raced' \in BOOLEAN
    BY <1>1, <1>3 DEF ServerNext, Serve, Handle, ServerCloses, Cleanup
  <2>4. phase' \in [Conn -> Phases]
    BY <1>1, <2>1
  <2>5. known' \in [Conn -> BOOLEAN]
    BY <1>1, <2>2
  <2> QED
    BY <2>3, <2>4, <2>5 DEF PhasesOK
<1>4. CASE DropRegistry
  <2>1. draining' \in BOOLEAN /\ raced' \in BOOLEAN
    BY <1>1, <1>4 DEF DropRegistry
  <2> QED
    BY <1>1, <1>4, <2>1 DEF DropRegistry, PhasesOK
<1>5. CASE UNCHANGED vars
  BY <1>1, <1>5 DEF PhasesOK
<1> QED
  BY <1>2, <1>3, <1>4, <1>5, Steps

\* What each kind of frame is made of.
LEMMA FrameTypes ==
    /\ \A u \in SUBSET Update : Step1(u) \in Frame /\ Step2(u) \in Frame /\ Delta(u) \in Frame
    /\ \A on, off \in SUBSET Client : Presence(on, off) \in Frame
    /\ \A f \in Frame :
          \/ /\ f.kind \in {"step1", "step2", "update"} /\ f.kind # "awareness"
             /\ f.upd \in SUBSET Update
          \/ /\ f.kind = "awareness" /\ f.kind \notin {"step1", "step2", "update"}
             /\ f.on \in SUBSET Client /\ f.off \in SUBSET Client
BY DEF Frame, Step1, Step2, Delta, Presence

\* The head of a non-empty sequence of frames is a frame.
LEMMA HeadFrame ==
    ASSUME NEW s \in Seq(Frame), s # << >>
    PROVE  /\ Head(s) \in Frame /\ Head(s) = s[1] /\ 1 \in DOMAIN s
           /\ Tail(s) \in Seq(Frame) /\ Len(s) \in Nat \ {0} /\ DOMAIN s = 1..Len(s)
OBVIOUS

\* Dropping what is in flight on a socket leaves sequences of frames.
LEMMA DroppedTypes ==
    ASSUME TypeInv
    PROVE  \A k : [down EXCEPT ![k] = << >>] \in [Conn -> Seq(Frame)]
<1>1. << >> \in Seq(Frame)
  OBVIOUS
<1>2. ASSUME NEW s \in Seq(Frame) PROVE \A k : [down EXCEPT ![k] = s] \in [Conn -> Seq(Frame)]
  BY DEF TypeInv, FramesOK
<1> QED
  BY <1>1, <1>2

\* Documents hold updates, tables hold sessions, and edits are bounded by the script.
LEMMA DataTypes ==
    ASSUME TypeInv, [Next]_vars
    PROVE  DataOK'
<1> USE DEF vars, link, server
<1>1. /\ doc \in [Client -> SUBSET Update] /\ room \in SUBSET Update
      /\ aware \in [Client -> SUBSET Client] /\ reg \in SUBSET Client
      /\ made \in Seq(Client) /\ Len(made) <= MaxEdit
      /\ script \in [edits: 0..MaxEdit, present: SUBSET Client]
      /\ up \in [Conn -> Seq(Frame)] /\ down \in [Conn -> Seq(Frame)]
  BY DEF TypeInv, DataOK, FramesOK
<1>2. script' = script
  BY DEF Next, Mount, TokenArrives, TokenFails, TimerFires, SocketOpens, LinkDies, ServerClosed, Destroy, Edit, Receive, Announce, Serve, Handle, ServerCloses, Cleanup, DropRegistry
<1>3. ASSUME NEW c \in Client, ClientNext(c) PROVE DataOK'
  <2>1. CASE Edit(c)
    <3>1. Len(made) + 1 \in Update /\ made' = Append(made, c)
          /\ doc' = [doc EXCEPT ![c] = @ \cup {Len(made) + 1}] /\ Len(made) < MaxEdit
      BY <1>1, <2>1, BoundAssumption DEF Edit, Update
    <3>2. made' \in Seq(Client) /\ Len(made') <= MaxEdit
      BY <1>1, <3>1, BoundAssumption
    <3>3. doc' \in [Client -> SUBSET Update]
      BY <1>1, <3>1
    <3> QED
      BY <1>1, <1>2, <2>1, <3>2, <3>3 DEF Edit, DataOK
  <2>2. CASE Receive(c)
    <3>1. PICK f : f = Head(down[Here(c)]) /\ down[Here(c)] # << >> /\ sock[c] # 0
      BY <2>2 DEF Receive
    <3>2. f \in Frame
      BY <1>1, <3>1, HereFacts, HeadFrame DEF TypeInv
    <3>3. doc' \in [Client -> SUBSET Update]
      <4>1. doc' = [doc EXCEPT ![c] = IF f.kind \in {"step2", "update"} THEN @ \cup f.upd ELSE @]
        BY <2>2, <3>1 DEF Receive
      <4> QED
        BY <1>1, <3>2, <4>1, FrameTypes
    <3>4. aware' \in [Client -> SUBSET Client]
      <4>1. aware' = [aware EXCEPT ![c] = IF f.kind = "awareness" THEN Merge(@, f, c) ELSE @]
        BY <2>2, <3>1 DEF Receive
      <4> QED
        BY <1>1, <3>2, <4>1, FrameTypes DEF Merge
    <3> QED
      BY <1>1, <1>2, <2>2, <3>3, <3>4 DEF Receive, DataOK
  <2>3. CASE Destroy(c) \/ Announce(c)
    <3>1. \/ aware' = [aware EXCEPT ![c] = aware[c] \ {c}]
          \/ aware' = [aware EXCEPT ![c] = aware[c] \cup {c}]
      BY <2>3 DEF Destroy, Announce
    <3>2. aware[c] \ {c} \in SUBSET Client /\ aware[c] \cup {c} \in SUBSET Client
      BY <1>1
    <3>3. aware' \in [Client -> SUBSET Client]
      BY <1>1, <3>1, <3>2
    <3> QED
      BY <1>1, <1>2, <2>3, <3>3 DEF Destroy, Announce, DataOK
  <2>4. CASE UNCHANGED <<doc, aware, room, reg, made>>
    BY <1>1, <1>2, <2>4 DEF DataOK
  <2> QED
    BY <1>3, <2>1, <2>2, <2>3, <2>4 DEF ClientNext, Mount, TokenArrives, TokenFails, TimerFires,
       SocketOpens, LinkDies, ServerClosed
<1>4. ASSUME NEW k \in Conn, ServerNext(k) PROVE DataOK'
  <2>1. UNCHANGED <<doc, aware, made>>
    BY <1>4 DEF ServerNext, Serve, Handle, ServerCloses, Cleanup
  <2>2. CASE Handle(k)
    <3>1. PICK f : f = Head(up[k]) /\ up[k] # << >>
      BY <2>2 DEF Handle
    <3>2. f \in Frame
      BY <1>1, <3>1, HeadFrame
    <3>3. room' = room \/ (f.kind \in {"step2", "update"} /\ room' = room \cup f.upd)
      BY <2>2, <3>1 DEF Handle
    <3>4. reg' = reg \/ (f.kind = "awareness" /\ reg' = Merge(reg, f, "server"))
      BY <2>2, <3>1 DEF Handle
    <3>5. room' \in SUBSET Update /\ reg' \in SUBSET Client
      BY <1>1, <3>2, <3>3, <3>4, FrameTypes DEF Merge
    <3> QED
      BY <1>1, <1>2, <2>1, <3>5 DEF DataOK
  <2>3. CASE ~Handle(k)
    <3>1. room' = room /\ reg' \subseteq reg
      BY <1>4, <2>3 DEF ServerNext, Serve, ServerCloses, Cleanup
    <3> QED
      BY <1>1, <1>2, <2>1, <3>1 DEF DataOK
  <2> QED
    BY <2>2, <2>3
<1>5. CASE DropRegistry
  BY <1>1, <1>2, <1>5 DEF DropRegistry, DataOK
<1>6. CASE UNCHANGED vars
  BY <1>1, <1>6 DEF DataOK
<1> QED
  BY <1>3, <1>4, <1>5, <1>6, Steps

\* How a session's step changes the frames in flight on its socket.
LEMMA SendTypes ==
    ASSUME TypeInv, NEW c \in Client, NEW fs \in Seq(Frame), SendUp(c, fs)
    PROVE  up' \in [Conn -> Seq(Frame)]
<1>1. up \in [Conn -> Seq(Frame)]
  BY DEF TypeInv, FramesOK
<1>2. CASE sock[c] # 0 /\ open[c]
  <2>1. Here(c) \in Conn
    BY <1>2, HereFacts DEF TypeInv
  <2>2. up[Here(c)] \o fs \in Seq(Frame)
    BY <1>1, <2>1
  <2> QED
    BY <1>1, <1>2, <2>2 DEF SendUp
<1> QED
  BY <1>1, <1>2 DEF SendUp

\* A broadcast puts one frame on some of the sockets.
LEMMA BroadcastTypes ==
    ASSUME TypeInv, NEW k, NEW f \in Frame, Broadcast(k, f)
    PROVE  down' \in [Conn -> Seq(Frame)]
<1>1. down \in [Conn -> Seq(Frame)]
  BY DEF TypeInv, FramesOK
<1>2. \A j \in Conn : Append(down[j], f) \in Seq(Frame)
  BY <1>1
<1> QED
  BY <1>1, <1>2 DEF Broadcast

\* Only frames of the protocol travel.
LEMMA FramesTypes ==
    ASSUME TypeInv, [Next]_vars
    PROVE  FramesOK'
<1> USE DEF vars, link, server
<1>1. /\ doc \in [Client -> SUBSET Update] /\ room \in SUBSET Update
      /\ aware \in [Client -> SUBSET Client] /\ reg \in SUBSET Client
      /\ made \in Seq(Client) /\ Len(made) <= MaxEdit
      /\ script \in [edits: 0..MaxEdit, present: SUBSET Client]
      /\ up \in [Conn -> Seq(Frame)] /\ down \in [Conn -> Seq(Frame)]
  BY DEF TypeInv, DataOK, FramesOK
<1>2. ASSUME NEW c \in Client, ClientNext(c) PROVE FramesOK'
  <2>1. CASE SocketOpens(c)
    <3>1. <<Step1(doc[c])>> \in Seq(Frame)
      BY <1>1, FrameTypes
    <3> QED
      BY <1>1, <2>1, <3>1 DEF SocketOpens, FramesOK
  <2>2. CASE LinkDies(c) \/ ServerClosed(c)
    <3>1. up' = up /\ down' = [down EXCEPT ![Here(c)] = << >>]
      BY <2>2 DEF LinkDies, ServerClosed, Closed
    <3>2. down' \in [Conn -> Seq(Frame)]
      BY <3>1, DroppedTypes
    <3> QED
      BY <1>1, <3>1, <3>2 DEF FramesOK
  <2>3. CASE Destroy(c)
    <3>1. <<Presence({}, {c})>> \in Seq(Frame)
      BY FrameTypes
    <3>2. up' \in [Conn -> Seq(Frame)]
      BY <2>3, <3>1, SendTypes DEF Destroy
    <3>3. down' = down \/ down' = [down EXCEPT ![Here(c)] = << >>]
      BY <2>3 DEF Destroy
    <3>4. down' \in [Conn -> Seq(Frame)]
      BY <1>1, <3>3, DroppedTypes
    <3> QED
      BY <3>2, <3>4 DEF FramesOK
  <2>4. CASE Edit(c)
    <3>1. Len(made) + 1 \in Update
      BY <1>1, <2>4, BoundAssumption DEF Edit, Update
    <3>2. <<Delta({Len(made) + 1})>> \in Seq(Frame)
      BY <3>1, FrameTypes
    <3> QED
      BY <1>1, <2>4, <3>2, SendTypes DEF Edit, FramesOK
  <2>5. CASE Receive(c)
    <3>1. PICK f : f = Head(down[Here(c)]) /\ down[Here(c)] # << >> /\ sock[c] # 0
      BY <2>5 DEF Receive
    <3>2. f \in Frame /\ Here(c) \in Conn /\ Tail(down[Here(c)]) \in Seq(Frame)
      BY <1>1, <3>1, HereFacts, HeadFrame DEF TypeInv
    <3>3. down' \in [Conn -> Seq(Frame)]
      BY <1>1, <2>5, <3>2 DEF Receive
    <3>4. up' \in [Conn -> Seq(Frame)]
      <4>1. <<Step2(doc[c] \ f.upd)>> \in Seq(Frame)
        BY <1>1, FrameTypes
      <4>2. up' = up \/ SendUp(c, <<Step2(doc[c] \ f.upd)>>)
        BY <2>5, <3>1 DEF Receive
      <4> QED
        BY <1>1, <4>1, <4>2, SendTypes
    <3> QED
      BY <3>3, <3>4 DEF FramesOK
  <2>6. CASE Announce(c)
    <3>1. <<Presence({c}, {})>> \in Seq(Frame)
      BY FrameTypes
    <3> QED
      BY <1>1, <2>6, <3>1, SendTypes DEF Announce, FramesOK
  <2>7. CASE UNCHANGED <<up, down>>
    BY <1>1, <2>7 DEF FramesOK
  <2> QED
    BY <1>2, <2>1, <2>2, <2>3, <2>4, <2>5, <2>6, <2>7 DEF ClientNext, Mount, TokenArrives, TokenFails, TimerFires
<1>3. ASSUME NEW k \in Conn, ServerNext(k) PROVE FramesOK'
  <2>1. CASE Serve(k)
    <3> DEFINE told == IF reg = {} THEN << >> ELSE <<Presence(reg, {})>>
    <3>1. <<Step1(room)>> \in Seq(Frame) /\ told \in Seq(Frame)
      <4>1. Step1(room) \in Frame /\ Presence(reg, {}) \in Frame
        BY <1>1, FrameTypes
      <4>2. << >> \in Seq(Frame) /\ <<Step1(room)>> \in Seq(Frame) /\ <<Presence(reg, {})>> \in Seq(Frame)
        BY <4>1
      <4> QED
        BY <4>2
    <3>2. down' = [down EXCEPT ![k] = <<Step1(room)>> \o told] /\ up' = up
      BY <2>1 DEF Serve
    <3> HIDE DEF told
    <3>3. <<Step1(room)>> \o told \in Seq(Frame)
      BY <3>1
    <3> QED
      BY <1>1, <3>2, <3>3 DEF FramesOK
  <2>2. CASE Handle(k)
    <3>1. PICK f : f = Head(up[k]) /\ up[k] # << >>
      BY <2>2 DEF Handle
    <3>2. f \in Frame /\ Tail(up[k]) \in Seq(Frame)
      BY <1>1, <3>1, HeadFrame
    <3>3. up' \in [Conn -> Seq(Frame)]
      BY <1>1, <2>2, <3>2 DEF Handle
    <3>4. \/ down' = down
          \/ f.kind = "step1" /\ down' = [down EXCEPT ![k] = Append(@, Step2(room \ f.upd))]
          \/ f.kind \in {"step2", "update"} /\ Broadcast(k, Delta(f.upd))
          \/ Broadcast(k, f)
      BY <2>2, <3>1 DEF Handle
    <3>5. ASSUME down' = [down EXCEPT ![k] = Append(@, Step2(room \ f.upd))]
          PROVE  down' \in [Conn -> Seq(Frame)]
      <4>1. Step2(room \ f.upd) \in Frame
        BY <1>1, FrameTypes
      <4>2. Append(down[k], Step2(room \ f.upd)) \in Seq(Frame)
        BY <1>1, <4>1
      <4> QED
        BY <1>1, <3>5, <4>2
    <3>6. ASSUME f.kind \in {"step2", "update"}, Broadcast(k, Delta(f.upd))
          PROVE  down' \in [Conn -> Seq(Frame)]
      <4>1. Delta(f.upd) \in Frame
        BY <3>2, <3>6, FrameTypes
      <4> QED
        BY <3>6, <4>1, BroadcastTypes
    <3>7. down' \in [Conn -> Seq(Frame)]
      BY <1>1, <3>2, <3>4, <3>5, <3>6, BroadcastTypes
    <3> QED
      BY <3>3, <3>7 DEF FramesOK
  <2>3. CASE ServerCloses(k)
    BY <1>1, <2>3 DEF ServerCloses, FramesOK
  <2>4. CASE Cleanup(k)
    <3>1. up' \in [Conn -> Seq(Frame)]
      BY <1>1, <2>4 DEF Cleanup
    <3>2. down' = down \/ Broadcast(k, Presence({}, Offline(k)))
      BY <2>4 DEF Cleanup
    <3>3. Presence({}, Offline(k)) \in Frame
      BY <1>1, FrameTypes DEF Offline
    <3> QED
      BY <1>1, <3>1, <3>2, <3>3, BroadcastTypes DEF FramesOK
  <2> QED
    BY <1>3, <2>1, <2>2, <2>3, <2>4 DEF ServerNext
<1>4. CASE DropRegistry \/ UNCHANGED vars
  BY <1>1, <1>4 DEF DropRegistry, FramesOK
<1> QED
  BY <1>2, <1>3, <1>4, Steps

\* The types hold at the start ...
LEMMA TypeInit ==
    ASSUME Init
    PROVE  TypeInv
<1>1. ProvOK
  <2>1. 0 \in 0..AttemptCap
    BY DEF AttemptCap
  <2> QED
    BY <2>1 DEF Init, ProvOK, ProvType
<1>2. LinksOK
  BY ConnFacts DEF Init, LinksOK
<1>3. DataOK
  BY BoundAssumption DEF Init, DataOK, Update
<1>4. PhasesOK
  BY DEF Init, PhasesOK, Phases
<1>5. FramesOK
  BY DEF Init, FramesOK
<1> QED
  BY <1>1, <1>2, <1>3, <1>4, <1>5 DEF TypeInv

\* ... every step keeps them ...
LEMMA TypeStep == TypeInv /\ [Next]_vars => TypeInv'
BY ProvTypes, LinksTypes, DataTypes, PhasesTypes, FramesTypes DEF TypeInv

\* ... and they say what TypeOK says.
LEMMA TypeImplies == TypeInv => TypeOK
<1> SUFFICES ASSUME TypeInv PROVE TypeOK
  OBVIOUS
<1>1. \A c \in Client : dialled[c] \in sock[c]..MaxConn[c]
  BY ConnFacts DEF TypeInv, LinksOK
<1>2. \A k \in Conn : \A i \in DOMAIN up[k] : up[k][i] \in Frame
  BY DEF TypeInv, FramesOK
<1>3. \A k \in Conn : \A i \in DOMAIN down[k] : down[k][i] \in Frame
  BY DEF TypeInv, FramesOK
<1> QED
  BY <1>1, <1>2, <1>3 DEF TypeInv, TypeOK, ProvOK, ProvType, LinksOK, DataOK, PhasesOK, Phases

\* Every field of a session and of the room stays in its range.
THEOREM TypesHold == Spec => []TypeOK
<1>1. Spec => []TypeInv
  BY TypeInit, TypeStep, PTL DEF Spec
<1> QED
  BY <1>1, TypeImplies, PTL

\* What a session holds: a dial in progress, a timer, a socket, or nothing.
Holds(c) ==
    /\ ~(prov[c].dialing /\ prov[c].timer)
    /\ (prov[c].dialing \/ prov[c].timer) => sock[c] = 0
    /\ prov[c].destroyed => ~prov[c].timer /\ sock[c] = 0
    /\ Idle(c) => ~prov[c].dialing /\ ~prov[c].timer /\ sock[c] = 0
    /\ sock[c] \in {0, dialled[c]}
    /\ open[c] => sock[c] # 0
    /\ prov[c].status = "connected" => open[c]
\* What became of the sockets it opened.
Sockets(c) ==
    /\ \A n \in 1..MaxConn[c] : phase[<<c, n>>] \in {"dialled", "serving"} => sock[c] = n
    /\ \A n \in 1..MaxConn[c] : n > dialled[c] => phase[<<c, n>>] = "unused"
    /\ open[c] => phase[Here(c)] \notin {"unused", "dialled"}
LinkInv == \A c \in Client : Holds(c) /\ Sockets(c)

\* A session's step leaves the other sessions and their sockets alone.
LEMMA OtherSessions ==
    ASSUME TypeInv, NEW c \in Client, ClientNext(c), NEW d \in Client, d # c
    PROVE  /\ prov'[d] = prov[d] /\ sock'[d] = sock[d] /\ open'[d] = open[d]
           /\ dialled'[d] = dialled[d] /\ doc'[d] = doc[d] /\ aware'[d] = aware[d]
<1> USE DEF vars, link, server
<1>1. /\ prov \in [Client -> ProvType]
      /\ sock \in [Client -> Nat] /\ dialled \in [Client -> Nat] /\ open \in [Client -> BOOLEAN]
      /\ doc \in [Client -> SUBSET Update] /\ aware \in [Client -> SUBSET Client]
  BY DEF TypeInv, ProvOK, LinksOK, DataOK
<1>2. prov'[d] = prov[d]
  BY <1>1 DEF ClientNext, Mount, TokenArrives, TokenFails, TimerFires, SocketOpens, LinkDies, ServerClosed, Closed, Destroy, Edit, Receive, Announce
<1>3. sock'[d] = sock[d] /\ dialled'[d] = dialled[d]
  BY <1>1 DEF ClientNext, Mount, TokenArrives, TokenFails, TimerFires, SocketOpens, LinkDies, ServerClosed, Closed, Destroy, Edit, Receive, Announce
<1>4. open'[d] = open[d]
  BY <1>1 DEF ClientNext, Mount, TokenArrives, TokenFails, TimerFires, SocketOpens, LinkDies, ServerClosed, Closed, Destroy, Edit, Receive, Announce
<1>5. doc'[d] = doc[d] /\ aware'[d] = aware[d]
  BY <1>1 DEF ClientNext, Mount, TokenArrives, TokenFails, TimerFires, SocketOpens, LinkDies, ServerClosed, Closed, Destroy, Edit, Receive, Announce
<1> QED
  BY <1>2, <1>3, <1>4, <1>5

\* ... and the sockets of the other sessions.
LEMMA OtherSockets ==
    ASSUME TypeInv, NEW c \in Client, ClientNext(c), NEW k \in Conn, k[1] # c
    PROVE  phase'[k] = phase[k] /\ up'[k] = up[k] /\ down'[k] = down[k]
<1> USE DEF vars, link, server
<1>1. /\ phase \in [Conn -> Phases]
      /\ up \in [Conn -> Seq(Frame)] /\ down \in [Conn -> Seq(Frame)]
  BY DEF TypeInv, PhasesOK, FramesOK
<1>2. Here(c) # k /\ k # <<c, dialled[c] + 1>>
  BY DEF Here
<1>3. phase'[k] = phase[k]
  BY <1>1, <1>2 DEF ClientNext, Mount, TokenArrives, TokenFails, TimerFires, SocketOpens, LinkDies, ServerClosed, Closed, Destroy, Edit, Receive, Announce
<1>4. \A fs : SendUp(c, fs) => up'[k] = up[k]
  BY <1>1, <1>2 DEF SendUp
<1>5. up'[k] = up[k]
  BY <1>1, <1>2, <1>4 DEF ClientNext, Mount, TokenArrives, TokenFails, TimerFires, SocketOpens, LinkDies, ServerClosed, Closed, Destroy, Edit, Receive, Announce
<1>6. down'[k] = down[k]
  BY <1>1, <1>2 DEF ClientNext, Mount, TokenArrives, TokenFails, TimerFires, SocketOpens, LinkDies, ServerClosed, Closed, Destroy, Edit, Receive, Announce
<1> QED
  BY <1>3, <1>5, <1>6

\* A step of the server leaves the sessions alone.
LEMMA ServerLeaves ==
    ASSUME NEW k \in Conn, ServerNext(k)
    PROVE  UNCHANGED <<prov, sock, open, dialled, doc, aware, made>>
BY DEF ServerNext, Serve, Handle, ServerCloses, Cleanup

\* The provider's fields after the helpers of connect and reconnect.
LEMMA ProvFields ==
    ASSUME NEW p \in ProvType
    PROVE  LET s == ScheduleFrom(p) IN
           /\ s.dialing = p.dialing /\ s.destroyed = p.destroyed /\ s.status = p.status
           /\ s.synced = p.synced
           /\ p.destroyed => s.timer = p.timer
           /\ \A held \in BOOLEAN : LET q == ConnectFrom(p, held) IN
              /\ q.timer = p.timer /\ q.destroyed = p.destroyed /\ q.synced = p.synced
              /\ \/ q = p
                 \/ /\ ~held /\ ~p.destroyed /\ q.dialing
                    /\ q.status \in {"reconnecting", "connecting"}
BY DEF ScheduleFrom, ConnectFrom, ProvType

\* A session still holds at most one of a dial, a timer and a socket.
LEMMA HoldsStep ==
    ASSUME TypeInv, LinkInv, NEW c \in Client, ClientNext(c)
    PROVE  Holds(c)'
<1> USE DEF vars, link, server
<1>1. /\ prov \in [Client -> ProvType] /\ prov[c] \in ProvType
      /\ sock \in [Client -> Nat] /\ dialled \in [Client -> Nat] /\ open \in [Client -> BOOLEAN]
      /\ sock[c] <= dialled[c]
  BY DEF TypeInv, ProvOK, LinksOK
<1>2. Holds(c) /\ Sockets(c)
  BY DEF LinkInv
<1>3. CASE Mount(c)
  <2>1. prov'[c] = ConnectFrom(prov[c], FALSE)
    BY <1>1, <1>3 DEF Mount
  <2> QED
    BY <1>1, <1>2, <1>3, <2>1, ProvFields DEF Mount, Holds, Idle
<1>4. CASE TokenArrives(c)
  <2>1. prov'[c] = [prov[c] EXCEPT !.dialing = FALSE] /\ prov[c].dialing
    BY <1>1, <1>4 DEF TokenArrives
  <2>2. /\ prov'[c].timer = prov[c].timer /\ prov'[c].destroyed = prov[c].destroyed
        /\ prov'[c].status = prov[c].status /\ ~prov'[c].dialing
    BY <1>1, <2>1 DEF ProvType
  <2>3. CASE prov[c].destroyed
    BY <1>2, <1>4, <2>1, <2>2, <2>3 DEF TokenArrives, Abandoned, Holds, Idle
  <2>4. CASE ~prov[c].destroyed
    <3>1. /\ sock'[c] = dialled[c] + 1 /\ dialled'[c] = dialled[c] + 1 /\ ~open'[c]
      BY <1>1, <1>4, <2>4 DEF TokenArrives, Abandoned
    <3> QED
      BY <1>2, <2>1, <2>2, <2>4, <3>1 DEF Holds, Idle
  <2> QED
    BY <2>3, <2>4
<1>5. CASE TokenFails(c)
  <2> DEFINE p == [prov[c] EXCEPT !.dialing = FALSE]
  <2>1. /\ p \in ProvType /\ p.timer = prov[c].timer /\ p.destroyed = prov[c].destroyed
        /\ p.status = prov[c].status /\ ~p.dialing
    BY <1>1 DEF ProvType
  <2>2. prov'[c] = ScheduleFrom(p) /\ prov[c].dialing
    BY <1>1, <1>5 DEF TokenFails
  <2> HIDE DEF p
  <2>3. /\ ~prov'[c].dialing /\ prov'[c].destroyed = prov[c].destroyed /\ prov'[c].status = prov[c].status
        /\ prov[c].destroyed => prov'[c].timer = prov[c].timer
    BY <2>1, <2>2, ProvFields
  <2> QED
    BY <1>2, <1>5, <2>2, <2>3 DEF TokenFails, Holds, Idle
<1>6. CASE TimerFires(c)
  <2> DEFINE p == [prov[c] EXCEPT !.timer = FALSE]
  <2>1. /\ p \in ProvType /\ ~p.timer /\ p.destroyed = prov[c].destroyed
        /\ p.status = prov[c].status /\ p.dialing = prov[c].dialing
    BY <1>1 DEF ProvType
  <2>2. prov'[c] = ConnectFrom(p, sock[c] # 0) /\ prov[c].timer /\ sock[c] = 0
    BY <1>1, <1>2, <1>6 DEF TimerFires, Holds
  <2> HIDE DEF p
  <2>3. /\ ~prov'[c].timer /\ prov'[c].destroyed = prov[c].destroyed
        /\ \/ prov'[c] = p
           \/ prov'[c].dialing /\ prov'[c].status \in {"reconnecting", "connecting"}
    BY ZenonT(60), <2>1, <2>2, ProvFields
  <2> QED
    BY <1>2, <1>6, <2>1, <2>2, <2>3 DEF TimerFires, Holds, Idle
<1>7. CASE SocketOpens(c)
  <2>1. prov'[c] = [prov[c] EXCEPT !.attempt = 0, !.status = "connected"] /\ sock[c] # 0 /\ open'[c]
    BY <1>1, <1>7 DEF SocketOpens
  <2>2. /\ prov'[c].timer = prov[c].timer /\ prov'[c].destroyed = prov[c].destroyed
        /\ prov'[c].status = "connected" /\ prov'[c].dialing = prov[c].dialing
    BY <1>1, <2>1 DEF ProvType
  <2> QED
    BY <1>2, <1>7, <2>1, <2>2 DEF SocketOpens, Holds, Idle
<1>8. ASSUME Closed(c), dialled' = dialled, sock[c] # 0
      PROVE  Holds(c)'
  <2>1. sock'[c] = 0 /\ ~open'[c] /\ ~prov[c].destroyed /\ ~prov[c].dialing /\ ~prov[c].timer
    BY <1>1, <1>2, <1>8 DEF Closed, Holds
  <2> DEFINE p == [prov[c] EXCEPT !.status = "reconnecting"]
  <2>2. /\ p \in ProvType /\ p.timer = prov[c].timer /\ p.destroyed = prov[c].destroyed
        /\ p.status = "reconnecting" /\ p.dialing = prov[c].dialing
    BY <1>1 DEF ProvType
  <2>3. prov'[c] = ScheduleFrom(p)
    BY <1>1, <1>8 DEF Closed
  <2> HIDE DEF p
  <2>4. /\ prov'[c].dialing = prov[c].dialing /\ prov'[c].destroyed = prov[c].destroyed
        /\ prov'[c].status = "reconnecting"
    BY <2>2, <2>3, ProvFields
  <2> QED
    BY <1>8, <2>1, <2>4 DEF Holds, Idle
<1>9. CASE LinkDies(c) \/ ServerClosed(c)
  BY <1>8, <1>9 DEF LinkDies, ServerClosed
<1>10. CASE Destroy(c)
  <2>1. /\ prov'[c] = [prov[c] EXCEPT !.destroyed = TRUE, !.timer = FALSE, !.status = "closed"]
        /\ sock'[c] = 0 /\ ~open'[c]
    BY <1>1, <1>10 DEF Destroy
  <2>2. ~prov'[c].timer /\ prov'[c].status = "closed" /\ prov'[c].dialing = prov[c].dialing
    BY <1>1, <2>1 DEF ProvType
  <2> QED
    BY <1>10, <2>1, <2>2 DEF Destroy, Holds, Idle
<1>11. CASE Receive(c)
  <2>1. PICK b : prov'[c] = [prov[c] EXCEPT !.synced = b]
    BY <1>1, <1>11 DEF Receive
  <2>2. /\ prov'[c].timer = prov[c].timer /\ prov'[c].destroyed = prov[c].destroyed
        /\ prov'[c].status = prov[c].status /\ prov'[c].dialing = prov[c].dialing
    BY <1>1, <2>1 DEF ProvType
  <2> QED
    BY <1>2, <1>11, <2>2 DEF Receive, Holds, Idle
<1>12. CASE Edit(c) \/ Announce(c)
  BY <1>2, <1>12 DEF Edit, Announce, Holds, Idle
<1> QED
  BY <1>3, <1>4, <1>5, <1>6, <1>7, <1>9, <1>10, <1>11, <1>12 DEF ClientNext

\* The sockets it let go of stay closed.
LEMMA SocketsStep ==
    ASSUME TypeInv, LinkInv, NEW c \in Client, ClientNext(c)
    PROVE  Sockets(c)'
<1> USE DEF vars, link, server
<1>1. /\ phase \in [Conn -> Phases]
      /\ sock \in [Client -> Nat] /\ dialled \in [Client -> Nat] /\ open \in [Client -> BOOLEAN]
      /\ sock[c] <= dialled[c] /\ MaxConn[c] \in Nat \ {0}
  BY ConnFacts DEF TypeInv, PhasesOK, LinksOK
<1>2. /\ Holds(c) /\ Sockets(c)
      /\ \A n \in 1..MaxConn[c] : <<c, n>> \in Conn
      /\ sock[c] # 0 => Here(c) = <<c, sock[c]>> /\ sock[c] \in 1..MaxConn[c]
  BY ConnFacts, HereFacts DEF LinkInv, TypeInv
<1>3. CASE TokenArrives(c)
  <2>1. CASE prov[c].destroyed
    BY <1>2, <1>3, <2>1 DEF TokenArrives, Abandoned, Sockets, Here
  <2>2. CASE ~prov[c].destroyed
    <3>1. /\ sock'[c] = dialled[c] + 1 /\ dialled'[c] = dialled[c] + 1 /\ ~open'[c] /\ prov[c].dialing
          /\ phase' = [phase EXCEPT ![<<c, dialled[c] + 1>>] = "dialled"]
      BY <1>1, <1>3, <2>2 DEF TokenArrives, Abandoned
    <3>2. sock[c] = 0
      BY <1>2, <3>1 DEF Holds
    <3>3. ASSUME NEW n \in 1..MaxConn[c]
          PROVE  /\ phase'[<<c, n>>] \in {"dialled", "serving"} => sock'[c] = n
                 /\ n > dialled'[c] => phase'[<<c, n>>] = "unused"
      <4>1. CASE n = dialled[c] + 1
        BY <1>1, <1>2, <3>1, <4>1
      <4>2. CASE n # dialled[c] + 1
        <5>1. phase'[<<c, n>>] = phase[<<c, n>>]
          BY <1>1, <1>2, <3>1, <4>2
        <5> QED
          BY <1>1, <1>2, <3>1, <3>2, <5>1 DEF Sockets
      <4> QED
        BY <4>1, <4>2
    <3> QED
      BY <3>1, <3>3 DEF Sockets
  <2> QED
    BY <2>1, <2>2
<1>4. CASE LinkDies(c) \/ ServerClosed(c) \/ Destroy(c)
  <2>1. sock'[c] = 0 /\ ~open'[c] /\ dialled' = dialled
    BY <1>1, <1>4 DEF LinkDies, ServerClosed, Closed, Destroy
  <2>2. \A n \in 1..MaxConn[c] : sock[c] # n => phase'[<<c, n>>] = phase[<<c, n>>]
    BY <1>1, <1>2, <1>4 DEF LinkDies, ServerClosed, Destroy, Here
  <2>3. ASSUME sock[c] # 0 PROVE phase'[Here(c)] \notin {"dialled", "serving"}
    BY <1>1, <1>2, <1>4, <2>3 DEF LinkDies, ServerClosed, Destroy
  <2>4. ASSUME NEW n \in 1..MaxConn[c]
        PROVE  /\ phase'[<<c, n>>] \notin {"dialled", "serving"}
               /\ n > dialled[c] => phase'[<<c, n>>] = "unused"
    <3>1. CASE n = sock[c]
      BY <1>1, <1>2, <2>3, <3>1
    <3>2. CASE n # sock[c]
      BY <1>2, <2>2, <3>2 DEF Sockets
    <3> QED
      BY <3>1, <3>2
  <2> QED
    BY <2>1, <2>4 DEF Sockets
<1>5. CASE SocketOpens(c)
  BY <1>2, <1>5 DEF SocketOpens, Sockets, Here
<1>6. CASE UNCHANGED <<phase, sock, open, dialled>>
  BY <1>2, <1>6 DEF Sockets, Here
<1> QED
  BY <1>3, <1>4, <1>5, <1>6 DEF ClientNext, Mount, TokenFails, TimerFires, Edit, Receive, Announce

\* Every step keeps the invariant of the links ...
LEMMA LinkStep == TypeInv /\ LinkInv /\ [Next]_vars => LinkInv'
<1> USE DEF vars, link, server
<1> SUFFICES ASSUME TypeInv, LinkInv, [Next]_vars PROVE LinkInv'
  OBVIOUS
<1>1. ASSUME NEW c \in Client, ClientNext(c) PROVE LinkInv'
  <2>1. ASSUME NEW d \in Client, d # c PROVE Holds(d)' /\ Sockets(d)'
    <3>1. /\ prov'[d] = prov[d] /\ sock'[d] = sock[d] /\ open'[d] = open[d]
          /\ dialled'[d] = dialled[d]
      BY <1>1, <2>1, OtherSessions
    <3>2. \A n \in 1..MaxConn[d] : phase'[<<d, n>>] = phase[<<d, n>>]
      BY <1>1, <2>1, OtherSockets, ConnFacts
    <3>3. open[d] => phase'[Here(d)] = phase[Here(d)]
      BY <3>2, HereFacts DEF LinkInv, Holds, TypeInv
    <3> QED
      BY <3>1, <3>2, <3>3 DEF LinkInv, Holds, Sockets, Idle, Here
  <2> QED
    BY <1>1, <2>1, HoldsStep, SocketsStep DEF LinkInv
<1>2. ASSUME NEW k \in Conn, ServerNext(k) PROVE LinkInv'
  <2>1. UNCHANGED <<prov, sock, open, dialled>>
    BY <1>2, ServerLeaves
  <2>2. ASSUME NEW c \in Client PROVE Holds(c)'
    BY <2>1 DEF LinkInv, Holds, Idle
  <2>3. \/ phase' = phase
        \/ phase[k] = "dialled" /\ phase' = [phase EXCEPT ![k] = "serving"]
        \/ phase[k] \in {"serving", "broken", "closing"} /\ \E p \in {"closing", "gone"} : phase' = [phase EXCEPT ![k] = p]
    BY <1>2 DEF ServerNext, Serve, Handle, ServerCloses, Cleanup
  <2>4. ASSUME NEW c \in Client PROVE Sockets(c)'
    <3>1. Sockets(c) /\ phase \in [Conn -> Phases]
      BY DEF LinkInv, TypeInv, PhasesOK
    <3>2. \A j \in Conn : \/ phase'[j] = phase[j]
                          \/ phase[j] = "dialled" /\ phase'[j] = "serving"
                          \/ phase[j] \in {"serving", "broken", "closing"} /\ phase'[j] \in {"closing", "gone"}
      BY <2>3, <3>1
    <3>3. open[c] => Here(c) \in Conn
      BY HereFacts DEF LinkInv, Holds, TypeInv
    <3>4. \A n \in 1..MaxConn[c] : <<c, n>> \in Conn
      BY ConnFacts
    <3> QED
      BY <2>1, <3>1, <3>2, <3>3, <3>4 DEF Sockets, Here
  <2> QED
    BY <2>2, <2>4 DEF LinkInv
<1>3. CASE DropRegistry \/ UNCHANGED vars
  BY <1>3 DEF DropRegistry, LinkInv, Holds, Sockets, Idle, Here
<1> QED
  BY <1>1, <1>2, <1>3, Steps

\* ... which holds at the start ...
LEMMA LinkInit ==
    ASSUME Init
    PROVE  LinkInv
BY ConnFacts DEF Init, LinkInv, Holds, Sockets, Idle

\* ... and so always.
LEMMA LinksInvariant == Spec => [](TypeInv /\ LinkInv)
BY TypeInit, TypeStep, LinkInit, LinkStep, PTL DEF Spec

\* A provider never has two links, nor leaves one behind when it is torn down.
THEOREM OneLinkHolds == Spec => []OneLink
<1>1. LinkInv => OneLink
  BY DEF LinkInv, Holds, Sockets, OneLink
<1> QED
  BY <1>1, LinksInvariant, PTL

\* A sequence of frames brings update x, or asks for what its sender lacks.
Carries(s, x) == \E i \in DOMAIN s : s[i].kind \in {"step2", "update"} /\ x \in s[i].upd
Asks(s) == \E i \in DOMAIN s : s[i].kind = "step1"
\* Its frames name updates of S only; an answer to a first step brings the
\* opening content to a session that has the updates D.
Within(s, S) == \A i \in DOMAIN s : s[i].kind # "awareness" => s[i].upd \subseteq S
Answers(s, D) == \A i \in DOMAIN s : s[i].kind = "step2" => 0 \in s[i].upd \cup D

\* Over an open link in service, what one side lacks is on its way to it, or
\* has been asked for.
Matched(c) ==
    sock[c] # 0 /\ phase[Here(c)] = "serving" =>
        /\ open[c] => \A x \in room : x \in doc[c] \/ Carries(down[Here(c)], x) \/ Asks(up[Here(c)])
        /\ c \in Writer => \A x \in doc[c] : x \in room \/ Carries(up[Here(c)], x) \/ Asks(down[Here(c)])
        /\ ~open[c] => Asks(down[Here(c)])
Flows(k) == Within(up[k], doc[k[1]]) /\ Within(down[k], room) /\ Answers(down[k], doc[k[1]])
SyncInv ==
    /\ 0 \in room
    /\ \A k \in Conn : Flows(k)
    /\ \A c \in Client : prov[c].synced => 0 \in doc[c]
    /\ \A c \in Client : Matched(c)

\* What one more frame adds to a sequence of frames.
LEMMA AppendFacts ==
    ASSUME NEW s \in Seq(Frame), NEW f \in Frame
    PROVE  /\ s \o <<f>> = Append(s, f)
           /\ Asks(Append(s, f)) <=> (Asks(s) \/ f.kind = "step1")
           /\ \A x : Carries(s, x) => Carries(Append(s, f), x)
           /\ \A x : f.kind \in {"step2", "update"} /\ x \in f.upd => Carries(Append(s, f), x)
           /\ \A S : Within(s, S) /\ (f.kind # "awareness" => f.upd \subseteq S) => Within(Append(s, f), S)
           /\ \A D : Answers(s, D) /\ (f.kind = "step2" => 0 \in f.upd \cup D) => Answers(Append(s, f), D)
<1>1. /\ DOMAIN Append(s, f) = 1..(Len(s) + 1) /\ DOMAIN s = 1..Len(s) /\ Len(s) \in Nat
      /\ \A i \in 1..Len(s) : Append(s, f)[i] = s[i] 
      /\ Append(s, f)[Len(s) + 1] = f
  OBVIOUS
<1>2. \A i : i \in DOMAIN Append(s, f) <=> (i \in DOMAIN s \/ i = Len(s) + 1)
  BY <1>1
<1>3. s \o <<f>> = Append(s, f)
  OBVIOUS
<1>4. Asks(Append(s, f)) <=> (Asks(s) \/ f.kind = "step1")
  BY <1>1, <1>2 DEF Asks
<1>5. \A x : Carries(s, x) => Carries(Append(s, f), x)
  BY <1>1, <1>2 DEF Carries
<1>6. \A x : f.kind \in {"step2", "update"} /\ x \in f.upd => Carries(Append(s, f), x)
  BY <1>1, <1>2 DEF Carries
<1>7. \A S : Within(s, S) /\ (f.kind # "awareness" => f.upd \subseteq S) => Within(Append(s, f), S)
  BY <1>1, <1>2 DEF Within
<1>8. \A D : Answers(s, D) /\ (f.kind = "step2" => 0 \in f.upd \cup D) => Answers(Append(s, f), D)
  BY <1>1, <1>2 DEF Answers
<1> QED
  BY <1>3, <1>4, <1>5, <1>6, <1>7, <1>8

\* What is left of it once its head is handled.
LEMMA TailFacts ==
    ASSUME NEW s \in Seq(Frame), s # << >>
    PROVE  /\ Asks(s) => Head(s).kind = "step1" \/ Asks(Tail(s))
           /\ \A x : Carries(s, x) => \/ Head(s).kind \in {"step2", "update"} /\ x \in Head(s).upd
                                      \/ Carries(Tail(s), x)
           /\ \A S : Within(s, S) => Within(Tail(s), S) /\ (Head(s).kind # "awareness" => Head(s).upd \subseteq S)
           /\ \A D : Answers(s, D) => Answers(Tail(s), D) /\ (Head(s).kind = "step2" => 0 \in Head(s).upd \cup D)
<1>1. /\ DOMAIN s = 1..Len(s) /\ Len(s) \in Nat \ {0} /\ DOMAIN Tail(s) = 1..(Len(s) - 1)
      /\ \A i \in 1..(Len(s) - 1) : Tail(s)[i] = s[i + 1]
      /\ Head(s) = s[1]
  OBVIOUS
<1>2. \A i \in DOMAIN s : i = 1 \/ (i - 1 \in DOMAIN Tail(s) /\ Tail(s)[i - 1] = s[i])
  BY <1>1
<1>3. 1 \in DOMAIN s /\ \A i \in DOMAIN Tail(s) : i + 1 \in DOMAIN s /\ Tail(s)[i] = s[i + 1]
  BY <1>1
<1>4. Asks(s) => Head(s).kind = "step1" \/ Asks(Tail(s))
  BY <1>1, <1>2 DEF Asks
<1>5. \A x : Carries(s, x) => \/ Head(s).kind \in {"step2", "update"} /\ x \in Head(s).upd
                              \/ Carries(Tail(s), x)
  BY <1>1, <1>2 DEF Carries
<1>6. \A S : Within(s, S) => Within(Tail(s), S) /\ (Head(s).kind # "awareness" => Head(s).upd \subseteq S)
  BY <1>1, <1>3 DEF Within
<1>7. \A D : Answers(s, D) => Answers(Tail(s), D) /\ (Head(s).kind = "step2" => 0 \in Head(s).upd \cup D)
  BY <1>1, <1>3 DEF Answers
<1> QED
  BY <1>4, <1>5, <1>6, <1>7

\* Both bounds may be widened.
LEMMA WiderFacts ==
    /\ \A s, S, T : Within(s, S) /\ S \subseteq T => Within(s, T)
    /\ \A s, D, E : Answers(s, D) /\ D \subseteq E => Answers(s, E)
    /\ \A S : Within(<< >>, S) /\ Answers(<< >>, S)
BY DEF Within, Answers

\* Sending to the peer of one frame.
LEMMA SendFacts ==
    ASSUME TypeInv, NEW c \in Client, NEW f \in Frame, SendUp(c, <<f>>)
    PROVE  /\ \A k \in Conn : up'[k] = up[k] \/ (k = Here(c) /\ up'[k] = Append(up[k], f))
           /\ sock[c] # 0 /\ open[c] => up'[Here(c)] = Append(up[Here(c)], f)
           /\ ~(sock[c] # 0 /\ open[c]) => up' = up
<1>1. up \in [Conn -> Seq(Frame)]
  BY DEF TypeInv, FramesOK
<1>2. CASE sock[c] # 0 /\ open[c]
  <2>1. Here(c) \in Conn
    BY <1>2, HereFacts DEF TypeInv
  <2>2. up' = [up EXCEPT ![Here(c)] = up[Here(c)] \o <<f>>]
    BY <1>2 DEF SendUp
  <2>3. up[Here(c)] \o <<f>> = Append(up[Here(c)], f)
    BY <1>1, <2>1, AppendFacts
  <2> QED
    BY <1>1, <1>2, <2>1, <2>2, <2>3
<1>3. CASE ~(sock[c] # 0 /\ open[c])
  BY <1>3 DEF SendUp
<1> QED
  BY <1>2, <1>3

\* A session's updates only grow, and the room does not change.
LEMMA DocGrows ==
    ASSUME TypeInv, NEW c \in Client, ClientNext(c)
    PROVE  doc[c] \subseteq doc'[c] /\ room' = room /\ reg' = reg /\ known' = known /\ raced' = raced
<1> USE DEF vars, link, server
<1>1. doc \in [Client -> SUBSET Update]
  BY DEF TypeInv, DataOK
<1>2. doc[c] \subseteq doc'[c]
  BY ZenonT(60), <1>1 DEF ClientNext, Mount, TokenArrives, TokenFails, TimerFires, SocketOpens, LinkDies, ServerClosed, Destroy, Edit, Receive, Announce
<1>3. room' = room /\ reg' = reg /\ known' = known /\ raced' = raced
  BY DEF ClientNext, Mount, TokenArrives, TokenFails, TimerFires, SocketOpens, LinkDies, ServerClosed, Destroy, Edit, Receive, Announce
<1> QED
  BY <1>2, <1>3

\* What a session's step puts on its sockets names updates it has; what it
\* takes off them is dropped or merged.
LEMMA ClientFlows ==
    ASSUME TypeInv, SyncInv, NEW c \in Client, ClientNext(c), NEW k \in Conn
    PROVE  Flows(k)'
<1> USE DEF vars, link, server
<1>1. /\ doc \in [Client -> SUBSET Update] /\ room \in SUBSET Update /\ made \in Seq(Client)
      /\ up \in [Conn -> Seq(Frame)] /\ down \in [Conn -> Seq(Frame)]
      /\ up[k] \in Seq(Frame) /\ down[k] \in Seq(Frame)
      /\ doc[c] \subseteq doc'[c] /\ room' = room
  BY DocGrows DEF TypeInv, DataOK, FramesOK
<1>2. Within(up[k], doc[k[1]]) /\ Within(down[k], room) /\ Answers(down[k], doc[k[1]])
  BY DEF SyncInv, Flows
<1>3. doc[k[1]] \subseteq doc'[k[1]]
  BY <1>1, OtherSessions, ConnFacts
<1>4. Within(up[k], doc'[k[1]]) /\ Within(down[k], room') /\ Answers(down[k], doc'[k[1]])
  <2>1. Within(up[k], doc'[k[1]])
    BY <1>2, <1>3, WiderFacts
  <2>2. Answers(down[k], doc'[k[1]])
    BY <1>2, <1>3, WiderFacts
  <2> QED
    BY <1>1, <1>2, <2>1, <2>2
<1>5. ASSUME Within(up'[k], doc'[k[1]]), Within(down'[k], room'), Answers(down'[k], doc'[k[1]])
      PROVE  Flows(k)'
  BY <1>5 DEF Flows
<1>6. CASE k[1] # c
  BY <1>4, <1>5, <1>6, OtherSockets
<1>7. CASE k[1] = c /\ up'[k] = up[k] /\ down'[k] = down[k]
  BY <1>4, <1>5, <1>7
<1>8. ASSUME k[1] = c, down'[k] = down[k] \/ down'[k] = << >>,
             NEW f \in Frame, SendUp(c, <<f>>), f.kind # "awareness" => f.upd \subseteq doc'[c]
      PROVE  Flows(k)'
  <2>1. up'[k] = up[k] \/ up'[k] = Append(up[k], f)
    BY <1>8, SendFacts
  <2>2. Within(Append(up[k], f), doc'[k[1]])
    BY <1>1, <1>4, <1>8, AppendFacts
  <2>3. Within(down'[k], room') /\ Answers(down'[k], doc'[k[1]])
    BY <1>4, <1>8, WiderFacts
  <2> QED
    BY <1>4, <1>5, <2>1, <2>2, <2>3
<1>9. CASE k[1] = c /\ SocketOpens(c)
  <2>1. up'[k] = up[k] \/ up'[k] = <<Step1(doc[c])>>
    BY <1>1, <1>9 DEF SocketOpens
  <2>2. Within(<<Step1(doc[c])>>, doc'[c])
    BY <1>1 DEF Within, Step1
  <2>3. down'[k] = down[k]
    BY <1>9 DEF SocketOpens
  <2> QED
    BY <1>4, <1>5, <1>9, <2>1, <2>2, <2>3
<1>10. CASE k[1] = c /\ (LinkDies(c) \/ ServerClosed(c))
  <2>1. up'[k] = up[k] /\ (down'[k] = down[k] \/ down'[k] = << >>)
    BY <1>1, <1>10 DEF LinkDies, ServerClosed, Closed
  <2> QED
    BY <1>4, <1>5, <2>1, WiderFacts
<1>11. CASE k[1] = c /\ Destroy(c)
  <2>1. Presence({}, {c}) \in Frame /\ Presence({}, {c}).kind = "awareness"
    BY FrameTypes DEF Presence
  <2>2. down'[k] = down[k] \/ down'[k] = << >>
    BY <1>1, <1>11 DEF Destroy
  <2>3. SendUp(c, <<Presence({}, {c})>>)
    BY <1>11 DEF Destroy
  <2> QED
    BY <1>8, <1>11, <2>1, <2>2, <2>3
<1>12. CASE k[1] = c /\ Edit(c)
  <2>1. Len(made) + 1 \in Update
    BY <1>1, <1>12, BoundAssumption DEF Edit, Update, TypeInv, DataOK
  <2>2. Delta({Len(made) + 1}) \in Frame /\ Delta({Len(made) + 1}).upd = {Len(made) + 1}
    BY <2>1, FrameTypes DEF Delta
  <2>3. Len(made) + 1 \in doc'[c]
    BY <1>1, <1>12 DEF Edit
  <2>4. down'[k] = down[k] /\ SendUp(c, <<Delta({Len(made) + 1})>>)
    BY <1>12 DEF Edit
  <2> QED
    BY <1>8, <1>12, <2>2, <2>3, <2>4
<1>13. CASE k[1] = c /\ Receive(c)
  <2>1. PICK f : f = Head(down[Here(c)]) /\ down[Here(c)] # << >> /\ sock[c] # 0 /\ open[c]
    BY <1>13 DEF Receive
  <2>2. Here(c) \in Conn /\ down[Here(c)] \in Seq(Frame) /\ f \in Frame
    BY <1>1, <2>1, HereFacts, HeadFrame DEF TypeInv
  <2>3. Within(down'[k], room') /\ Answers(down'[k], doc'[k[1]])
    <3>1. down' = [down EXCEPT ![Here(c)] = Tail(@)]
      BY <1>13 DEF Receive
    <3>2. CASE k = Here(c)
      <4>1. down'[k] = Tail(down[k]) /\ down[k] # << >>
        BY <1>1, <2>1, <3>1, <3>2
      <4> QED
        BY <1>1, <1>4, <4>1, TailFacts
    <3>3. CASE k # Here(c)
      BY <1>1, <1>4, <3>1, <3>3
    <3> QED
      BY <3>2, <3>3
  <2>4. Within(up'[k], doc'[k[1]])
    <3> DEFINE g == Step2(doc[c] \ f.upd)
    <3>1. g \in Frame /\ g.upd \subseteq doc'[k[1]]
      BY <1>1, <1>13, FrameTypes DEF Step2
    <3>2. up' = up \/ SendUp(c, <<g>>)
      BY <1>13, <2>1 DEF Receive
    <3> HIDE DEF g
    <3>3. up'[k] = up[k] \/ up'[k] = Append(up[k], g)
      BY <3>1, <3>2, SendFacts
    <3>4. Within(Append(up[k], g), doc'[k[1]])
      BY <1>1, <1>4, <3>1, AppendFacts
    <3> QED
      BY <1>4, <3>3, <3>4
  <2> QED
    BY <1>5, <2>3, <2>4
<1>14. CASE k[1] = c /\ Announce(c)
  <2>1. Presence({c}, {}) \in Frame /\ Presence({c}, {}).kind = "awareness"
    BY FrameTypes DEF Presence
  <2>2. down'[k] = down[k] /\ SendUp(c, <<Presence({c}, {})>>)
    BY <1>14 DEF Announce
  <2> QED
    BY <1>8, <1>14, <2>1, <2>2
<1> QED
  BY <1>6, <1>7, <1>9, <1>10, <1>11, <1>12, <1>13, <1>14
  DEF ClientNext, Mount, TokenArrives, TokenFails, TimerFires

\* The first sync is done once the opening content has arrived.
LEMMA ClientSynced ==
    ASSUME TypeInv, SyncInv, NEW c \in Client, ClientNext(c), prov'[c].synced
    PROVE  0 \in doc'[c]
<1> USE DEF vars, link, server
<1>1. /\ doc \in [Client -> SUBSET Update] /\ doc[c] \subseteq doc'[c]
      /\ down \in [Conn -> Seq(Frame)]
      /\ prov \in [Client -> ProvType] /\ prov[c] \in ProvType
  BY DocGrows DEF TypeInv, DataOK, FramesOK, ProvOK
<1>2. CASE Receive(c)
  <2>1. PICK f : f = Head(down[Here(c)]) /\ down[Here(c)] # << >> /\ sock[c] # 0
    BY <1>2 DEF Receive
  <2>2. Here(c) \in Conn /\ down[Here(c)] \in Seq(Frame) /\ Here(c)[1] = c
    BY <1>1, <2>1, HereFacts DEF TypeInv, Here
  <2>3. f.kind = "step2" => 0 \in f.upd \cup doc[c]
    BY <2>1, <2>2, TailFacts DEF SyncInv, Flows
  <2>4. doc'[c] = IF f.kind \in {"step2", "update"} THEN doc[c] \cup f.upd ELSE doc[c]
    BY <1>1, <1>2, <2>1 DEF Receive
  <2>5. prov'[c].synced = (prov[c].synced \/ f.kind = "step2")
    BY <1>1, <1>2, <2>1 DEF Receive, ProvType
  <2> QED
    BY <2>3, <2>4, <2>5 DEF SyncInv
<1>3. CASE ~Receive(c)
  <2>1. \/ prov'[c] = prov[c]
        \/ prov'[c] = ConnectFrom(prov[c], FALSE)
        \/ prov'[c] = [prov[c] EXCEPT !.dialing = FALSE]
        \/ prov'[c] = ScheduleFrom([prov[c] EXCEPT !.dialing = FALSE])
        \/ prov'[c] = ConnectFrom([prov[c] EXCEPT !.timer = FALSE], sock[c] # 0)
        \/ prov'[c] = [prov[c] EXCEPT !.attempt = 0, !.status = "connected"]
        \/ prov'[c] = ScheduleFrom([prov[c] EXCEPT !.status = "reconnecting"])
        \/ prov'[c] = [prov[c] EXCEPT !.destroyed = TRUE, !.timer = FALSE, !.status = "closed"]
    BY <1>1, <1>3 DEF ClientNext, Mount, TokenArrives, TokenFails, TimerFires, SocketOpens, LinkDies, ServerClosed, Closed, Destroy, Edit, Announce
  <2>2. /\ [prov[c] EXCEPT !.dialing = FALSE] \in ProvType
        /\ [prov[c] EXCEPT !.timer = FALSE] \in ProvType
        /\ [prov[c] EXCEPT !.status = "reconnecting"] \in ProvType
        /\ [prov[c] EXCEPT !.dialing = FALSE].synced = prov[c].synced
        /\ [prov[c] EXCEPT !.timer = FALSE].synced = prov[c].synced
        /\ [prov[c] EXCEPT !.status = "reconnecting"].synced = prov[c].synced
        /\ [prov[c] EXCEPT !.attempt = 0, !.status = "connected"].synced = prov[c].synced
        /\ [prov[c] EXCEPT !.destroyed = TRUE, !.timer = FALSE, !.status = "closed"].synced = prov[c].synced
    BY <1>1 DEF ProvType
  <2>3. \A p \in ProvType : ScheduleFrom(p).synced = p.synced
    BY ProvFields
  <2>4. \A p \in ProvType : \A held \in BOOLEAN : ConnectFrom(p, held).synced = p.synced
    BY ProvFields
  <2>5. prov'[c].synced = prov[c].synced
    BY <1>1, <2>1, <2>2, <2>3, <2>4
  <2> QED
    BY <1>1, <2>5 DEF SyncInv
<1> QED
  BY <1>2, <1>3

\* What each session lacks stays on its way when that session moves.
LEMMA ClientMatched ==
    ASSUME TypeInv, LinkInv, SyncInv, NEW c \in Client, ClientNext(c)
    PROVE  Matched(c)'
<1> USE DEF vars, link, server
<1>1. /\ doc \in [Client -> SUBSET Update] /\ room \in SUBSET Update /\ made \in Seq(Client)
      /\ up \in [Conn -> Seq(Frame)] /\ down \in [Conn -> Seq(Frame)]
      /\ phase \in [Conn -> Phases]
      /\ sock \in [Client -> Nat] /\ dialled \in [Client -> Nat] /\ open \in [Client -> BOOLEAN]
      /\ doc[c] \subseteq doc'[c] /\ room' = room
  BY DocGrows DEF TypeInv, DataOK, FramesOK, PhasesOK, LinksOK
<1>2. Matched(c) /\ Holds(c) /\ Sockets(c)
  BY DEF SyncInv, LinkInv
<1>3. sock[c] # 0 => Here(c) \in Conn /\ Here(c)[1] = c
  BY HereFacts DEF TypeInv, Here
<1>4. CASE UNCHANGED <<sock, open, phase, doc, up, down, room>>
  BY <1>2, <1>4 DEF Matched, Here
<1>5. CASE sock'[c] = 0
  BY <1>5 DEF Matched
<1>6. CASE TokenArrives(c)
  <2>1. CASE Abandoned(prov[c])
    BY <1>4, <1>6, <2>1 DEF TokenArrives
  <2>2. CASE ~Abandoned(prov[c])
    <3>1. /\ dialled[c] < MaxConn[c] /\ sock'[c] = dialled[c] + 1
          /\ phase' = [phase EXCEPT ![<<c, dialled[c] + 1>>] = "dialled"]
      BY <1>1, <1>6, <2>2 DEF TokenArrives
    <3>2. <<c, dialled[c] + 1>> \in Conn
      BY <1>1, <3>1, ConnFacts
    <3>3. phase'[<<c, sock'[c]>>] = "dialled"
      BY <1>1, <3>1, <3>2
    <3> QED
      BY <3>3 DEF Matched, Here
  <2> QED
    BY <2>1, <2>2
<1>7. CASE LinkDies(c) \/ ServerClosed(c) \/ Destroy(c)
  <2>1. sock'[c] = 0
    BY <1>1, <1>7 DEF LinkDies, ServerClosed, Closed, Destroy
  <2> QED
    BY <1>5, <2>1
<1>8. CASE SocketOpens(c)
  <2>1. /\ sock[c] # 0 /\ ~open[c] /\ phase[Here(c)] = "serving" /\ open'[c]
        /\ up' = [up EXCEPT ![Here(c)] = <<Step1(doc[c])>>]
        /\ UNCHANGED <<sock, phase, doc, down, room>>
    BY <1>1, <1>8 DEF SocketOpens
  <2>2. Asks(down[Here(c)])
    BY <1>2, <2>1 DEF Matched
  <2>3. up'[Here(c)] = <<Step1(doc[c])>>
    BY <1>1, <1>3, <2>1
  <2>4. Asks(<<Step1(doc[c])>>)
    BY DEF Asks, Step1
  <2> QED
    BY <2>1, <2>2, <2>3, <2>4 DEF Matched, Here
<1>9. ASSUME UNCHANGED <<sock, open, phase, down, room>>, sock[c] # 0, phase[Here(c)] = "serving",
             NEW f \in Frame, SendUp(c, <<f>>),
             \A x \in doc'[c] \ doc[c] : f.kind \in {"step2", "update"} /\ x \in f.upd
      PROVE  Matched(c)'
  <2>1. up[Here(c)] \in Seq(Frame)
    BY <1>1, <1>3, <1>9
  <2>2. CASE open[c]
    <3>1. up'[Here(c)] = Append(up[Here(c)], f)
      BY <1>9, <2>2, SendFacts
    <3>2. /\ Asks(up[Here(c)]) => Asks(up'[Here(c)])
          /\ \A x : Carries(up[Here(c)], x) => Carries(up'[Here(c)], x)
          /\ \A x \in doc'[c] \ doc[c] : Carries(up'[Here(c)], x)
      BY <1>9, <2>1, <3>1, AppendFacts
    <3> QED
      BY <1>1, <1>2, <1>9, <2>2, <3>2 DEF Matched, Here
  <2>3. CASE ~open[c]
    BY <1>2, <1>9, <2>3 DEF Matched, Here
  <2> QED
    BY <2>2, <2>3
<1>10. CASE Edit(c)
  <2>1. Len(made) + 1 \in Update
    BY <1>1, <1>10, BoundAssumption DEF Edit, Update, TypeInv, DataOK
  <2>2. /\ Delta({Len(made) + 1}) \in Frame /\ Delta({Len(made) + 1}).upd = {Len(made) + 1}
        /\ Delta({Len(made) + 1}).kind \in {"step2", "update"}
    BY <2>1, FrameTypes DEF Delta
  <2>3. \A x \in doc'[c] \ doc[c] : x = Len(made) + 1
    BY <1>1, <1>10 DEF Edit
  <2>4. UNCHANGED <<sock, open, phase, down, room>> /\ SendUp(c, <<Delta({Len(made) + 1})>>)
    BY <1>10 DEF Edit
  <2> QED
    BY <1>9, <2>2, <2>3, <2>4 DEF Matched, Here
<1>11. CASE Announce(c)
  <2>1. Presence({c}, {}) \in Frame
    BY FrameTypes
  <2>2. UNCHANGED <<sock, open, phase, down, room, doc>> /\ SendUp(c, <<Presence({c}, {})>>)
    BY <1>11 DEF Announce
  <2> QED
    BY <1>9, <2>1, <2>2 DEF Matched, Here
<1>12. CASE Receive(c)
  <2> DEFINE k == Here(c)
  <2>1. PICK f : f = Head(down[k]) /\ down[k] # << >> /\ sock[c] # 0 /\ open[c]
    BY <1>12 DEF Receive
  <2>2. k \in Conn /\ down[k] \in Seq(Frame) /\ up[k] \in Seq(Frame) /\ f \in Frame
    BY <1>1, <1>3, <2>1, HeadFrame
  <2>3. /\ UNCHANGED <<sock, open, phase, room>> /\ Here(c)' = k /\ down'[k] = Tail(down[k])
        /\ doc'[c] = IF f.kind \in {"step2", "update"} THEN doc[c] \cup f.upd ELSE doc[c]
        /\ f.kind = "step1" => SendUp(c, <<Step2(doc[c] \ f.upd)>>)
        /\ f.kind # "step1" => up' = up
    BY <1>1, <1>12, <2>1, <2>2 DEF Receive, Here
  <2>4. f.kind # "awareness" => f.upd \subseteq room
    BY <2>1, <2>2, TailFacts DEF SyncInv, Flows
  <2>5. /\ Asks(down[k]) => f.kind = "step1" \/ Asks(Tail(down[k]))
        /\ \A x : Carries(down[k], x) => (f.kind \in {"step2", "update"} /\ x \in f.upd) \/ Carries(Tail(down[k]), x)
    BY <2>1, <2>2, TailFacts
  <2>6. ASSUME phase[k] = "serving"
        PROVE  /\ \A x \in room : x \in doc[c] \/ Carries(down[k], x) \/ Asks(up[k])
               /\ c \in Writer => \A x \in doc[c] : x \in room \/ Carries(up[k], x) \/ Asks(down[k])
    BY <1>2, <2>1, <2>6 DEF Matched
  <2> HIDE DEF k
  <2>7. CASE f.kind = "step1"
    <3> DEFINE g == Step2(doc[c] \ f.upd)
    <3>1. g \in Frame /\ g.kind \in {"step2", "update"} /\ \A x \in doc[c] : x \notin f.upd => x \in g.upd
      BY <1>1, FrameTypes DEF Step2
    <3> HIDE DEF g
    <3>2. up'[k] = Append(up[k], g)
      BY <2>1, <2>3, <2>7, <3>1, SendFacts DEF g, k
    <3>3. /\ Asks(up[k]) => Asks(up'[k])
          /\ \A x : x \in g.upd => Carries(up'[k], x)
      BY <2>2, <3>1, <3>2, AppendFacts
    <3>4. doc'[c] = doc[c] /\ \A x \in doc[c] : x \in room \/ Carries(up'[k], x)
      BY <2>3, <2>4, <2>7, <3>1, <3>3
    <3>5. ASSUME phase[k] = "serving", NEW x \in room
          PROVE  x \in doc[c] \/ Carries(down'[k], x) \/ Asks(up'[k])
      BY <2>3, <2>5, <2>6, <2>7, <3>3, <3>5
    <3> QED
      BY <2>1, <2>3, <3>4, <3>5 DEF Matched
  <2>8. CASE f.kind # "step1"
    <3>1. /\ up' = up
          /\ \A x \in doc'[c] : x \in doc[c] \/ x \in room
      BY <2>3, <2>4, <2>8, <2>2, FrameTypes
    <3>2. ASSUME phase[k] = "serving", NEW x \in room
          PROVE  x \in doc'[c] \/ Carries(down'[k], x) \/ Asks(up'[k])
      BY <2>3, <2>5, <2>6, <2>8, <3>1, <3>2
    <3>3. ASSUME phase[k] = "serving", c \in Writer, NEW x \in doc'[c]
          PROVE  x \in room \/ Carries(up'[k], x) \/ Asks(down'[k])
      BY <2>3, <2>5, <2>6, <2>8, <3>1, <3>3
    <3> QED
      BY <2>1, <2>3, <3>1, <3>2, <3>3 DEF Matched
  <2> QED
    BY <2>7, <2>8
<1> QED
  BY <1>4, <1>6, <1>7, <1>8, <1>10, <1>11, <1>12 DEF ClientNext, Mount, TokenFails, TimerFires

\* ... and when another session moves.
LEMMA OthersMatched ==
    ASSUME TypeInv, LinkInv, SyncInv, NEW c \in Client, ClientNext(c), NEW d \in Client, d # c
    PROVE  Matched(d)'
<1>1. sock[d] # 0 => Here(d) \in Conn /\ Here(d)[1] = d
  BY HereFacts DEF TypeInv, Here
<1>2. sock'[d] = sock[d] /\ open'[d] = open[d] /\ doc'[d] = doc[d] /\ room' = room
  BY OtherSessions, DocGrows
<1>3. sock[d] # 0 => phase'[Here(d)] = phase[Here(d)] /\ up'[Here(d)] = up[Here(d)]
                     /\ down'[Here(d)] = down[Here(d)]
  BY <1>1, OtherSockets
<1> QED
  BY <1>2, <1>3 DEF SyncInv, Matched, Here

\* The frames a socket starts with.
LEMMA ShortSequences ==
    ASSUME NEW x, NEW y
    PROVE  <<x>> \o << >> = <<x>> /\ <<x>> \o <<y>> = <<x, y>>
<1> DEFINE S == {x, y}
<1>1. <<x>> \in Seq(S) /\ <<y>> \in Seq(S) /\ x \in S /\ y \in S /\ << >> \in Seq(S)
  OBVIOUS
<1> HIDE DEF S
<1>2. <<x>> \o << >> = <<x>>
  BY <1>1, ConcatEmptySeq
<1>3. <<x>> \o <<y>> = <<x, y>>
  <2>1. <<x>> \o <<y>> \in Seq(S) /\ Len(<<x>> \o <<y>>) = 2
    BY <1>1
  <2>2. (<<x>> \o <<y>>)[1] = x /\ (<<x>> \o <<y>>)[2] = y
    BY <1>1
  <2>3. <<x, y>> \in Seq(S) /\ Len(<<x, y>>) = 2 /\ <<x, y>>[1] = x /\ <<x, y>>[2] = y
    BY <1>1
  <2>4. \A i \in 1..2 : (<<x>> \o <<y>>)[i] = <<x, y>>[i]
    <3>1. \A i \in 1..2 : i = 1 \/ i = 2
      OBVIOUS
    <3> QED
      BY <2>2, <2>3, <3>1
  <2> QED
    BY <2>1, <2>3, <2>4, SeqEqual
<1> QED
  BY <1>2, <1>3

\* A served socket is sent our first step, and the registry if it holds anyone.
LEMMA ServeSends ==
    LET told == IF reg = {} THEN << >> ELSE <<Presence(reg, {})>> IN
    \/ <<Step1(room)>> \o told = <<Step1(room)>>
    \/ reg # {} /\ <<Step1(room)>> \o told = <<Step1(room), Presence(reg, {})>>
BY ShortSequences

\* What handling a frame does to the room and to each socket.
LEMMA HandleFacts ==
    ASSUME TypeInv, NEW k \in Conn, Handle(k)
    PROVE  \E f \in Frame :
        /\ f = Head(up[k]) /\ up[k] # << >> /\ k \in InRoom
        /\ up'[k] = Tail(up[k]) /\ \A j \in Conn : j # k => up'[j] = up[j]
        /\ \/ /\ f.kind = "step1" /\ room' = room /\ reg' = reg /\ known' = known
              /\ \A j \in Conn : IF j = k /\ phase[k] = "serving"
                                 THEN down'[j] = Append(down[j], Step2(room \ f.upd))
                                 ELSE down'[j] = down[j]
           \/ /\ f.kind \in {"step2", "update"} /\ k[1] \in Writer /\ room' = room \cup f.upd
              /\ reg' = reg /\ known' = known
              /\ \A j \in Conn : IF j # k /\ phase[j] = "serving"
                                 THEN down'[j] = Append(down[j], Delta(f.upd))
                                 ELSE down'[j] = down[j]
           \/ /\ f.kind \in {"step2", "update"} /\ k[1] \notin Writer
              /\ UNCHANGED <<room, down, reg, known>>
           \/ /\ f.kind = "awareness" /\ room' = room
              /\ reg' = Merge(reg, f, "server") /\ known' = [known EXCEPT ![k] = TRUE]
              /\ \A j \in Conn : IF j # k /\ phase[j] = "serving"
                                 THEN down'[j] = Append(down[j], f)
                                 ELSE down'[j] = down[j]
<1>1. up \in [Conn -> Seq(Frame)] /\ down \in [Conn -> Seq(Frame)]
  BY DEF TypeInv, FramesOK
<1>2. PICK f \in Frame : f = Head(up[k]) /\ up[k] # << >>
  BY <1>1, HeadFrame DEF Handle
<1>3. /\ k \in InRoom /\ up' = [up EXCEPT ![k] = Tail(@)]
  BY DEF Handle
<1>4. up'[k] = Tail(up[k]) /\ \A j \in Conn : j # k => up'[j] = up[j]
  BY <1>1, <1>3
<1>5. CASE f.kind = "step1"
  <2>1. /\ room' = room /\ reg' = reg /\ known' = known
        /\ down' = IF phase[k] = "serving"
                   THEN [down EXCEPT ![k] = Append(@, Step2(room \ f.upd))] ELSE down
    BY <1>2, <1>5 DEF Handle
  <2>2. \A j \in Conn : IF j = k /\ phase[k] = "serving"
                        THEN down'[j] = Append(down[j], Step2(room \ f.upd))
                        ELSE down'[j] = down[j]
    BY <1>1, <2>1
  <2> QED
    BY <1>2, <1>3, <1>4, <1>5, <2>1, <2>2
<1>6. CASE f.kind \in {"step2", "update"} /\ k[1] \in Writer
  <2>1. /\ room' = room \cup f.upd /\ reg' = reg /\ known' = known
        /\ Broadcast(k, Delta(f.upd))
    BY <1>2, <1>6 DEF Handle
  <2>2. \A j \in Conn : IF j # k /\ phase[j] = "serving"
                        THEN down'[j] = Append(down[j], Delta(f.upd))
                        ELSE down'[j] = down[j]
    BY <1>1, <2>1 DEF Broadcast
  <2> QED
    BY <1>2, <1>3, <1>4, <1>6, <2>1, <2>2
<1>7. CASE f.kind \in {"step2", "update"} /\ k[1] \notin Writer
  <2>1. UNCHANGED <<room, down, reg, known>>
    BY <1>2, <1>7 DEF Handle
  <2> QED
    BY <1>2, <1>3, <1>4, <1>7, <2>1
<1>8. CASE f.kind = "awareness"
  <2>1. /\ room' = room /\ reg' = Merge(reg, f, "server") /\ known' = [known EXCEPT ![k] = TRUE]
        /\ Broadcast(k, f)
    BY <1>2, <1>8 DEF Handle
  <2>2. \A j \in Conn : IF j # k /\ phase[j] = "serving"
                        THEN down'[j] = Append(down[j], f)
                        ELSE down'[j] = down[j]
    BY <1>1, <2>1 DEF Broadcast
  <2> QED
    BY <1>2, <1>3, <1>4, <1>8, <2>1, <2>2
<1> QED
  BY <1>2, <1>5, <1>6, <1>7, <1>8, FrameTypes

\* What cleaning a connection up does to the registry and to each socket.
LEMMA CleanupFacts ==
    ASSUME TypeInv, NEW k \in Conn, Cleanup(k)
    PROVE  /\ phase[k] \in {"broken", "closing"} /\ phase'[k] = "gone" /\ up'[k] = << >>
           /\ \A j \in Conn : j # k => phase'[j] = phase[j] /\ up'[j] = up[j]
           /\ room' = room /\ known' = known /\ reg' = reg \ Offline(k)
           /\ \A j \in Conn : IF Offline(k) # {} /\ j # k /\ phase[j] = "serving"
                              THEN down'[j] = Append(down[j], Presence({}, Offline(k)))
                              ELSE down'[j] = down[j]
<1>1. /\ up \in [Conn -> Seq(Frame)] /\ down \in [Conn -> Seq(Frame)]
      /\ phase \in [Conn -> Phases]
  BY DEF TypeInv, FramesOK, PhasesOK
<1>2. /\ phase[k] \in {"broken", "closing"} /\ phase'[k] = "gone" /\ up'[k] = << >>
      /\ \A j \in Conn : j # k => phase'[j] = phase[j] /\ up'[j] = up[j]
  BY <1>1 DEF Cleanup
<1>3. room' = room /\ known' = known /\ reg' = reg \ Offline(k)
  BY DEF Cleanup
<1>4. \A j \in Conn : IF Offline(k) # {} /\ j # k /\ phase[j] = "serving"
                      THEN down'[j] = Append(down[j], Presence({}, Offline(k)))
                      ELSE down'[j] = down[j]
  BY <1>1 DEF Cleanup, Broadcast
<1> QED
  BY <1>2, <1>3, <1>4

\* Room and sockets after a step of the server: what it sends it has.
LEMMA ServerFlows ==
    ASSUME TypeInv, SyncInv, NEW k \in Conn, ServerNext(k)
    PROVE  0 \in room' /\ \A j \in Conn : Flows(j)'
<1> USE DEF vars, link, server
<1>1. /\ room \in SUBSET Update /\ doc' = doc /\ reg \in SUBSET Client
      /\ up \in [Conn -> Seq(Frame)] /\ down \in [Conn -> Seq(Frame)]
      /\ doc \in [Client -> SUBSET Update]
  BY ServerLeaves DEF TypeInv, DataOK, FramesOK
<1>2. \A j \in Conn : Within(up[j], doc[j[1]]) /\ Within(down[j], room) /\ Answers(down[j], doc[j[1]])
  BY DEF SyncInv, Flows
<1>3. ASSUME room \subseteq room',
             \A j \in Conn : Within(up'[j], doc[j[1]]) /\ Within(down'[j], room') /\ Answers(down'[j], doc[j[1]])
      PROVE  0 \in room' /\ \A j \in Conn : Flows(j)'
  BY <1>1, <1>3 DEF SyncInv, Flows
<1>4. CASE Serve(k)
  <2> DEFINE told == IF reg = {} THEN << >> ELSE <<Presence(reg, {})>>
             sent == <<Step1(room)>> \o told
  <2>1. sent = <<Step1(room)>> \/ sent = <<Step1(room), Presence(reg, {})>>
    BY ServeSends
  <2>2. Within(sent, room) /\ \A D : Answers(sent, D)
    BY <2>1 DEF Within, Answers, Step1, Presence
  <2>3. /\ room' = room /\ up' = up /\ down' = [down EXCEPT ![k] = sent]
    BY <1>4 DEF Serve
  <2> HIDE DEF sent
  <2>4. \A j \in Conn : down'[j] = down[j] \/ down'[j] = sent
    BY <1>1, <2>3
  <2> QED
    BY <1>2, <1>3, <2>2, <2>3, <2>4
<1>5. CASE Handle(k)
  <2>1. PICK f \in Frame :
          /\ f = Head(up[k]) /\ up[k] # << >> /\ k \in InRoom
          /\ up'[k] = Tail(up[k]) /\ \A j \in Conn : j # k => up'[j] = up[j]
          /\ \/ /\ f.kind = "step1" /\ room' = room
                /\ \A j \in Conn : IF j = k /\ phase[k] = "serving"
                                   THEN down'[j] = Append(down[j], Step2(room \ f.upd))
                                   ELSE down'[j] = down[j]
             \/ /\ f.kind \in {"step2", "update"} /\ k[1] \in Writer /\ room' = room \cup f.upd
                /\ \A j \in Conn : IF j # k /\ phase[j] = "serving"
                                   THEN down'[j] = Append(down[j], Delta(f.upd))
                                   ELSE down'[j] = down[j]
             \/ /\ f.kind \in {"step2", "update"} /\ k[1] \notin Writer
                /\ UNCHANGED <<room, down>>
             \/ /\ f.kind = "awareness" /\ room' = room
                /\ \A j \in Conn : IF j # k /\ phase[j] = "serving"
                                   THEN down'[j] = Append(down[j], f)
                                   ELSE down'[j] = down[j]
    BY <1>5, HandleFacts
  <2>2. /\ \A j \in Conn : Within(up'[j], doc[j[1]])
        /\ f.kind # "awareness" => f.upd \subseteq doc[k[1]]
    BY ZenonT(60), <1>1, <1>2, <2>1, TailFacts
  <2>3. room \subseteq room'
    BY <2>1
  <2>4. \A j \in Conn : Within(down[j], room')
    BY <1>2, <2>3, WiderFacts
  <2>5. ASSUME NEW j \in Conn
        PROVE  Within(down'[j], room') /\ Answers(down'[j], doc[j[1]])
    <3>0. down[j] \in Seq(Frame)
      BY <1>1
    <3>1. CASE down'[j] = down[j]
      BY <1>2, <2>4, <3>1
    <3>2. CASE f.kind = "step1" /\ room' = room /\ j = k /\ down'[j] = Append(down[j], Step2(room \ f.upd))
      <4> DEFINE g == Step2(room \ f.upd)
      <4>1. g \in Frame /\ g.upd = room \ f.upd
        BY <1>1, FrameTypes DEF Step2
      <4>2. 0 \in g.upd \cup doc[j[1]] /\ g.upd \subseteq room'
        BY <2>2, <3>2, <4>1 DEF SyncInv
      <4> HIDE DEF g
      <4>3. down'[j] = Append(down[j], g)
        BY <3>2 DEF g
      <4> QED
        BY <1>2, <2>4, <3>0, <4>1, <4>2, <4>3, AppendFacts
    <3>3. CASE f.kind \in {"step2", "update"} /\ room' = room \cup f.upd /\ down'[j] = Append(down[j], Delta(f.upd))
      <4> DEFINE g == Delta(f.upd)
      <4>1. g \in Frame /\ g.upd \subseteq room' /\ g.kind # "step2"
        BY <3>3, FrameTypes DEF Delta
      <4> HIDE DEF g
      <4>2. down'[j] = Append(down[j], g)
        BY <3>3 DEF g
      <4> QED
        BY <1>2, <2>4, <3>0, <4>1, <4>2, AppendFacts
    <3>4. CASE f.kind = "awareness" /\ down'[j] = Append(down[j], f)
      BY <1>2, <2>4, <3>0, <3>4, AppendFacts
    <3> QED
      BY <2>1, <3>1, <3>2, <3>3, <3>4
  <2> QED
    BY <1>3, <2>2, <2>3, <2>5
<1>6. CASE ServerCloses(k)
  <2>1. /\ room' = room
        /\ \A j \in Conn : (up'[j] = up[j] \/ up'[j] = << >>) /\ (down'[j] = down[j] \/ down'[j] = << >>)
    BY <1>1, <1>6 DEF ServerCloses
  <2> QED
    BY <1>2, <1>3, <2>1, WiderFacts
<1>7. CASE Cleanup(k)
  <2> DEFINE g == Presence({}, Offline(k))
  <2>1. g \in Frame /\ g.kind = "awareness"
    BY <1>1, FrameTypes DEF Presence, Offline
  <2>2. /\ room' = room
        /\ \A j \in Conn : up'[j] = up[j] \/ up'[j] = << >>
        /\ \A j \in Conn : down'[j] = down[j] \/ down'[j] = Append(down[j], g)
    BY <1>7, CleanupFacts
  <2> HIDE DEF g
  <2>3. ASSUME NEW j \in Conn
        PROVE  Within(down'[j], room') /\ Answers(down'[j], doc[j[1]])
    <3>1. down[j] \in Seq(Frame)
      BY <1>1
    <3> QED
      BY ZenonT(60), <1>2, <2>1, <2>2, <3>1, AppendFacts
  <2>4. \A j \in Conn : Within(up'[j], doc[j[1]])
    BY <1>2, <2>2, WiderFacts
  <2> QED
    BY <1>3, <2>2, <2>3, <2>4
<1> QED
  BY <1>4, <1>5, <1>6, <1>7 DEF ServerNext

\* ... and what a session lacks stays on its way, or asked for.
LEMMA ServerMatched ==
    ASSUME TypeInv, LinkInv, SyncInv, NEW k \in Conn, ServerNext(k), NEW c \in Client
    PROVE  Matched(c)'
<1> USE DEF vars, link, server
<1> DEFINE h == Here(c)
<1>1. /\ room \in SUBSET Update /\ doc' = doc /\ sock' = sock /\ open' = open /\ reg \in SUBSET Client
      /\ up \in [Conn -> Seq(Frame)] /\ down \in [Conn -> Seq(Frame)] /\ phase \in [Conn -> Phases]
      /\ doc \in [Client -> SUBSET Update] /\ h' = h
  BY ServerLeaves DEF TypeInv, DataOK, FramesOK, PhasesOK, Here
<1>2. SUFFICES ASSUME sock[c] # 0, phase'[h] = "serving"
               PROVE  /\ open[c] => \A x \in room' : x \in doc[c] \/ Carries(down'[h], x) \/ Asks(up'[h])
                      /\ c \in Writer => \A x \in doc[c] : x \in room' \/ Carries(up'[h], x) \/ Asks(down'[h])
                      /\ ~open[c] => Asks(down'[h])
  BY <1>1 DEF Matched
<1>3. h \in Conn /\ h[1] = c /\ up[h] \in Seq(Frame) /\ down[h] \in Seq(Frame)
  BY <1>1, <1>2, HereFacts DEF TypeInv, Here
<1>4. phase[h] = "serving" =>
         /\ open[c] => \A x \in room : x \in doc[c] \/ Carries(down[h], x) \/ Asks(up[h])
         /\ c \in Writer => \A x \in doc[c] : x \in room \/ Carries(up[h], x) \/ Asks(down[h])
         /\ ~open[c] => Asks(down[h])
  BY <1>2 DEF SyncInv, Matched
<1>5. phase[h] = "dialled" => ~open[c]
  BY DEF LinkInv, Sockets
<1> HIDE DEF h
<1>6. CASE phase[h] = "serving" /\ room' = room /\ up'[h] = up[h] /\
           (down'[h] = down[h] \/ \E g \in Frame : down'[h] = Append(down[h], g))
  <2>1. /\ Asks(down[h]) => Asks(down'[h])
        /\ \A x : Carries(down[h], x) => Carries(down'[h], x)
    BY ZenonT(60), <1>3, <1>6, AppendFacts
  <2> QED
    BY <1>4, <1>6, <2>1
<1>7. CASE Serve(k)
  <2>1. CASE h = k
    <3> DEFINE told == IF reg = {} THEN << >> ELSE <<Presence(reg, {})>>
    <3>1. down'[h] = <<Step1(room)>> \o told /\ phase[h] = "dialled"
      BY <1>1, <1>3, <1>7, <2>1 DEF Serve
    <3>2. <<Step1(room)>> \o told = <<Step1(room)>> \/ <<Step1(room)>> \o told = <<Step1(room), Presence(reg, {})>>
      BY ServeSends
    <3>3. Asks(<<Step1(room)>>) /\ Asks(<<Step1(room), Presence(reg, {})>>)
      BY DEF Asks, Step1
    <3> HIDE DEF told
    <3>4. Asks(down'[h])
      BY <3>1, <3>2, <3>3
    <3> QED
      BY <1>5, <3>1, <3>4
  <2>2. CASE h # k
    <3>1. down'[h] = down[h] /\ up'[h] = up[h] /\ phase'[h] = phase[h] /\ room' = room
      BY <1>1, <1>3, <1>7, <2>2 DEF Serve
    <3> QED
      BY <1>2, <1>6, <3>1
  <2> QED
    BY <2>1, <2>2
<1>8. CASE Handle(k)
  <2>1. PICK f \in Frame :
          /\ f = Head(up[k]) /\ up[k] # << >> /\ k \in InRoom
          /\ up'[k] = Tail(up[k]) /\ \A j \in Conn : j # k => up'[j] = up[j]
          /\ \/ /\ f.kind = "step1" /\ room' = room
                /\ \A j \in Conn : IF j = k /\ phase[k] = "serving"
                                   THEN down'[j] = Append(down[j], Step2(room \ f.upd))
                                   ELSE down'[j] = down[j]
             \/ /\ f.kind \in {"step2", "update"} /\ k[1] \in Writer /\ room' = room \cup f.upd
                /\ \A j \in Conn : IF j # k /\ phase[j] = "serving"
                                   THEN down'[j] = Append(down[j], Delta(f.upd))
                                   ELSE down'[j] = down[j]
             \/ /\ f.kind \in {"step2", "update"} /\ k[1] \notin Writer
                /\ UNCHANGED <<room, down>>
             \/ /\ f.kind = "awareness" /\ room' = room
                /\ \A j \in Conn : IF j # k /\ phase[j] = "serving"
                                   THEN down'[j] = Append(down[j], f)
                                   ELSE down'[j] = down[j]
    BY <1>8, HandleFacts
  <2>2. phase' = phase
    BY <1>8 DEF Handle
  <2>3. f.kind # "awareness" => f.upd \subseteq doc[k[1]]
    <3>1. up[k] \in Seq(Frame)
      BY <1>1
    <3> QED
      BY <2>1, <3>1, TailFacts DEF SyncInv, Flows
  <2>4. CASE h = k
    <3>1. /\ Asks(up[h]) => f.kind = "step1" \/ Asks(up'[h])
          /\ \A x : Carries(up[h], x) => (f.kind \in {"step2", "update"} /\ x \in f.upd) \/ Carries(up'[h], x)
      BY <1>3, <2>1, <2>4, TailFacts
    <3>2. CASE f.kind = "step1"
      <4> DEFINE g == Step2(room \ f.upd)
      <4>1. g \in Frame /\ g.kind = "step2" /\ g.upd = room \ f.upd
        BY <1>1, FrameTypes DEF Step2
      <4>2. down'[h] = Append(down[h], g) /\ room' = room
        BY <1>2, <2>1, <2>2, <2>4, <3>2
      <4> HIDE DEF g
      <4>3. /\ Asks(down[h]) => Asks(down'[h])
            /\ \A x : x \in g.upd => Carries(down'[h], x)
        BY <1>3, <4>1, <4>2, AppendFacts
      <4>4. \A x \in room : x \in doc[c] \/ Carries(down'[h], x)
        BY <1>3, <2>3, <2>4, <3>2, <4>1, <4>3
      <4> QED
        BY <1>2, <1>4, <2>2, <3>1, <3>2, <4>2, <4>3, <4>4
    <3>3. CASE f.kind \in {"step2", "update"} /\ k[1] \in Writer
      <4>1. down'[h] = down[h] /\ room' = room \cup f.upd
        BY <2>1, <2>4, <3>3, <1>3
      <4> QED
        BY <1>2, <1>3, <1>4, <2>2, <2>3, <2>4, <3>1, <3>3, <4>1
    <3>4. CASE f.kind \in {"step2", "update"} /\ k[1] \notin Writer
      <4>1. down'[h] = down[h] /\ room' = room /\ c \notin Writer
        BY <1>3, <2>1, <2>4, <3>4
      <4> QED
        BY <1>2, <1>4, <2>2, <3>1, <3>4, <4>1
    <3>5. CASE f.kind = "awareness"
      <4>1. down'[h] = down[h] /\ room' = room
        BY <1>3, <2>1, <2>4, <3>5
      <4> QED
        BY <1>2, <1>4, <2>2, <3>1, <3>5, <4>1
    <3> QED
      BY <3>2, <3>3, <3>4, <3>5, FrameTypes
  <2>5. CASE h # k
    <3>1. up'[h] = up[h] /\ phase[h] = "serving"
      BY <1>2, <1>3, <2>1, <2>2, <2>5
    <3>2. CASE room' = room
      <4>1. f.kind \in {"step2", "update"} => Delta(f.upd) \in Frame
        BY FrameTypes
      <4>2. down'[h] = down[h] \/ \E g \in Frame : down'[h] = Append(down[h], g)
        BY <1>3, <2>1, <2>5, <3>1, <4>1
      <4> QED
        BY <1>6, <3>1, <3>2, <4>2
    <3>3. CASE room' # room
      <4> DEFINE g == Delta(f.upd)
      <4>1. f.kind \in {"step2", "update"} /\ room' = room \cup f.upd /\ down'[h] = Append(down[h], g)
        BY <1>3, <2>1, <2>5, <3>1, <3>3
      <4>2. g \in Frame /\ g.kind = "update" /\ g.upd = f.upd
        BY <4>1, FrameTypes DEF Delta
      <4> HIDE DEF g
      <4>3. /\ Asks(down[h]) => Asks(down'[h])
            /\ \A x : Carries(down[h], x) \/ x \in f.upd => Carries(down'[h], x)
        BY <1>3, <4>1, <4>2, AppendFacts
      <4> QED
        BY <1>4, <3>1, <4>1, <4>3
    <3> QED
      BY <3>2, <3>3
  <2> QED
    BY <2>4, <2>5
<1>9. CASE ServerCloses(k)
  <2>1. h # k /\ down'[h] = down[h] /\ up'[h] = up[h] /\ phase'[h] = phase[h] /\ room' = room
    BY <1>1, <1>2, <1>3, <1>9 DEF ServerCloses
  <2> QED
    BY <1>2, <1>6, <2>1
<1>10. CASE Cleanup(k)
  <2> DEFINE g == Presence({}, Offline(k))
  <2>1. g \in Frame
    BY <1>1, FrameTypes DEF Offline
  <2>2. /\ h # k /\ up'[h] = up[h] /\ phase'[h] = phase[h] /\ room' = room
        /\ down'[h] = down[h] \/ down'[h] = Append(down[h], g)
    BY <1>2, <1>3, <1>10, CleanupFacts
  <2> HIDE DEF g
  <2> QED
    BY <1>2, <1>6, <2>1, <2>2
<1> QED
  BY <1>7, <1>8, <1>9, <1>10 DEF ServerNext

\* The invariant of the documents holds at the start ...
LEMMA SyncInit ==
    ASSUME Init
    PROVE  SyncInv
BY DEF Init, SyncInv, Flows, Within, Answers, Matched

\* ... every step keeps it ...
LEMMA SyncStep == TypeInv /\ LinkInv /\ SyncInv /\ [Next]_vars => SyncInv'
<1> USE DEF vars, link, server
<1> SUFFICES ASSUME TypeInv, LinkInv, SyncInv, [Next]_vars PROVE SyncInv'
  OBVIOUS
<1>1. ASSUME NEW c \in Client, ClientNext(c) PROVE SyncInv'
  <2>1. \A k \in Conn : Flows(k)'
    BY <1>1, ClientFlows
  <2>2. ASSUME NEW d \in Client PROVE Matched(d)'
    BY <1>1, ClientMatched, OthersMatched
  <2>3. ASSUME NEW d \in Client, prov'[d].synced PROVE 0 \in doc'[d]
    <3>1. CASE d = c
      BY <1>1, <2>3, <3>1, ClientSynced
    <3>2. CASE d # c
      BY <1>1, <2>3, <3>2, OtherSessions DEF SyncInv
    <3> QED
      BY <3>1, <3>2
  <2>4. 0 \in room'
    BY <1>1, DocGrows DEF SyncInv
  <2> QED
    BY <2>1, <2>2, <2>3, <2>4 DEF SyncInv
<1>2. ASSUME NEW k \in Conn, ServerNext(k) PROVE SyncInv'
  <2>1. 0 \in room' /\ \A j \in Conn : Flows(j)'
    BY <1>2, ServerFlows
  <2>2. ASSUME NEW d \in Client PROVE Matched(d)'
    BY <1>2, ServerMatched
  <2>3. \A d \in Client : prov'[d].synced => 0 \in doc'[d]
    BY <1>2, ServerLeaves DEF SyncInv
  <2> QED
    BY <2>1, <2>2, <2>3 DEF SyncInv
<1>3. CASE DropRegistry \/ UNCHANGED vars
  BY <1>3 DEF DropRegistry, SyncInv, Flows, Matched, Here
<1> QED
  BY <1>1, <1>2, <1>3, Steps

\* ... and when nothing is in flight it says that both sides have the same.
LEMMA SyncImplies == TypeInv /\ LinkInv /\ SyncInv => QuietMeansEqual
<1> SUFFICES ASSUME TypeInv, LinkInv, SyncInv, NEW c \in Client, Badge(c) = "connected"
             PROVE  LET k == Here(c) IN
                    /\ sock[c] # 0 /\ open[c]
                    /\ (phase[k] = "serving" /\ up[k] = << >> /\ down[k] = << >>)
                          => /\ room \subseteq doc[c]
                             /\ c \in Writer => doc[c] \subseteq room
  BY DEF QuietMeansEqual
<1>1. prov[c].status = "connected"
  BY DEF Badge
<1>2. open[c] /\ sock[c] # 0
  BY <1>1 DEF LinkInv, Holds
<1>3. \A x : ~Carries(<< >>, x) /\ ~Asks(<< >>)
  BY DEF Carries, Asks
<1> QED
  BY <1>2, <1>3 DEF SyncInv, Matched

Alive == {"serving", "broken", "closing"}
Tells(f, d) == f.kind = "awareness" /\ d \in f.on
Denies(f, d) == f.kind = "awareness" /\ d \in f.off
\* Session d is in the table once the frames of s are merged into it.
Shows(table, s, d) ==
    \E i \in 0..Len(s) : /\ IF i = 0 THEN d \in table ELSE Tells(s[i], d)
                         /\ \A j \in 1..Len(s) : i <= j => ~Denies(s[j], d)

\* A session speaks for itself only.
OwnVoice(k) == \A i \in DOMAIN up[k] : up[k][i].kind = "awareness" => up[k][i].on \cup up[k][i].off \subseteq {k[1]}
\* The registry holds sessions with a connection the server still has, and knows by its id.
Registered == \A d \in reg : \E n \in 1..MaxConn[d] : known[<<d, n>>] /\ phase[<<d, n>>] \in Alive
\* Before the server has spoken to it a session knows nobody else.
Alone(c) == dialled[c] = 0 \/ (dialled[c] = 1 /\ phase[<<c, 1>>] = "dialled") => aware[c] \subseteq {c}
\* On its first link it lists, once what is in flight has arrived, registered sessions only.
FirstLink(c) == ~raced /\ dialled[c] = 1 /\ sock[c] = 1 /\ phase[<<c, 1>>] = "serving"
Listens(c) == FirstLink(c) => \A d \in Client \ {c} : Shows(aware[c], down[<<c, 1>>], d) => d \in reg
PresenceInv ==
    /\ \A k \in Conn : OwnVoice(k)
    /\ Registered
    /\ \A c \in Client : Alone(c) /\ Listens(c)

\* A frame sent last either takes a session away, or announces it, or leaves it.
LEMMA ShowsAppend ==
    ASSUME NEW s \in Seq(Frame), NEW f \in Frame, NEW t, NEW d, Shows(t, Append(s, f), d)
    PROVE  ~Denies(f, d) /\ (Shows(t, s, d) \/ Tells(f, d))
<1>1. /\ Len(Append(s, f)) = Len(s) + 1 /\ Len(s) \in Nat /\ Append(s, f)[Len(s) + 1] = f
      /\ \A j \in 1..Len(s) : Append(s, f)[j] = s[j]
  OBVIOUS
<1>2. PICK i \in 0..(Len(s) + 1) :
           /\ IF i = 0 THEN d \in t ELSE Tells(Append(s, f)[i], d)
           /\ \A j \in 1..(Len(s) + 1) : i <= j => ~Denies(Append(s, f)[j], d)
  BY <1>1 DEF Shows
<1>3. ~Denies(f, d)
  <2>1. Len(s) + 1 \in 1..(Len(s) + 1) /\ i <= Len(s) + 1
    BY <1>1
  <2> QED
    BY <1>1, <1>2, <2>1
<1>4. CASE i = Len(s) + 1
  <2>1. i # 0
    BY <1>1, <1>4
  <2> QED
    BY <1>1, <1>2, <1>3, <1>4, <2>1
<1>5. CASE i # Len(s) + 1
  <2>1. i \in 0..Len(s) /\ \A j \in 1..Len(s) : j \in 1..(Len(s) + 1)
    BY <1>1, <1>5
  <2>2. i # 0 => i \in 1..Len(s)
    BY <2>1
  <2>3. IF i = 0 THEN d \in t ELSE Tells(s[i], d)
    BY <1>1, <1>2, <2>2
  <2>4. \A j \in 1..Len(s) : i <= j => ~Denies(s[j], d)
    BY <1>1, <1>2, <2>1
  <2> QED
    BY <1>3, <2>1, <2>3, <2>4 DEF Shows
<1> QED
  BY <1>4, <1>5

\* Merging the head of the sequence does not change what the rest will show.
LEMMA ShowsTail ==
    ASSUME NEW s \in Seq(Frame), s # << >>, NEW t, NEW u, NEW d, Shows(u, Tail(s), d),
           d \in u => (d \in t \/ Tells(Head(s), d)) /\ ~Denies(Head(s), d)
    PROVE  Shows(t, s, d)
<1>1. /\ Len(s) \in Nat \ {0} /\ Len(Tail(s)) = Len(s) - 1 /\ Head(s) = s[1]
      /\ \A j \in 1..(Len(s) - 1) : Tail(s)[j] = s[j + 1]
  OBVIOUS
<1>2. PICK i \in 0..(Len(s) - 1) :
           /\ IF i = 0 THEN d \in u ELSE Tells(Tail(s)[i], d)
           /\ \A j \in 1..(Len(s) - 1) : i <= j => ~Denies(Tail(s)[j], d)
  BY <1>1 DEF Shows
<1>3. \A j \in 2..Len(s) : j - 1 \in 1..(Len(s) - 1) /\ Tail(s)[j - 1] = s[j]
  BY <1>1
<1>4. ASSUME NEW j \in 2..Len(s), i + 1 <= j PROVE ~Denies(s[j], d)
  <2>1. i <= j - 1
    BY <1>4
  <2> QED
    BY <1>2, <1>3, <2>1
<1>5. CASE i # 0
  <2>1. i + 1 \in 0..Len(s) /\ i + 1 # 0 /\ i \in 1..(Len(s) - 1)
        /\ \A j \in 1..Len(s) : i + 1 <= j => j \in 2..Len(s)
    BY <1>1, <1>5
  <2>2. Tells(s[i + 1], d)
    BY <1>1, <1>2, <1>5, <2>1
  <2>3. \A j \in 1..Len(s) : i + 1 <= j => ~Denies(s[j], d)
    BY <1>4, <2>1
  <2> QED
    BY <2>1, <2>2, <2>3 DEF Shows
<1>6. CASE i = 0
  <2>1. (d \in t \/ Tells(s[1], d)) /\ ~Denies(s[1], d)
    BY <1>1, <1>2, <1>6
  <2>2. \A j \in 1..Len(s) : j = 1 \/ (j \in 2..Len(s) /\ i + 1 <= j)
    BY <1>1, <1>6
  <2>3. \A j \in 1..Len(s) : ~Denies(s[j], d)
    BY <1>4, <2>1, <2>2
  <2>4. 0 \in 0..Len(s) /\ 1 \in 0..Len(s) /\ 1 # 0
    BY <1>1
  <2>5. CASE d \in t
    BY <2>3, <2>4, <2>5 DEF Shows
  <2>6. CASE Tells(s[1], d)
    BY <2>3, <2>4, <2>6 DEF Shows
  <2> QED
    BY <2>1, <2>5, <2>6
<1> QED
  BY <1>5, <1>6

\* A smaller table shows less; with nothing in flight, the table is what is shown.
LEMMA ShowsTable ==
    /\ \A t, u, s, d : Shows(u, s, d) /\ (d \in u => d \in t) => Shows(t, s, d)
    /\ \A t, d : d \in t => Shows(t, << >>, d)
<1>1. \A t, u, s, d : Shows(u, s, d) /\ (d \in u => d \in t) => Shows(t, s, d)
  BY DEF Shows
<1>2. Len(<< >>) = 0 /\ 0 \in 0..0 /\ 1..0 = {}
  OBVIOUS
<1>3. \A t, d : d \in t => Shows(t, << >>, d)
  BY <1>2 DEF Shows
<1> QED
  BY <1>1, <1>3

\* The frames a socket starts with announce the registry.
LEMMA ShowsServe ==
    ASSUME NEW t, NEW d, TypeInv,
           NEW s, s = <<Step1(room)>> \/ (reg # {} /\ s = <<Step1(room), Presence(reg, {})>>),
           Shows(t, s, d)
    PROVE  d \in t \/ d \in reg
<1>1. PICK i \in 0..Len(s) : IF i = 0 THEN d \in t ELSE Tells(s[i], d)
  BY DEF Shows
<1>2. CASE s = <<Step1(room)>>
  <2>1. Len(s) = 1 /\ ~Tells(s[1], d)
    BY <1>2 DEF Tells, Step1
  <2> QED
    BY <1>1, <2>1
<1>3. CASE s = <<Step1(room), Presence(reg, {})>>
  <2>1. Len(s) = 2 /\ ~Tells(s[1], d) /\ (Tells(s[2], d) => d \in reg)
    BY <1>3 DEF Tells, Step1, Presence
  <2>2. i = 0 \/ i = 1 \/ i = 2
    BY <2>1
  <2> QED
    BY <1>1, <2>1, <2>2
<1> QED
  BY <1>2, <1>3

\* What a session puts on its sockets: its first step, or one more frame.
LEMMA SessionSends ==
    ASSUME TypeInv, NEW c \in Client, ClientNext(c), NEW k \in Conn
    PROVE  \/ up'[k] = up[k] \/ up'[k] = <<Step1(doc[c])>>
           \/ \E f \in Frame : /\ k[1] = c /\ up'[k] = Append(up[k], f)
                               /\ f.kind = "awareness" => f.on \cup f.off \subseteq {c}
<1> USE DEF vars, link, server
<1>1. up \in [Conn -> Seq(Frame)] /\ doc \in [Client -> SUBSET Update] /\ made \in Seq(Client)
  BY DEF TypeInv, DataOK, FramesOK
<1>2. ASSUME NEW f \in Frame, SendUp(c, <<f>>), f.kind = "awareness" => f.on \cup f.off \subseteq {c}
      PROVE  \/ up'[k] = up[k] 
             \/ \E g \in Frame : /\ k[1] = c /\ up'[k] = Append(up[k], g)
                                 /\ g.kind = "awareness" => g.on \cup g.off \subseteq {c}
  <2>1. up'[k] = up[k] \/ (k = Here(c) /\ up'[k] = Append(up[k], f))
    BY <1>2, SendFacts
  <2> QED
    BY <1>2, <2>1 DEF Here
<1>3. CASE SocketOpens(c)
  BY <1>1, <1>3 DEF SocketOpens
<1>4. CASE Destroy(c)
  <2>1. /\ Presence({}, {c}) \in Frame
        /\ Presence({}, {c}).on = {} /\ Presence({}, {c}).off = {c} 
    BY FrameTypes DEF Presence
  <2>2. SendUp(c, <<Presence({}, {c})>>)
    BY <1>4 DEF Destroy
  <2> QED
    BY <1>2, <2>1, <2>2
<1>5. CASE Edit(c)
  <2>1. Len(made) + 1 \in Update
    BY <1>1, <1>5, BoundAssumption DEF Edit, Update, TypeInv, DataOK
  <2>2. Delta({Len(made) + 1}) \in Frame /\ Delta({Len(made) + 1}).kind # "awareness"
    BY <2>1, FrameTypes DEF Delta
  <2>3. SendUp(c, <<Delta({Len(made) + 1})>>)
    BY <1>5 DEF Edit
  <2> QED
    BY <1>2, <2>2, <2>3
<1>6. CASE Receive(c)
  <2>1. PICK f : up' = up \/ SendUp(c, <<Step2(doc[c] \ f.upd)>>)
    BY <1>6 DEF Receive
  <2>2. Step2(doc[c] \ f.upd) \in Frame /\ Step2(doc[c] \ f.upd).kind # "awareness"
    BY <1>1, FrameTypes DEF Step2
  <2> QED
    BY <1>2, <2>1, <2>2
<1>7. CASE Announce(c)
  <2>1. /\ Presence({c}, {}) \in Frame
        /\ Presence({c}, {}).off = {} /\ Presence({c}, {}).on = {c} 
    BY FrameTypes DEF Presence
  <2>2. SendUp(c, <<Presence({c}, {})>>)
    BY <1>7 DEF Announce
  <2> QED
    BY <1>2, <2>1, <2>2
<1>8. CASE up' = up
  BY <1>8
<1> QED
  BY <1>3, <1>4, <1>5, <1>6, <1>7, <1>8 DEF ClientNext, Mount, TokenArrives, TokenFails, TimerFires,
     LinkDies, ServerClosed

\* What becomes of the sockets: they are dialled once, and a connection the
\* server has stays one until it is cleaned up.
LEMMA SocketsMove ==
    ASSUME TypeInv, LinkInv, NEW c \in Client, ClientNext(c), NEW k \in Conn
    PROVE  /\ phase[k] \in Alive => phase'[k] \in Alive
           /\ phase'[k] = "serving" => phase[k] = "serving"
           /\ phase'[k] = "dialled" /\ phase[k] # "dialled" =>
                 k[1] = c /\ k[2] = dialled[c] + 1 /\ dialled'[c] = dialled[c] + 1 /\ TokenArrives(c)
           /\ dialled'[c] # dialled[c] => TokenArrives(c) /\ dialled'[c] = dialled[c] + 1
                                          /\ (k[1] = c /\ k[2] = dialled'[c] => phase'[k] = "dialled")
<1> USE DEF vars, link, server
<1>1. /\ phase \in [Conn -> Phases] /\ dialled \in [Client -> Nat] /\ k = <<k[1], k[2]>>
      /\ k[1] \in Client /\ k[2] \in 1..MaxConn[k[1]]
  BY ConnFacts DEF TypeInv, PhasesOK, LinksOK
<1>2. CASE TokenArrives(c)
  <2>1. CASE Abandoned(prov[c])
    BY <1>2, <2>1 DEF TokenArrives
  <2>2. CASE ~Abandoned(prov[c])
    <3>1. /\ dialled' = [dialled EXCEPT ![c] = @ + 1]
          /\ phase' = [phase EXCEPT ![<<c, dialled[c] + 1>>] = "dialled"]
      BY <1>2, <2>2 DEF TokenArrives
    <3>2. CASE k = <<c, dialled[c] + 1>>
      <4>1. phase[k] = "unused" /\ phase'[k] = "dialled"
        BY <1>1, <3>1, <3>2 DEF LinkInv, Sockets
      <4> QED
        BY <1>1, <1>2, <3>1, <3>2, <4>1 DEF Alive
    <3>3. CASE k # <<c, dialled[c] + 1>>
      <4>1. phase'[k] = phase[k]
        BY <1>1, <3>1, <3>3
      <4> QED
        BY <1>1, <1>2, <3>1, <3>3, <4>1
    <3> QED
      BY <3>2, <3>3
  <2> QED
    BY <2>1, <2>2
<1>3. CASE ~TokenArrives(c)
  <2>1. dialled'[c] = dialled[c]
    BY <1>3 DEF ClientNext, Mount, TokenFails, TimerFires, SocketOpens, LinkDies, ServerClosed, Destroy, Edit, Receive, Announce
  <2>2. \/ phase'[k] = phase[k]
        \/ phase[k] = "dialled" /\ phase'[k] = "gone"
        \/ phase[k] = "serving" /\ phase'[k] = "broken"
    BY <1>1, <1>3 DEF ClientNext, Mount, TokenFails, TimerFires, SocketOpens, LinkDies, ServerClosed, Destroy, Edit, Receive, Announce
  <2> QED
    BY <2>1, <2>2 DEF Alive
<1> QED
  BY <1>2, <1>3

\* By itself a session only adds or removes its own entry.
LEMMA AwareMoves ==
    ASSUME TypeInv, NEW c \in Client, ClientNext(c), ~Receive(c)
    PROVE  \A d : d # c => (d \in aware'[c] <=> d \in aware[c])
<1>1. aware \in [Client -> SUBSET Client]
  BY DEF TypeInv, DataOK
<1>2. CASE Destroy(c)
  <2>1. aware'[c] = aware[c] \ {c}
    BY <1>1, <1>2 DEF Destroy
  <2> QED
    BY <2>1
<1>3. CASE Announce(c)
  <2>1. aware'[c] = aware[c] \cup {c}
    BY <1>1, <1>3 DEF Announce
  <2> QED
    BY <2>1
<1>4. CASE ~Destroy(c) /\ ~Announce(c)
  <2>1. aware' = aware
    BY <1>4 DEF ClientNext, Mount, TokenArrives, TokenFails, TimerFires, SocketOpens, LinkDies, ServerClosed, Edit
  <2> QED
    BY <2>1
<1> QED
  BY <1>2, <1>3, <1>4

\* A session's step keeps the invariant of presence ...
LEMMA ClientPresence ==
    ASSUME TypeInv, LinkInv, PresenceInv, NEW c \in Client, ClientNext(c)
    PROVE  PresenceInv'
<1> USE DEF vars, link, server
<1>1. /\ up \in [Conn -> Seq(Frame)] /\ down \in [Conn -> Seq(Frame)] /\ reg \in SUBSET Client
      /\ aware \in [Client -> SUBSET Client] /\ dialled \in [Client -> Nat] /\ sock \in [Client -> Nat]
      /\ reg' = reg /\ known' = known /\ raced' = raced
  BY DocGrows DEF TypeInv, FramesOK, DataOK, LinksOK
<1>2. ASSUME NEW k \in Conn PROVE OwnVoice(k)'
  <2>1. OwnVoice(k) /\ up[k] \in Seq(Frame)
    BY <1>1 DEF PresenceInv
  <2>2. CASE up'[k] = <<Step1(doc[c])>>
    BY <2>2 DEF OwnVoice, Step1
  <2>3. ASSUME NEW f \in Frame, k[1] = c, up'[k] = Append(up[k], f),
               f.kind = "awareness" => f.on \cup f.off \subseteq {c}
        PROVE  OwnVoice(k)'
    <3>1. \A i \in DOMAIN up'[k] : up'[k][i] = f \/ (i \in DOMAIN up[k] /\ up'[k][i] = up[k][i])
      BY <2>1, <2>3
    <3> QED
      BY <2>1, <2>3, <3>1 DEF OwnVoice
  <2>4. CASE up'[k] = up[k]
    BY <2>1, <2>4 DEF OwnVoice
  <2>5. \/ up'[k] = up[k] \/ up'[k] = <<Step1(doc[c])>>
        \/ \E f \in Frame : /\ k[1] = c /\ up'[k] = Append(up[k], f)
                            /\ f.kind = "awareness" => f.on \cup f.off \subseteq {c}
    BY SessionSends
  <2> QED
    BY <2>2, <2>3, <2>4, <2>5
<1>3. Registered'
  <2>1. ASSUME NEW d \in reg
        PROVE  \E n \in 1..MaxConn[d] : known[<<d, n>>] /\ phase'[<<d, n>>] \in Alive
    <3>1. PICK n \in 1..MaxConn[d] : known[<<d, n>>] /\ phase[<<d, n>>] \in Alive
      BY DEF PresenceInv, Registered
    <3>2. <<d, n>> \in Conn
      BY <1>1, ConnFacts
    <3> QED
      BY <3>1, <3>2, SocketsMove
  <2> QED
    BY <1>1, <2>1 DEF Registered
<1>4. ASSUME NEW d \in Client, d # c PROVE Alone(d)' /\ Listens(d)'
  <2>1. sock'[d] = sock[d] /\ dialled'[d] = dialled[d] /\ aware'[d] = aware[d]
    BY <1>4, OtherSessions
  <2>2. phase'[<<d, 1>>] = phase[<<d, 1>>] /\ down'[<<d, 1>>] = down[<<d, 1>>]
    BY <1>4, OtherSockets, ConnFacts
  <2> QED
    BY <1>1, <2>1, <2>2 DEF PresenceInv, Alone, Listens, FirstLink
<1>5. <<c, 1>> \in Conn /\ <<c, 1>>[1] = c /\ <<c, 1>>[2] = 1
  BY ConnFacts
<1>6. Alone(c)'
  <2>1. SUFFICES ASSUME dialled'[c] = 0 \/ (dialled'[c] = 1 /\ phase'[<<c, 1>>] = "dialled")
                 PROVE  aware'[c] \subseteq {c}
    BY DEF Alone
  <2>2. dialled[c] = 0 \/ (dialled[c] = 1 /\ phase[<<c, 1>>] = "dialled")
    BY <1>1, <1>5, <2>1, SocketsMove
  <2>3. aware[c] \subseteq {c}
    BY <2>2 DEF PresenceInv, Alone
  <2>4. CASE Receive(c)
    <3>1. open[c] /\ sock[c] # 0
      BY <2>4 DEF Receive
    <3>2. sock[c] = 1 /\ dialled[c] = 1
      BY <2>2, <3>1 DEF LinkInv, Holds
    <3> QED
      BY <2>2, <3>1, <3>2 DEF LinkInv, Sockets, Here
  <2>5. CASE ~Receive(c)
    <3> QED
      BY <2>3, <2>5, AwareMoves
  <2> QED
    BY <2>4, <2>5
<1>7. Listens(c)'
  <2>1. SUFFICES ASSUME FirstLink(c)', NEW d \in Client \ {c}, Shows(aware'[c], down'[<<c, 1>>], d)
                 PROVE  d \in reg
    BY <1>1 DEF Listens
  <2>2. /\ ~raced /\ dialled'[c] = 1 /\ sock'[c] = 1 /\ phase'[<<c, 1>>] = "serving"
        /\ phase[<<c, 1>>] = "serving" /\ dialled[c] = 1
    BY <1>1, <1>5, <2>1, SocketsMove DEF FirstLink
  <2>3. sock[c] = 1 => (Shows(aware[c], down[<<c, 1>>], d) => d \in reg)
    BY <2>2 DEF PresenceInv, Listens, FirstLink
  <2>4. sock[c] = 1
    BY <2>2, ConnFacts DEF LinkInv, Sockets
  <2>5. CASE Receive(c)
    <3> DEFINE s == down[<<c, 1>>]
    <3>1. s # << >> /\ s \in Seq(Frame) /\ down'[<<c, 1>>] = Tail(s)
          /\ aware'[c] = IF Head(s).kind = "awareness" THEN Merge(aware[c], Head(s), c) ELSE aware[c]
      BY <1>1, <1>5, <2>4, <2>5 DEF Receive, Here
    <3> HIDE DEF s
    <3>2. d \in aware'[c] => (d \in aware[c] \/ Tells(Head(s), d)) /\ ~Denies(Head(s), d)
      BY <2>1, <3>1 DEF Merge, Tells, Denies
    <3>3. Shows(aware[c], s, d)
      BY <2>1, <3>1, <3>2, ShowsTail
    <3> QED
      BY <2>3, <2>4, <3>3 DEF s
  <2>6. CASE ~Receive(c)
    <3>1. d \in aware'[c] => d \in aware[c]
      BY <2>1, <2>6, AwareMoves
    <3>2. down'[<<c, 1>>] = down[<<c, 1>>]
      <4>1. sock'[c] # 0
        BY <2>2
      <4> QED
        BY <1>1, <2>6, <4>1 DEF ClientNext, Mount, TokenArrives, TokenFails, TimerFires, SocketOpens, LinkDies, ServerClosed, Closed, Destroy, Edit, Announce
    <3>3. Shows(aware[c], down[<<c, 1>>], d)
      BY <2>1, <3>1, <3>2, ShowsTable
    <3> QED
      BY <2>3, <2>4, <3>3
  <2> QED
    BY <2>5, <2>6
<1> QED
  BY <1>2, <1>3, <1>4, <1>6, <1>7 DEF PresenceInv

\* ... as does a step of a connection of the server ...
LEMMA ServerPresence ==
    ASSUME TypeInv, LinkInv, PresenceInv, NEW k \in Conn, ServerNext(k)
    PROVE  PresenceInv'
<1> USE DEF vars, link, server
<1>1. /\ up \in [Conn -> Seq(Frame)] /\ down \in [Conn -> Seq(Frame)] /\ reg \in SUBSET Client
      /\ phase \in [Conn -> Phases] /\ known \in [Conn -> BOOLEAN]
      /\ sock' = sock /\ dialled' = dialled /\ aware' = aware
      /\ k = <<k[1], k[2]>> /\ k[1] \in Client /\ k[2] \in 1..MaxConn[k[1]]
  BY ServerLeaves, ConnFacts DEF TypeInv, FramesOK, DataOK, PhasesOK
<1>2. raced' = raced
  BY DEF ServerNext, Serve, Handle, ServerCloses, Cleanup
<1>3. /\ \A d \in reg : \A n \in 1..MaxConn[d] : <<d, n>> \in Conn
      /\ \A c \in Client : <<c, 1>> \in Conn /\ <<c, 1>>[1] = c
  <2>1. \A d \in reg : \A n \in 1..MaxConn[d] : <<d, n>> \in Conn
    BY <1>1, ConnFacts
  <2>2. ASSUME NEW c \in Client PROVE <<c, 1>> \in Conn /\ <<c, 1>>[1] = c
    BY ConnFacts
  <2> QED
    BY <2>1, <2>2
<1>4. \A j \in Conn : \/ phase'[j] = phase[j]
                      \/ j = k /\ phase[j] = "dialled" /\ phase'[j] = "serving"
                      \/ j = k /\ phase[j] = "serving" /\ phase'[j] = "closing"
                      \/ j = k /\ phase[j] \in {"broken", "closing"} /\ phase'[j] = "gone" /\ Cleanup(k)
  BY <1>1 DEF ServerNext, Serve, Handle, ServerCloses, Cleanup
<1>5. ASSUME NEW j \in Conn, up'[j] = up[j] \/ up'[j] = << >> \/ (up[j] # << >> /\ up'[j] = Tail(up[j]))
      PROVE  OwnVoice(j)'
  <2>1. OwnVoice(j) /\ up[j] \in Seq(Frame)
    BY <1>1 DEF PresenceInv
  <2>2. CASE up'[j] = up[j] \/ up'[j] = << >>
    BY <2>1, <2>2 DEF OwnVoice
  <2>3. CASE up[j] # << >> /\ up'[j] = Tail(up[j])
    <3>1. \A i \in DOMAIN up'[j] : i + 1 \in DOMAIN up[j] /\ up'[j][i] = up[j][i + 1]
      BY <2>1, <2>3
    <3> QED
      BY <2>1, <3>1 DEF OwnVoice
  <2> QED
    BY <1>5, <2>2, <2>3
<1>6. ASSUME NEW j \in Conn PROVE OwnVoice(j)'
  BY <1>1, <1>5 DEF ServerNext, Serve, Handle, ServerCloses, Cleanup
<1>7. ASSUME NEW c \in Client PROVE Alone(c)'
  <2>1. phase'[<<c, 1>>] = "dialled" => phase[<<c, 1>>] = "dialled"
    BY <1>3, <1>4
  <2> QED
    BY <1>1, <2>1 DEF PresenceInv, Alone
<1>8. CASE Handle(k)
  <2>1. PICK f \in Frame :
          /\ f = Head(up[k]) /\ up[k] # << >> /\ k \in InRoom
          /\ \/ /\ f.kind = "step1" /\ reg' = reg /\ known' = known
                /\ \A j \in Conn : IF j = k /\ phase[k] = "serving"
                                   THEN down'[j] = Append(down[j], Step2(room \ f.upd))
                                   ELSE down'[j] = down[j]
             \/ /\ f.kind \in {"step2", "update"}
                /\ reg' = reg /\ known' = known
                /\ \A j \in Conn : IF j # k /\ phase[j] = "serving"
                                   THEN down'[j] = Append(down[j], Delta(f.upd))
                                   ELSE down'[j] = down[j]
             \/ /\ f.kind \in {"step2", "update"}
                /\ UNCHANGED <<down, reg, known>>
             \/ /\ f.kind = "awareness"
                /\ reg' = Merge(reg, f, "server") /\ known' = [known EXCEPT ![k] = TRUE]
                /\ \A j \in Conn : IF j # k /\ phase[j] = "serving"
                                   THEN down'[j] = Append(down[j], f)
                                   ELSE down'[j] = down[j]
    BY ZenonT(60), <1>8, HandleFacts
  <2>2. phase' = phase
    BY <1>8 DEF Handle
  <2>3. f.kind = "awareness" => f.on \cup f.off \subseteq {k[1]}
    <3>1. up[k][1] = f /\ 1 \in DOMAIN up[k]
      BY <1>1, <2>1, HeadFrame
    <3> QED
      BY <3>1 DEF PresenceInv, OwnVoice
  <2>4. phase[k] \in Alive
    BY <2>1 DEF InRoom, Alive
  <2>5. \A d \in reg' : d \in reg \/ (d = k[1] /\ known'[k])
    BY <1>1, <2>1, <2>3 DEF Merge
  <2>6. \A j \in Conn : known[j] => known'[j]
    BY <1>1, <2>1
  <2>7. Registered'
    <3>1. ASSUME NEW d \in reg' 
          PROVE  \E n \in 1..MaxConn[d] : known'[<<d, n>>] /\ phase'[<<d, n>>] \in Alive
      <4>1. CASE d \in reg
        <5>1. PICK n \in 1..MaxConn[d] : known[<<d, n>>] /\ phase[<<d, n>>] \in Alive
          BY <4>1 DEF PresenceInv, Registered
        <5> QED
          BY <1>3, <2>2, <2>6, <4>1, <5>1
      <4>2. CASE d = k[1] /\ known'[k]
        BY <1>1, <2>2, <2>4, <4>2
      <4> QED
        BY <2>5, <4>1, <4>2
    <3> QED
      BY <3>1 DEF Registered
  <2>8. ASSUME NEW c \in Client PROVE Listens(c)'
    <3> DEFINE h == <<c, 1>>
    <3>1. SUFFICES ASSUME FirstLink(c), NEW d \in Client \ {c}, Shows(aware[c], down'[h], d)
                   PROVE  d \in reg'
      BY <1>1, <1>2, <2>2 DEF Listens, FirstLink
    <3>2. /\ Shows(aware[c], down[h], d) => d \in reg
          /\ phase[h] = "serving" /\ h \in Conn /\ down[h] \in Seq(Frame) /\ h[1] = c
      BY <1>1, <1>3, <3>1 DEF PresenceInv, Listens, FirstLink
    <3> HIDE DEF h
    <3>3. ASSUME NEW g \in Frame, down'[h] = Append(down[h], g), ~Tells(g, d), reg' = reg
          PROVE  d \in reg'
      BY <3>1, <3>2, <3>3, ShowsAppend
    <3>4. CASE f.kind = "step1"
      <4> DEFINE g == Step2(room \ f.upd)
      <4>1. g \in Frame /\ ~Tells(g, d)
        BY FrameTypes DEF TypeInv, DataOK, Step2, Tells
      <4>2. reg' = reg /\ (down'[h] = Append(down[h], g) \/ down'[h] = down[h])
        BY <2>1, <3>2, <3>4
      <4> HIDE DEF g
      <4> QED
        BY <3>1, <3>2, <3>3, <4>1, <4>2
    <3>5. CASE f.kind \in {"step2", "update"}
      <4> DEFINE g == Delta(f.upd)
      <4>1. g \in Frame /\ ~Tells(g, d)
        BY <3>5, FrameTypes DEF Delta, Tells
      <4>2. reg' = reg /\ (down'[h] = Append(down[h], g) \/ down'[h] = down[h])
        BY <2>1, <3>2, <3>5
      <4> HIDE DEF g
      <4> QED
        BY <3>1, <3>2, <3>3, <4>1, <4>2
    <3>6. CASE f.kind = "awareness"
      <4>1. reg' = Merge(reg, f, "server")
        BY <2>1, <3>6
      <4>2. CASE h = k
        <5>1. down'[h] = down[h] /\ d \notin f.off /\ d \in reg
          BY <2>1, <2>3, <3>1, <3>2, <3>6, <4>2
        <5> QED
          BY <4>1, <5>1 DEF Merge
      <4>3. CASE h # k
        <5>1. down'[h] = Append(down[h], f)
          BY <2>1, <3>2, <3>6, <4>3
        <5>2. d \notin f.off /\ (d \in reg \/ d \in f.on)
          <6>1. ~Denies(f, d) /\ (Shows(aware[c], down[h], d) \/ Tells(f, d))
            BY <3>1, <3>2, <5>1, ShowsAppend
          <6> QED
            BY <3>2, <3>6, <6>1 DEF Tells, Denies
        <5> QED
          BY <4>1, <5>2 DEF Merge
      <4> QED
        BY <4>2, <4>3
    <3> QED
      BY <3>4, <3>5, <3>6, FrameTypes
  <2> QED
    BY <1>6, <1>7, <2>7, <2>8 DEF PresenceInv
<1>9. ASSUME Serve(k) \/ ServerCloses(k) PROVE PresenceInv'
  <2>1. reg' = reg /\ known' = known /\ \A j \in Conn : phase[j] \in Alive => phase'[j] \in Alive
    BY <1>4, <1>9 DEF Serve, ServerCloses, Cleanup, Alive
  <2>2. Registered'
    <3>1. ASSUME NEW d \in reg
          PROVE  \E n \in 1..MaxConn[d] : known'[<<d, n>>] /\ phase'[<<d, n>>] \in Alive
      <4>1. PICK n \in 1..MaxConn[d] : known[<<d, n>>] /\ phase[<<d, n>>] \in Alive
        BY DEF PresenceInv, Registered
      <4> QED
        BY <1>3, <2>1, <4>1
    <3> QED
      BY <2>1, <3>1 DEF Registered
  <2>3. ASSUME NEW c \in Client PROVE Listens(c)'
    <3> DEFINE h == <<c, 1>>
    <3>1. SUFFICES ASSUME FirstLink(c)', NEW d \in Client \ {c}, Shows(aware[c], down'[h], d)
                   PROVE  d \in reg
      BY <1>1, <2>1 DEF Listens
    <3>2. h \in Conn /\ phase'[h] = "serving"
      BY <1>3, <3>1 DEF FirstLink
    <3>3. CASE Serve(k) /\ h = k
      <4> DEFINE told == IF reg = {} THEN << >> ELSE <<Presence(reg, {})>>
      <4>1. down'[h] = <<Step1(room)>> \o told /\ phase[h] = "dialled"
        BY <1>1, <3>2, <3>3 DEF Serve
      <4>2. <<Step1(room)>> \o told = <<Step1(room)>>
            \/ (reg # {} /\ <<Step1(room)>> \o told = <<Step1(room), Presence(reg, {})>>)
        BY ServeSends
      <4> HIDE DEF told
      <4>3. d \in aware[c] \/ d \in reg
        BY <3>1, <4>1, <4>2, ShowsServe
      <4>4. dialled[c] = 1
        BY <1>1, <3>1 DEF FirstLink
      <4>5. aware[c] \subseteq {c}
        BY <4>1, <4>4 DEF PresenceInv, Alone
      <4> QED
        BY <4>3, <4>5
    <3>4. CASE h # k
      <4>1. down'[h] = down[h] /\ phase'[h] = phase[h]
        BY <1>1, <1>9, <3>2, <3>4 DEF Serve, ServerCloses
      <4>2. FirstLink(c)
        BY <1>1, <1>2, <3>1, <4>1 DEF FirstLink
      <4> QED
        BY <3>1, <4>1, <4>2 DEF PresenceInv, Listens
    <3>5. CASE ServerCloses(k) /\ h = k
      BY <1>1, <3>2, <3>5 DEF ServerCloses
    <3> QED
      BY <1>9, <3>3, <3>4, <3>5
  <2> QED
    BY <1>6, <1>7, <2>2, <2>3 DEF PresenceInv
<1>10. CASE Cleanup(k)
  <2> DEFINE g == Presence({}, Offline(k))
  <2>1. /\ phase[k] \in {"broken", "closing"} /\ phase'[k] = "gone"
        /\ \A j \in Conn : j # k => phase'[j] = phase[j]
        /\ known' = known /\ reg' = reg \ Offline(k)
        /\ \A j \in Conn : IF Offline(k) # {} /\ j # k /\ phase[j] = "serving"
                           THEN down'[j] = Append(down[j], g)
                           ELSE down'[j] = down[j]
    BY <1>10, CleanupFacts
  <2>2. g \in Frame /\ \A d : ~Tells(g, d) /\ (d \in Offline(k) => Denies(g, d))
    BY <1>1, FrameTypes DEF Offline, Presence, Tells, Denies
  <2> HIDE DEF g
  <2>3. Registered'
    <3>1. ASSUME NEW d \in reg, d \notin Offline(k)
          PROVE  \E n \in 1..MaxConn[d] : known'[<<d, n>>] /\ phase'[<<d, n>>] \in Alive
      <4>1. PICK n \in 1..MaxConn[d] : known[<<d, n>>] /\ phase[<<d, n>>] \in Alive
        BY DEF PresenceInv, Registered
      <4>2. <<d, n>> # k
        <5>1. ASSUME <<d, n>> = k PROVE FALSE
          <6>1. known[k] /\ k[1] = d
            BY <1>1, <4>1, <5>1
          <6>2. Offline(k) = reg \cap {k[1]}
            BY <6>1 DEF Offline
          <6> QED
            BY <3>1, <6>1, <6>2
        <5> QED
          BY <5>1
      <4> QED
        BY <1>3, <2>1, <4>1, <4>2
    <3> QED
      BY <2>1, <3>1 DEF Registered
  <2>4. ASSUME NEW c \in Client PROVE Listens(c)'
    <3> DEFINE h == <<c, 1>>
    <3>1. SUFFICES ASSUME FirstLink(c)', NEW d \in Client \ {c}, Shows(aware[c], down'[h], d)
                   PROVE  d \in reg'
      BY <1>1 DEF Listens
    <3>2. h \in Conn /\ phase'[h] = "serving" /\ h # k /\ phase[h] = "serving" /\ down[h] \in Seq(Frame)
      BY <1>1, <1>3, <2>1, <3>1 DEF FirstLink
    <3>3. Shows(aware[c], down[h], d) => d \in reg
      BY <1>1, <1>2, <3>1, <3>2 DEF PresenceInv, Listens, FirstLink
    <3> HIDE DEF h
    <3>4. CASE Offline(k) # {}
      <4>1. down'[h] = Append(down[h], g)
        BY <2>1, <3>2, <3>4
      <4>2. ~Denies(g, d) /\ (Shows(aware[c], down[h], d) \/ Tells(g, d))
        BY <2>2, <3>1, <3>2, <4>1, ShowsAppend
      <4> QED
        BY <2>1, <2>2, <3>3, <4>2
    <3>5. CASE Offline(k) = {}
      BY <2>1, <3>1, <3>2, <3>3, <3>5
    <3> QED
      BY <3>4, <3>5
  <2> QED
    BY <1>6, <1>7, <2>3, <2>4 DEF PresenceInv
<1> QED
  BY <1>8, <1>9, <1>10 DEF ServerNext

\* Forgetting the registry under a room in use is what raced records.
LEMMA DropPresence ==
    ASSUME TypeInv, PresenceInv, DropRegistry
    PROVE  PresenceInv'
<1> USE DEF vars, link, server
<1>1. /\ reg' = {} /\ raced' = (raced \/ InRoom # {})
      /\ UNCHANGED <<up, down, phase, known, dialled, sock, aware>>
  BY DEF DropRegistry
<1>2. ASSUME NEW c \in Client PROVE ~FirstLink(c)'
  <2>1. <<c, 1>> \in Conn
    BY ConnFacts
  <2> QED
    BY <1>1, <2>1 DEF FirstLink, InRoom
<1>3. Registered'
  BY <1>1 DEF Registered
<1>4. ASSUME NEW c \in Client PROVE Alone(c)' /\ Listens(c)'
  BY <1>1, <1>2 DEF PresenceInv, Alone, Listens
<1>5. \A k \in Conn : OwnVoice(k)'
  BY <1>1 DEF PresenceInv, OwnVoice
<1> QED
  BY <1>3, <1>4, <1>5 DEF PresenceInv

\* ... it holds at the start ...
LEMMA PresenceInit ==
    ASSUME Init
    PROVE  PresenceInv
BY DEF Init, PresenceInv, OwnVoice, Registered, Alone, Listens, FirstLink

\* ... every step keeps it ...
LEMMA PresenceStep == TypeInv /\ LinkInv /\ PresenceInv /\ [Next]_vars => PresenceInv'
<1> SUFFICES ASSUME TypeInv, LinkInv, PresenceInv, [Next]_vars PROVE PresenceInv'
  OBVIOUS
<1>1. CASE UNCHANGED vars
  BY <1>1 DEF vars, link, server, PresenceInv, OwnVoice, Registered, Alone, Listens, FirstLink
<1> QED
  BY <1>1, ClientPresence, ServerPresence, DropPresence, Steps

\* ... and with nothing in flight, nobody is listed whose connections are gone.
LEMMA PresenceImplies == TypeInv /\ PresenceInv => NoGhosts
<1> SUFFICES ASSUME TypeInv, PresenceInv, NEW c \in Client, NEW d \in Client,
                    /\ c # d /\ ~raced /\ dialled[c] = 1 /\ sock[c] = 1
                    /\ phase[<<c, 1>>] = "serving" /\ down[<<c, 1>>] = << >>
                    /\ \A n \in 1..MaxConn[d] : phase[<<d, n>>] \in {"unused", "gone"},
                    d \in aware[c]
             PROVE  FALSE
  BY DEF NoGhosts, Listed
<1>1. Shows(aware[c], down[<<c, 1>>], d)
  BY ShowsTable
<1>2. d \in reg
  BY <1>1 DEF PresenceInv, Listens, FirstLink
<1> QED
  BY <1>2 DEF PresenceInv, Registered, Alive

\* Nobody types before the document has arrived.
LEMMA EditsKeep == SyncInv /\ TypeInv /\ [Next]_vars
                   => [\A c \in Client : Len(made') > Len(made) /\ doc'[c] # doc[c] => 0 \in doc[c]]_vars
<1> USE DEF vars, link, server
<1> SUFFICES ASSUME SyncInv, TypeInv, [Next]_vars, NEW c \in Client, Len(made') > Len(made), doc'[c] # doc[c]
             PROVE  0 \in doc[c]
  OBVIOUS
<1>1. made' # made
  BY DEF TypeInv, DataOK
<1>2. PICK d \in Client : ClientNext(d)
  BY <1>1, Steps, ServerLeaves DEF DropRegistry
<1>3. d = c
  BY <1>2, OtherSessions
<1>4. Edit(c)
  BY <1>1, <1>2, <1>3 DEF ClientNext, Mount, TokenArrives, TokenFails, TimerFires, SocketOpens, LinkDies,
     ServerClosed, Destroy, Receive, Announce
<1> QED
  BY <1>4 DEF Edit, Editable, SyncInv

\* The four invariants hold together.
LEMMA ClientInvariant == Spec => [](TypeInv /\ LinkInv /\ SyncInv /\ PresenceInv)
BY TypeInit, TypeStep, LinkInit, LinkStep, SyncInit, SyncStep, PresenceInit, PresenceStep, PTL DEF Spec

\* Sessions agree on the text when their links are quiet, on who is there, and
\* nobody types before the document has arrived.
THEOREM SessionsDoAgree == Spec => SessionsAgree
<1>1. TypeInv /\ LinkInv /\ SyncInv /\ PresenceInv => QuietMeansEqual /\ NoGhosts
  BY SyncImplies, PresenceImplies
<1>2. Spec => [](QuietMeansEqual /\ NoGhosts)
  BY <1>1, ClientInvariant, PTL
<1>3. Spec => EditsFollowSync
  BY EditsKeep, ClientInvariant, PTL DEF Spec, EditsFollowSync
<1> QED
  BY <1>2, <1>3, PTL DEF SessionsAgree
=============================================================================
