---------------------------- MODULE HistoryCapture ----------------------------
(***************************************************************************)
(* The version history of one document in one server process:              *)
(* history/versions/capture.py, with the callers that feed it              *)
(* (collab/ws/messaging.py, collab/ws/connection.py, versions/restore.py), *)
(* the reader versions/reconstruct.py and the worker's versions/jobs.py.   *)
(*                                                                         *)
(* Applied updates are numbered in the order the live document took them,  *)
(* and each builds on all that came before it; a CRDT that holds some of   *)
(* them is that set of numbers.  A document begins empty: ADR 0036 accepts *)
(* that content older than its first capture is not in its history.  A     *)
(* step is what a coroutine does between two awaits; taking a free         *)
(* asyncio.Lock is not an await.                                           *)
(***************************************************************************)
EXTENDS Integers, Sequences, FiniteSetsExt

CONSTANTS
    Conns,          \* WebSocket connections of the document
    Restorers,      \* requests that restore a version
    Flushers,       \* flush tasks spawned by the debounce timer
    MaxBuffer,      \* HISTORY_FLUSH_MAX_BUFFER
    ChunkMax,       \* HISTORY_CHUNK_MAX_UPDATES
    CompactMin,     \* HISTORY_COMPACT_MIN_UPDATES
    TinyBelow,      \* HISTORY_COMPACT_MERGE_BYTES, in updates
    MaxUpdates,     \* bound: updates brought to history, resends included
    MaxCrashes,     \* bound: crashes of the process
    MaxFaults       \* bound: writes that raise

Tasks == Conns \cup Restorers \cup Flushers

ASSUME KindsDistinct == /\ Conns \cap Restorers = {} /\ Conns \cap Flushers = {}
                        /\ Restorers \cap Flushers = {}
ASSUME TasksFinite == IsFiniteSet(Tasks)
ASSUME Sizes == {MaxBuffer, ChunkMax, CompactMin} \subseteq Nat \ {0} /\ TinyBelow \in Nat

VARIABLES
    made,       \* updates the live document has applied
    room,       \* connections in the document's room
    pc, mine,   \* where each task is, and the update it brings to history
    lock,       \* the document's current lock: 0 when there is none
    lk,         \* the lock each task holds or waits on
    buffer,     \* the buffered updates, in order
    armed,      \* the buffer's timer is running
    orphans,    \* timers still running of buffers that were dropped
    last,       \* the update whose hash is kept: 0 when there is none
    replica,    \* the CRDT kept of the captured stream: 0 when there is none
    heap,       \* the CRDTs that are kept or that a write works on
    pend,       \* the updates a task has detached from the buffer
    open, end, tail, rep,    \* what a write has read: the open chunk and its
                \* end, the last version; and the CRDT it works on
    base,       \* the state a write starts the first chunk from
    chunks, rows,            \* the database
    captured,   \* updates buffered so far
    failed,     \* updates lost by a write that raised, or with the process
    forgotten,  \* updates lost with a buffer that _drop_state popped
    overlapped, \* two writes of the document have run at once, under two locks
    bypassed,   \* a flush found nothing while another lock's write was running
    undercut,   \* a compaction withdrew the version that a write was to find taken
    answer,     \* the version a restore answered with: 0 before
    sent, crashes, faults    \* counters of the bounds

memory == <<lock, buffer, armed, orphans, last, replica, heap>>
read   == <<open, end, tail, rep, base>>
local  == <<pc, mine, lk, pend, read, answer>>
store  == <<chunks, rows>>
marks  == <<overlapped, bypassed, undercut>>
ghosts == <<captured, failed, forgotten, marks>>
bounds == <<sent, crashes, faults>>
vars == <<made, room, memory, local, store, ghosts, bounds>>

-----------------------------------------------------------------------------
(* Chunks, versions and their reconstruction *)

CRDTs == 1..Cardinality(Tasks) + 1
\* Variant: a document without history counts from -1, for its first to be 0.
MaxVersionBelow == Max({-1} \cup {r.v : r \in rows})

OnRecord == {r.v : r \in rows}
MaxVersion == Max({0} \cup OnRecord)
Open == {c \in DOMAIN chunks : ~chunks[c].sealed}
RowsOf(c) == {r \in rows : r.chunk = c}

\* Variant: a chunk claims to start at its first version, not at the one before.
ChunkFromNext(version, state) ==
    [base |-> version + 1, end |-> version, state |-> state, sealed |-> FALSE]

Chunk(version, state) == [base |-> version, end |-> version, state |-> state, sealed |-> FALSE]

\* reconstruct_doc: the chunk of the greatest base whose range has the version.
Spanning(v) == {c \in DOMAIN chunks : chunks[c].base <= v /\ v <= chunks[c].end}
Found(v) == Spanning(v) # {}

Reconstruct(v) ==
    LET c == Max(Spanning(v))
    IN  chunks[c].state \cup UNION {r.ups : r \in {r \in RowsOf(c) : r.v <= v}}

\* The text shows an update once everything it builds on is there; until then
\* the CRDT keeps it pending.
Shown(ops) == {u \in ops : 1..u \subseteq ops}

-----------------------------------------------------------------------------
(* Locks *)

\* A task holds the lock it entered until it leaves it; before that it waits.
Free(g) == \A t \in Tasks : lk[t] = g => pc[t] \in {"capture", "flush"}
NewLock == Min((1..Cardinality(Tasks) + 1) \ ({lock} \cup {lk[t] : t \in Tasks}))

\* The lock a task enters: the one it waited for, or the document's current one.
Entering(t) == IF lk[t] # 0 THEN lk[t] ELSE IF lock # 0 THEN lock ELSE NewLock
Enter(t) == Free(Entering(t))

Wait(t) ==
    /\ pc[t] \in {"capture", "flush"} /\ lk[t] = 0
    /\ lock # 0 /\ ~Free(lock)
    /\ lk' = [lk EXCEPT ![t] = lock]
    /\ UNCHANGED <<made, room, memory, pc, mine, pend, read, answer, store, ghosts,
                   bounds>>

Idle(t) == IF t \in room THEN "in" ELSE "out"

-----------------------------------------------------------------------------
(* The callers *)

Join(t) ==
    /\ t \in Conns /\ pc[t] = "out"
    /\ room' = room \cup {t}
    /\ pc' = [pc EXCEPT ![t] = "in"]
    /\ UNCHANGED <<made, memory, mine, lk, pend, read, answer, store, ghosts,
                   bounds>>

\* _handle_update: the manager applies the update, then history captures it.
Apply(t) ==
    /\ t \in Conns /\ pc[t] = "in"
    /\ sent < MaxUpdates /\ sent' = sent + 1
    /\ \/ made' = made + 1 /\ mine' = [mine EXCEPT ![t] = made + 1]
       \/ \E u \in 1..made : mine' = [mine EXCEPT ![t] = u] /\ UNCHANGED made   \* a resend
    /\ pc' = [pc EXCEPT ![t] = "capture"]
    /\ UNCHANGED <<room, memory, lk, pend, read, answer, store, ghosts, crashes, faults>>

\* restore_document: the room takes the text of an old version as one update.
Restore(t) ==
    /\ t \in Restorers /\ pc[t] = "out"
    /\ \E v \in 1..MaxVersion : Found(v)
    /\ sent < MaxUpdates /\ sent' = sent + 1
    /\ made' = made + 1
    /\ mine' = [mine EXCEPT ![t] = made + 1]
    /\ answer' = [answer EXCEPT ![t] = 0]
    /\ pc' = [pc EXCEPT ![t] = "capture"]
    /\ UNCHANGED <<room, memory, lk, pend, read, store, ghosts, crashes, faults>>

\* _record_restore asks for the latest version once its flush is done.
Answer(t) ==
    /\ t \in Restorers /\ pc[t] = "answer"
    /\ answer' = [answer EXCEPT ![t] = MaxVersion]
    /\ pc' = [pc EXCEPT ![t] = "out"]
    /\ UNCHANGED <<made, room, memory, mine, lk, pend, read, store, ghosts, bounds>>

\* _cleanup: the last connection to leave the room flushes the history.
Leave(t) ==
    /\ t \in Conns /\ pc[t] \in {"in", "closing"}
    /\ room' = room \ {t}
    /\ pc' = [pc EXCEPT ![t] = IF room' = {} THEN "flush" ELSE "out"]
    /\ UNCHANGED <<made, memory, mine, lk, pend, read, answer, store, ghosts,
                   bounds>>

\* _on_timer spawns a flush; so does a timer whose buffer was dropped.
OnTimer(t) ==
    /\ t \in Flushers /\ pc[t] = "out"
    /\ \/ armed /\ armed' = FALSE /\ UNCHANGED orphans
       \/ orphans > 0 /\ orphans' = orphans - 1 /\ UNCHANGED armed
    /\ pc' = [pc EXCEPT ![t] = "flush"]
    /\ UNCHANGED <<made, room, lock, buffer, last, replica, heap, mine, lk, pend, read, answer,
                   store, ghosts, bounds>>

-----------------------------------------------------------------------------
(* capture_update *)

\* Under the lock, the hash is computed in a thread.
StartCapture(t) ==
    /\ pc[t] = "capture" /\ Enter(t)
    /\ lk' = [lk EXCEPT ![t] = Entering(t)]
    /\ lock' = IF lk[t] = 0 THEN Entering(t) ELSE lock
    /\ pc' = [pc EXCEPT ![t] = "hash"]
    /\ UNCHANGED <<made, room, buffer, armed, orphans, last, replica, heap, mine,
                   pend, read, answer, store, ghosts, bounds>>

\* Variant: a restore leaves its update to the timer, like any other.
AfterCaptureAnswers(t) ==
    IF Len(buffer) + 1 >= MaxBuffer THEN "flush"
    ELSE IF t \in Restorers THEN "answer" ELSE Idle(t)

\* A restore flushes what it captured; others do when the buffer is full.
AfterCapture(t) ==
    IF t \in Restorers \/ Len(buffer) + 1 >= MaxBuffer THEN "flush" ELSE Idle(t)

Release(t) == lk' = [lk EXCEPT ![t] = 0]

\* A restore is remembered, for RestoreAnswered.
Brought(t) == mine' = [mine EXCEPT ![t] = IF t \in Restorers THEN @ ELSE 0]

\* The same update as the one before it: nothing to do.
CaptureAgain(t) ==
    /\ pc[t] = "hash" /\ last = mine[t]
    /\ Release(t)
    /\ Brought(t)
    /\ pc' = [pc EXCEPT ![t] = IF t \in Restorers THEN "flush" ELSE Idle(t)]
    /\ UNCHANGED <<made, room, memory, pend, read, answer, store, ghosts, bounds>>

Capture(t) ==
    /\ pc[t] = "hash" /\ last # mine[t]
    /\ buffer' = Append(buffer, mine[t])
    /\ captured' = captured \cup {mine[t]}
    /\ last' = mine[t] /\ armed' = TRUE
    /\ Release(t)
    /\ Brought(t)
    /\ pc' = [pc EXCEPT ![t] = AfterCapture(t)]
    /\ UNCHANGED <<made, room, lock, orphans, replica, heap, pend, read, answer, store, failed,
                   forgotten, marks, bounds>>

-----------------------------------------------------------------------------
(* flush_doc *)

Ops(seq) == {seq[i] : i \in DOMAIN seq}

\* reason "idle": the timer's flush, and the last connection's.
WhenIdle(t) == t \in Flushers \/ (t \in Conns /\ t \notin room)

\* Variant: a flush looks for more to flush, without end.
AfterFlushAgain(t) == IF t \in Restorers THEN "answer" ELSE "flush"

AfterFlush(t) == IF t \in Restorers THEN "answer" ELSE Idle(t)

\* Variant: cancels the timer of a buffer that it keeps.
DropStateDisarms ==
    /\ replica' = 0 /\ last' = 0 /\ lock' = 0
    /\ armed' = FALSE /\ UNCHANGED <<buffer, orphans, forgotten>>

\* A CRDT that neither a write nor the service refers to is gone.
InUse(h) == [o \in CRDTs |-> IF o = replica' \/ \E t \in Tasks : rep'[t] = o THEN h[o] ELSE {}]

\* _drop_state pops the buffer, should there be one again, and never its timer.
DropState ==
    /\ replica' = 0 /\ last' = 0 /\ lock' = 0
    /\ buffer' = <<>> /\ forgotten' = forgotten \cup Ops(buffer)
    /\ armed' = FALSE /\ orphans' = orphans + (IF armed THEN 1 ELSE 0)

\* A lock that was dropped, or the one made in its place, still guards a write.
Writing == {"write", "rebuild", "tail", "first", "commit"}
WritesElsewhere(t) == \E u \in Tasks : pc[u] \in Writing /\ lk[u] # Entering(t)

\* Nothing is buffered.
FlushNothing(t) ==
    /\ pc[t] = "flush" /\ Enter(t) /\ buffer = <<>>
    /\ Release(t)
    /\ pc' = [pc EXCEPT ![t] = AfterFlush(t)]
    /\ IF WhenIdle(t)
       THEN DropState /\ UNCHANGED read /\ heap' = InUse(heap)
       ELSE /\ lock' = IF lk[t] = 0 THEN Entering(t) ELSE lock
            /\ UNCHANGED <<buffer, armed, orphans, last, replica, heap, read, forgotten>>
    /\ bypassed' = (bypassed \/ WritesElsewhere(t))
    /\ UNCHANGED <<made, room, mine, pend, answer, store, captured, failed, overlapped, undercut,
                   bounds>>

\* _take detaches the buffer and cancels its timer.
Take(t) ==
    /\ pc[t] = "flush" /\ Enter(t) /\ buffer # <<>>
    /\ lk' = [lk EXCEPT ![t] = Entering(t)]
    /\ lock' = IF lk[t] = 0 THEN Entering(t) ELSE lock
    /\ pend' = [pend EXCEPT ![t] = buffer]
    /\ buffer' = <<>> /\ armed' = FALSE
    /\ pc' = [pc EXCEPT ![t] = "write"]
    /\ overlapped' = (overlapped \/ WritesElsewhere(t))
    /\ UNCHANGED <<made, room, orphans, last, replica, heap, mine, read, answer, store, captured,
                   failed, forgotten, bypassed, undercut, bounds>>

-----------------------------------------------------------------------------
(* _write: one transaction, each query a step *)

\* Variant: a replica starts empty, history or not.
RebuiltEmpty(t) == {}

\* _replica: the open chunk up to the end it was read with.
Rebuilt(t) == Reconstruct(end[t])

NewCRDT == Min(CRDTs \ ({replica} \cup {rep[t] : t \in Tasks}))

WorkOn(t, o, ops) ==
    /\ replica' = o /\ rep' = [rep EXCEPT ![t] = o]
    /\ heap' = InUse([heap EXCEPT ![o] = ops])

\* The open chunk; then the replica that is kept, or a new one if there is
\* nothing to rebuild it from.
ReadOpen(t) ==
    /\ pc[t] = "write"
    /\ open' = [open EXCEPT ![t] = Max({0} \cup Open)]
    /\ end' = [end EXCEPT ![t] = IF Open = {} THEN 0 ELSE chunks[Max(Open)].end]
    /\ \/ /\ replica # 0
          /\ rep' = [rep EXCEPT ![t] = replica]
          /\ pc' = [pc EXCEPT ![t] = "tail"]
          /\ UNCHANGED <<replica, heap>>
       \/ /\ replica = 0 /\ Open = {}
          /\ WorkOn(t, NewCRDT, {})
          /\ pc' = [pc EXCEPT ![t] = "tail"]
       \/ /\ replica = 0 /\ Open # {}
          /\ pc' = [pc EXCEPT ![t] = "rebuild"]
          /\ UNCHANGED <<replica, heap, rep>>
    /\ UNCHANGED <<made, room, lock, buffer, armed, orphans, last, mine, lk, pend, tail, base,
                   answer, store, ghosts, bounds>>

Rebuild(t) ==
    /\ pc[t] = "rebuild" /\ Found(end[t])
    /\ WorkOn(t, NewCRDT, Rebuilt(t))
    /\ pc' = [pc EXCEPT ![t] = "tail"]
    /\ UNCHANGED <<made, room, lock, buffer, armed, orphans, last, mine, lk, pend, open, end,
                   tail, base, answer, store, ghosts, bounds>>

Updated(t) == [heap EXCEPT ![rep[t]] = @ \cup Ops(pend[t])]

\* The last version.  With an open chunk, the replica takes the updates at once;
\* without, the first chunk starts from the replica as it is now.
ReadMax(t) ==
    /\ pc[t] = "tail"
    /\ tail' = [tail EXCEPT ![t] = MaxVersion]
    /\ IF open[t] = 0
       THEN /\ base' = [base EXCEPT ![t] = heap[rep[t]]]
            /\ pc' = [pc EXCEPT ![t] = "first"]
            /\ UNCHANGED heap
       ELSE /\ heap' = Updated(t)
            /\ pc' = [pc EXCEPT ![t] = "commit"]
            /\ UNCHANGED base
    /\ UNCHANGED <<made, room, lock, buffer, armed, orphans, last, replica, mine, lk, pend, open,
                   end, rep, answer, store, ghosts, bounds>>

\* The first chunk.  Its insert waits for another one that has not committed.
NewChunk(t) ==
    /\ pc[t] = "first" /\ Open = {}
    /\ \A u \in Tasks : ~(pc[u] = "commit" /\ open[u] = 0)
    /\ heap' = Updated(t)
    /\ pc' = [pc EXCEPT ![t] = "commit"]
    /\ UNCHANGED <<made, room, lock, buffer, armed, orphans, last, replica, mine, lk, pend, read,
                   answer, store, ghosts, bounds>>

\* Variant: the next chunk starts from the replica as it was before the update.
NextBaseStale(t) == heap[rep[t]] \ Ops(pend[t])

\* _roll_over starts the next chunk from the replica.
NextBase(t) == heap[rep[t]]

\* The chunk the new version goes into, as this transaction knows it.
Own(t) == IF open[t] = 0 THEN Len(chunks) + 1 ELSE open[t]
OwnChunk(t) == IF open[t] = 0 THEN Chunk(tail[t], base[t]) ELSE chunks[open[t]]
Full(t) == tail[t] + 1 - OwnChunk(t).base >= ChunkMax

\* uq_history_updates_doc_version, and one open chunk to a document.
Conflict(t) ==
    \/ \E r \in rows : r.v = tail[t] + 1
    \/ Full(t) /\ Open \ {open[t]} # {}

\* The row, the end of its chunk, and the next chunk when this one is full.
AppendVersion(t) ==
    LET v == tail[t] + 1
        mark == [OwnChunk(t) EXCEPT !.end = v, !.sealed = @ \/ Full(t)]
        grown == [c \in DOMAIN chunks \cup {Own(t)} |-> IF c = Own(t) THEN mark ELSE chunks[c]]
    IN  /\ rows' = rows \cup {[v |-> v, chunk |-> Own(t), ups |-> Ops(pend[t])]}
        /\ chunks' = IF Full(t) THEN Append(grown, Chunk(v, NextBase(t))) ELSE grown

EndWrite(t) ==
    /\ Release(t)
    /\ pend' = [pend EXCEPT ![t] = <<>>]
    /\ open' = [open EXCEPT ![t] = 0] /\ end' = [end EXCEPT ![t] = 0]
    /\ tail' = [tail EXCEPT ![t] = 0] /\ rep' = [rep EXCEPT ![t] = 0]
    /\ base' = [base EXCEPT ![t] = {}]

Commit(t) ==
    /\ pc[t] = "commit" /\ ~Conflict(t)
    /\ AppendVersion(t)
    /\ EndWrite(t)
    /\ pc' = [pc EXCEPT ![t] = AfterFlush(t)]
    /\ IF WhenIdle(t) THEN DropState
       ELSE UNCHANGED <<lock, buffer, armed, orphans, last, replica, forgotten>>
    /\ heap' = InUse(heap)
    /\ UNCHANGED <<made, room, mine, answer, captured, failed, marks, bounds>>

\* A raising flush ends a connection that was serving, and a restore with an
\* error; the others only log it.  The replica keeps the updates it took.
Abort(t) ==
    /\ failed' = failed \cup Ops(pend[t])
    /\ EndWrite(t)
    /\ pc' = [pc EXCEPT ![t] = IF t \in room THEN "closing" ELSE "out"]
    /\ UNCHANGED <<made, room, lock, buffer, armed, orphans, last, replica, mine, answer, store,
                   captured, forgotten, marks, sent, crashes>>
    /\ heap' = InUse(heap)

\* An insert meets what another write has committed, or there is no such version
\* to rebuild the replica from.
CommitConflict(t) ==
    /\ \/ pc[t] = "commit" /\ Conflict(t)
       \/ pc[t] = "first" /\ Open # {}
       \/ pc[t] = "rebuild" /\ ~Found(end[t])
    /\ Abort(t) /\ UNCHANGED faults

WriteFails(t) ==
    /\ pc[t] \in Writing
    /\ faults < MaxFaults /\ faults' = faults + 1
    /\ Abort(t)

-----------------------------------------------------------------------------
(* compact_history, in the worker: one transaction *)

Tiny(r) == Cardinality(r.ups) < TinyBelow
Between(r, p) == {q \in RowsOf(r.chunk) : r.v < q.v /\ q.v <= p.v}

\* Variant: the row that stays does not take over the updates of its run.
RunOfOne(r) == {r}

\* The rows of a run are adjacent and tiny, and the last one stays for all.
RunOf(r) ==
    {r} \cup {q \in RowsOf(r.chunk) : q.v < r.v /\ \A p \in Between(q, r) \cup {q} : Tiny(p)}
NextIsTiny(r) == \E q \in RowsOf(r.chunk) : Tiny(q) /\ Between(r, q) = {q}

\* Variant: the first row of a run is the one that is kept.
MergedKeepsFirst(r) == Tiny(r) /\ \E q \in RowsOf(r.chunk) : Tiny(q) /\ Between(q, r) = {r}

MergedAway(r) == Tiny(r) /\ NextIsTiny(r)

MergedRows ==
    {IF chunks[r.chunk].sealed /\ Tiny(r)
     THEN [r EXCEPT !.ups = UNION {q.ups : q \in RunOf(r)}] ELSE r :
     r \in {r \in rows : chunks[r.chunk].sealed => ~MergedAway(r)}}

\* _seal_open_tail comes first, and finds the open chunk short of full (ChunksTile).
Compact ==
    /\ Cardinality(rows) >= CompactMin
    /\ rows' = MergedRows /\ rows' # rows
    /\ undercut' = (undercut \/ \E t \in Tasks : pc[t] = "commit" /\ tail[t] + 1 \in OnRecord \ OnRecord')
    /\ UNCHANGED <<made, room, memory, local, chunks, captured, failed, forgotten, overlapped,
                   bypassed, bounds>>

-----------------------------------------------------------------------------
\* The process dies with what it holds in memory and starts again.
Crash ==
    /\ crashes < MaxCrashes /\ crashes' = crashes + 1
    /\ failed' = failed \cup Ops(buffer) \cup UNION {Ops(pend[t]) : t \in Tasks}
    /\ room' = {}
    /\ lock' = 0 /\ buffer' = <<>> /\ armed' = FALSE /\ orphans' = 0
    /\ last' = 0 /\ replica' = 0 /\ heap' = [o \in CRDTs |-> {}]
    /\ pc' = [t \in Tasks |-> "out"]
    /\ mine' = [t \in Tasks |-> 0] /\ lk' = [t \in Tasks |-> 0]
    /\ pend' = [t \in Tasks |-> <<>>]
    /\ open' = [t \in Tasks |-> 0] /\ end' = [t \in Tasks |-> 0]
    /\ tail' = [t \in Tasks |-> 0] /\ rep' = [t \in Tasks |-> 0]
    /\ base' = [t \in Tasks |-> {}]
    /\ answer' = [t \in Tasks |-> 0]
    /\ UNCHANGED <<made, store, captured, forgotten, marks, sent, faults>>

Init ==
    /\ made = 0 /\ room = {}
    /\ lock = 0 /\ buffer = <<>> /\ armed = FALSE /\ orphans = 0
    /\ last = 0 /\ replica = 0 /\ heap = [o \in CRDTs |-> {}]
    /\ pc = [t \in Tasks |-> "out"]
    /\ mine = [t \in Tasks |-> 0] /\ lk = [t \in Tasks |-> 0]
    /\ pend = [t \in Tasks |-> <<>>]
    /\ open = [t \in Tasks |-> 0] /\ end = [t \in Tasks |-> 0]
    /\ tail = [t \in Tasks |-> 0] /\ rep = [t \in Tasks |-> 0]
    /\ base = [t \in Tasks |-> {}]
    /\ chunks = <<>> /\ rows = {}
    /\ captured = {} /\ failed = {} /\ forgotten = {}
    /\ overlapped = FALSE /\ bypassed = FALSE /\ undercut = FALSE
    /\ answer = [t \in Tasks |-> 0]
    /\ sent = 0 /\ crashes = 0 /\ faults = 0

\* Steps the event loop takes on its own.
Progress(t) ==
    \/ Wait(t) \/ StartCapture(t) \/ CaptureAgain(t) \/ Capture(t)
    \/ FlushNothing(t) \/ Take(t) \/ ReadOpen(t) \/ Rebuild(t) \/ ReadMax(t)
    \/ NewChunk(t) \/ Commit(t) \/ CommitConflict(t)
    \/ Answer(t) \/ OnTimer(t)

Request(t) == Join(t) \/ Apply(t) \/ Leave(t) \/ Restore(t)

Next ==
    \/ \E t \in Tasks : Progress(t) \/ Request(t) \/ WriteFails(t)
    \/ Compact \/ Crash

Spec == Init /\ [][Next]_vars

\* The event loop runs every ready task, asyncio.Lock serves its waiters in
\* order, and timers fire.  Nothing is assumed of clients and of the worker.
Fairness ==
    /\ \A t \in Tasks : SF_vars(Progress(t))
    /\ \A t \in Tasks : SF_vars(StartCapture(t) \/ Take(t) \/ FlushNothing(t))
FairSpec == Spec /\ Fairness

-----------------------------------------------------------------------------
(* Properties *)

Updates == 1..made
Places == {"out", "in", "closing", "capture", "hash", "flush", "write", "rebuild",
           "tail", "first", "commit", "answer"}

\* Every variable has its type.
TypeOK ==
    /\ made \in Nat /\ room \subseteq Conns
    /\ pc \in [Tasks -> Places] /\ mine \in [Tasks -> Nat]
    /\ lock \in Nat /\ lk \in [Tasks -> Nat]
    /\ buffer \in Seq(Updates) /\ armed \in BOOLEAN /\ orphans \in Nat
    /\ last \in Nat /\ replica \in {0} \cup CRDTs /\ heap \in [CRDTs -> SUBSET Updates]
    /\ pend \in [Tasks -> Seq(Updates)] /\ {open, end, tail} \subseteq [Tasks -> Nat]
    /\ rep \in [Tasks -> {0} \cup CRDTs] /\ base \in [Tasks -> SUBSET Updates]
    /\ chunks \in Seq([base : Nat, end : Nat, state : SUBSET Updates, sealed : BOOLEAN])
    /\ rows \subseteq [v : Nat, chunk : Nat, ups : SUBSET Updates]
    /\ captured \subseteq Updates /\ failed \cup forgotten \subseteq Updates
    /\ {overlapped, bypassed, undercut} \subseteq BOOLEAN
    /\ answer \in [Tasks -> Nat] /\ {sent, crashes, faults} \subseteq Nat

Stored == UNION {r.ups : r \in rows}
Pending == Ops(buffer) \cup UNION {Ops(pend[t]) : t \in Tasks}

\* What was captured is in the buffer, on its way to the database or in a row,
\* unless a write raised, the process died, or a flush dropped the state of the
\* document while another one captured into it.
CapturedKept == captured \subseteq Pending \cup Stored \cup failed \cup forgotten

\* Chunks tile the versions: each starts where the one before it ended, only
\* the last one is open and short of full, and every row lies in its chunk; all
\* of it however writes overlap, unless a compaction undercut one of them.
ChunksTile ==
  ~undercut =>
    /\ \A c \in DOMAIN chunks :
         /\ chunks[c].base = IF c = 1 THEN 0 ELSE chunks[c - 1].end
         /\ chunks[c].sealed <=> c < Len(chunks)
         /\ chunks[c].end - chunks[c].base <= ChunkMax - (IF chunks[c].sealed THEN 0 ELSE 1)
    /\ \A r \in rows : chunks[r.chunk].base < r.v /\ r.v <= chunks[r.chunk].end
    /\ chunks # <<>> => chunks[Len(chunks)].end = MaxVersion

\* As long as no two writes ran at once, a version shows all that the rows up
\* to it hold, whatever chunk it is read from, and nothing that was never stored
\* unless a write of it raised.
ReplaysRows ==
    ~overlapped =>
        \A r \in rows :
            LET upTo == UNION {q.ups : q \in {q \in rows : q.v <= r.v}}
            IN  /\ Found(r.v)
                /\ upTo \subseteq Reconstruct(r.v) /\ Reconstruct(r.v) \subseteq upTo \cup failed

\* History catches up, under the same condition: with nothing on its way, no
\* write lost and no crash, the latest version shows the text the document has,
\* if the document began empty.
Quiet == Pending = {} /\ \A t \in Tasks : pc[t] \notin {"capture", "hash"}
CatchesUp ==
    ~overlapped /\ Quiet /\ failed \cup forgotten = {} /\ crashes = 0 /\ made > 0 =>
        Found(MaxVersion) /\ Shown(Reconstruct(MaxVersion)) = 1..made

\* The versions on record keep VersionHistory's promise, under that condition.
Versions == [v \in OnRecord |-> Reconstruct(v)]
Record == INSTANCE VersionHistory WITH shown <- Versions
ImplementsVersionHistory == Record!Init /\ [][Record!Next \/ overlapped']_Versions

\* A captured update reaches a row, unless a write of it raises.
CapturedStored == \A u \in 1..MaxUpdates : u \in captured ~> u \in Stored \cup failed \cup forgotten

\* A capture or a flush that waits on a lock, dropped or not, gets its turn.
WaitersServed ==
    \A t \in Tasks : pc[t] \in {"capture", "flush"} ~> pc[t] \notin {"capture", "flush"}

\* Claim of the module: the replica, built from the captured stream, supplies the
\* full state for the base of a chunk, so that the latest version shows every
\* update in the rows, overlapping writes or not.
BasesComplete == Quiet /\ rows # {} => Stored \subseteq Reconstruct(MaxVersion)

\* A restore answers with a version that has its text, unless its update was
\* lost before: as long as no two writes ran at once, and no flush went by a write.
RestoreAnswered ==
    [][\A t \in Restorers : Answer(t) /\ ~overlapped /\ ~bypassed =>
         mine[t] \in failed \cup forgotten \cup Reconstruct(answer'[t])]_vars
=============================================================================
