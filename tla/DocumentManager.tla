--------------------------- MODULE DocumentManager ---------------------------
(***************************************************************************)
(* The life of one collaborative document in one server process:           *)
(* collab/rooms/manager.py over collab/rooms/store.py and                  *)
(* collab/rooms/content_bridge.py.                                         *)
(*                                                                         *)
(* Coroutines interleave at their awaits.  A step of the model is the code *)
(* a coroutine runs from one await to the next; a pc names the await it is *)
(* parked at.  The CRDT is the set of operations it contains (merging is   *)
(* union, applying twice is applying once), and its text is the set of     *)
(* content tags of the operations that no other one deletes.               *)
(***************************************************************************)
EXTENDS Naturals, Sequences, FiniteSets

CONSTANTS
    Conns,          \* WebSocket connections to the document
    Servers,        \* server-side edits: history restore, Git push
    Flushers,       \* compile, agent and export requests that force a flush
    Timers,         \* debounced flush tasks alive at once (a bound)
    NoTimer,        \* entry.flush_task is None
    SnapshotEvery,  \* COLLAB_SNAPSHOT_EVERY_UPDATES
    MaxEdits,       \* bound: operations made by clients and server edits
    MaxRows,        \* bound: rows ever appended to the log
    MaxCrashes,     \* bound: crashes of the process
    MaxFaults       \* bound: database calls that raise

Users == Conns \cup Servers \cup Flushers
Tasks == Users \cup Timers
Holders == Conns \cup Servers

ASSUME TasksDistinct ==
    /\ Conns \cap Servers = {} /\ Conns \cap Flushers = {} /\ Servers \cap Flushers = {}
    /\ Users \cap Timers = {} /\ NoTimer \notin Tasks
ASSUME UsersFinite == IsFiniteSet(Tasks)
ASSUME SnapshotEveryPositive == SnapshotEvery \in Nat \ {0}

VARIABLES
    ops,        \* every CRDT operation ever made: <<[ins, del], ...>>
    entry,      \* _entries[document_id]
    queued,     \* tasks waiting on the document's current lock
    dropped,    \* tasks waiting on a lock that eviction has dropped
    pc,         \* where each task is
    op,         \* the operation an update task is persisting
    text, seq,  \* what a flush took under the lock
    loaded,     \* the entry _load is building
    snap,       \* the crdt_document_state row; seq 0 when there is none
    log,        \* the crdt_update rows: set of [id, op]
    nextRow,    \* the next id of crdt_update
    content,    \* documents.content
    acked,      \* operations handle_update has returned for relay
    edits, crashes, faults   \* counters of the bounds

tasks == <<pc, op, text, seq, loaded>>
lock  == <<queued, dropped>>
store == <<snap, log, nextRow, content>>
bounds == <<edits, crashes, faults>>
vars == <<ops, entry, lock, tasks, store, acked, bounds>>

-----------------------------------------------------------------------------
(* Data *)

NoEntry == [live |-> FALSE, ydoc |-> {}, refcount |-> 0, seq |-> 0, since |-> 0,
            last |-> 0, dirty |-> FALSE, timer |-> NoTimer, evicting |-> FALSE]

LiveOps(ydoc) == ydoc \ UNION {ops[p].del : p \in ydoc}
Text(ydoc)    == UNION {ops[o].ins : o \in LiveOps(ydoc)}

\* What CrdtStore.load merges: the snapshot and every row of the log.
Recoverable == snap.state \cup {r.op : r \in log}

\* Variant: the query's NULL for an empty log is not replaced by 0.
MaxIdNull == IF log = {} THEN NoTimer ELSE CHOOSE i \in {r.id : r \in log} : \A r \in log : r.id <= i

\* max_update_id: the high-water id of the log, 0 when it is empty.
MaxId == IF log = {} THEN 0 ELSE CHOOSE i \in {r.id : r \in log} : \A r \in log : r.id <= i

\* Variant: loading reads the snapshot and forgets the log.
LoadedSnapshotOnly == [NoEntry EXCEPT !.live = TRUE, !.ydoc = snap.state,
                                      !.seq = snap.seq, !.last = MaxId]

LoadedEntry == [NoEntry EXCEPT !.live = TRUE, !.ydoc = Recoverable,
                               !.seq = snap.seq, !.last = MaxId]

\* Variant: the row that exists already keeps its old state.
SnapshotKeepsState(state, upto) ==
    /\ snap' = [snap EXCEPT !.state = IF snap.seq = 0 THEN state ELSE @, !.seq = @ + 1]
    /\ log' = {r \in log : r.id > upto}

\* CrdtStore.snapshot: one transaction writes the state and truncates the log.
Snapshot(state, upto) ==
    /\ snap' = [snap EXCEPT !.state = state, !.seq = @ + 1]
    /\ log' = {r \in log : r.id > upto}

-----------------------------------------------------------------------------
(* Scheduling *)

Locked == {"load", "seed", "seedSnapshot", "append", "compact", "settleCompact"}

LockFree == \A t \in Tasks : pc[t] \notin Locked
\* A waiter of a dropped lock finds it free: nobody holds it across an await.
CanEnter(t) == t \in dropped \/ LockFree

Go(t, where) == pc' = [pc EXCEPT ![t] = where]
Unqueue(t)   == queued' = queued \ {t} /\ dropped' = dropped \ {t}

\* Variants: no release in a finally block; a release that ends at its flush.
AfterUpdateLeaks(t) == IF t \in Conns THEN "held" ELSE "idle"
AfterFlushEnds(t) == "idle"

\* Where a holder goes when its update is done: a connection serves on, a
\* server-side edit releases in its finally block.
AfterUpdate(t) == IF t \in Conns THEN "held" ELSE "release"
AfterFlush(t)  == IF t \in Timers THEN "idle" ELSE "settle"

\* The task asks for the lock while another one holds it.
WaitForLock(t) ==
    /\ pc[t] \in {"acquire", "flush", "settle"}
    /\ ~LockFree /\ t \notin queued \cup dropped
    /\ queued' = queued \cup {t}
    /\ UNCHANGED <<ops, entry, dropped, tasks, store, acked, bounds>>

-----------------------------------------------------------------------------
(* acquire and _load *)

StartAcquire(t) ==
    /\ pc[t] = "idle"
    /\ Go(t, "acquire")
    /\ UNCHANGED <<ops, entry, lock, op, text, seq, loaded, store, acked, bounds>>

\* Variant: the retry waits on the same, dropped lock again.
RetrySameLock(t) ==
    /\ pc[t] = "acquire" /\ t \in dropped
    /\ UNCHANGED vars

\* The lock was swapped while the task waited for it: try again with the new one.
RetryAcquire(t) ==
    /\ pc[t] = "acquire" /\ t \in dropped
    /\ Unqueue(t)
    /\ UNCHANGED <<ops, entry, tasks, store, acked, bounds>>

AcquireLoaded(t) ==
    /\ pc[t] = "acquire" /\ t \notin dropped /\ LockFree
    /\ entry.live
    /\ entry' = [entry EXCEPT !.refcount = @ + 1, !.evicting = FALSE]
    /\ Unqueue(t) /\ Go(t, "held")
    /\ UNCHANGED <<ops, op, text, seq, loaded, store, acked, bounds>>

\* Variant: no identity check after the wait, so a dropped lock is good enough.
AcquireUnchecked(t) ==
    /\ pc[t] = "acquire" /\ CanEnter(t)
    /\ ~entry.live
    /\ Unqueue(t) /\ Go(t, "load")
    /\ UNCHANGED <<ops, entry, op, text, seq, loaded, store, acked, bounds>>

AcquireMissing(t) ==
    /\ pc[t] = "acquire" /\ t \notin dropped /\ LockFree
    /\ ~entry.live
    /\ Unqueue(t) /\ Go(t, "load")
    /\ UNCHANGED <<ops, entry, op, text, seq, loaded, store, acked, bounds>>

Install(t, e) ==
    /\ entry' = [e EXCEPT !.refcount = 1]
    /\ loaded' = [loaded EXCEPT ![t] = NoEntry]
    /\ Go(t, "held")

\* The load takes several round trips to the database; the waiters of a dropped
\* lock run in consecutive turns of the event loop, before the first of them ends.
Load(t) ==
    /\ pc[t] = "load" /\ dropped = {}
    /\ IF Text(Recoverable) # {}
       THEN Install(t, LoadedEntry)
       ELSE /\ loaded' = [loaded EXCEPT ![t] = LoadedEntry]
            /\ Go(t, "seed")
            /\ UNCHANGED entry
    /\ UNCHANGED <<ops, lock, op, text, seq, store, acked, bounds>>

\* Empty text: seed from documents.content, if there is any.
Seed(t) ==
    /\ pc[t] = "seed"
    /\ IF content = {}
       THEN Install(t, loaded[t]) /\ UNCHANGED text
       ELSE /\ text' = [text EXCEPT ![t] = content]
            /\ Go(t, "seedSnapshot")
            /\ UNCHANGED <<entry, loaded>>
    /\ UNCHANGED <<ops, lock, op, seq, store, acked, bounds>>

\* The seed is a new operation; it is stored as a snapshot that truncates nothing.
SeedSnapshot(t) ==
    /\ pc[t] = "seedSnapshot"
    /\ ops' = Append(ops, [ins |-> text[t], del |-> {}])
    /\ LET ydoc == loaded[t].ydoc \cup {Len(ops) + 1}
       IN  /\ Snapshot(ydoc, 0)
           /\ Install(t, [loaded[t] EXCEPT !.ydoc = ydoc, !.seq = snap.seq + 1])
    /\ text' = [text EXCEPT ![t] = {}]
    /\ UNCHANGED <<lock, op, seq, nextRow, content, acked, bounds>>

-----------------------------------------------------------------------------
(* handle_update, apply_server_update, apply_server_edits *)

\* A client inserts text, or deletes all the text there is.
ClientEdits == {[ins |-> {Len(ops) + 1}, del |-> {}],
                [ins |-> {}, del |-> LiveOps(entry.ydoc)]}
\* replace_text with some text, with "", and edits that leave the rest alone.
ServerEdits == {[ins |-> {Len(ops) + 1}, del |-> LiveOps(entry.ydoc)],
                [ins |-> {}, del |-> LiveOps(entry.ydoc)],
                [ins |-> {Len(ops) + 1}, del |-> {}]}

\* Bounds of the model: rows of the log, and timers alive at once.
WithinBounds == /\ nextRow <= MaxRows
                /\ \E f \in Timers : pc[f] = "idle" \/ f = entry.timer

Apply(t, o) ==
    /\ pc[t] = "held" /\ LockFree /\ entry.live
    /\ WithinBounds
    /\ entry' = [entry EXCEPT !.ydoc = @ \cup {o}]
    /\ op' = [op EXCEPT ![t] = o]
    /\ Go(t, "append")
    /\ UNCHANGED <<lock, text, seq, loaded, store, acked, crashes, faults>>

NewEdit(t, choices) ==
    /\ edits < MaxEdits
    /\ \E e \in choices : ops' = Append(ops, e)
    /\ edits' = edits + 1
    /\ Apply(t, Len(ops) + 1)

HandleUpdate(t) == NewEdit(t, ClientEdits)

\* A client that reconnects sends again what it believes the server lacks.
HandleResend(t) ==
    \E o \in 1..Len(ops) : Apply(t, o) /\ UNCHANGED <<ops, edits>>

ApplyServerUpdate(t) == NewEdit(t, ServerEdits)

\* apply_server_edits when the plan has nothing to change.
ApplyNoEdits(t) ==
    /\ pc[t] = "held" /\ LockFree
    /\ Go(t, "release")
    /\ UNCHANGED <<ops, entry, lock, op, text, seq, loaded, store, acked, bounds>>

\* The lock is released, the flush timer armed unless one is pending, and the
\* update returned to the caller for relay.
FinishUpdate(t, e) ==
    /\ IF e.timer # NoTimer /\ pc[e.timer] # "idle"
       THEN entry' = e /\ Go(t, AfterUpdate(t))
       ELSE \E f \in Timers :
              /\ pc[f] = "idle"
              /\ entry' = [e EXCEPT !.timer = f]
              /\ pc' = [pc EXCEPT ![t] = AfterUpdate(t), ![f] = "sleep"]
    /\ acked' = acked \cup {op[t]}
    /\ op' = [op EXCEPT ![t] = 0]

InsertRow(t) ==
    /\ log' = log \cup {[id |-> nextRow, op |-> op[t]]}
    /\ nextRow' = nextRow + 1

\* Variant: one update too late.
BelowThresholdLate(e) == e.since <= SnapshotEvery

\* by_count does not ask for a compaction.
BelowThreshold(e) == e.since < SnapshotEvery

Appended == [entry EXCEPT !.last = nextRow, !.since = @ + 1, !.dirty = TRUE]

AppendUpdate(t) ==
    /\ pc[t] = "append"
    /\ InsertRow(t)
       \* by_count compacts; by_time may, at any update
    /\ \/ /\ entry' = Appended
          /\ Go(t, "compact")
          /\ UNCHANGED <<op, acked>>
       \/ /\ BelowThreshold(Appended)
          /\ FinishUpdate(t, Appended)
    /\ UNCHANGED <<ops, lock, text, seq, loaded, snap, content, bounds>>

Compacted == [entry EXCEPT !.seq = snap.seq + 1, !.since = 0]

Compact(t) ==
    /\ pc[t] = "compact"
    /\ Snapshot(entry.ydoc, entry.last)
    /\ FinishUpdate(t, Compacted)
    /\ UNCHANGED <<ops, lock, text, seq, loaded, nextRow, content, bounds>>

-----------------------------------------------------------------------------
(* release, flush, _do_flush_text and eviction *)

Release(t) ==
    /\ pc[t] = "release" \/ (pc[t] = "held" /\ t \in Conns)
    /\ LockFree
    /\ IF entry.live
       THEN /\ entry' = [entry EXCEPT !.refcount = IF @ = 0 THEN 0 ELSE @ - 1]
            /\ Go(t, IF entry'.refcount > 0 THEN "idle" ELSE "flush")
       ELSE UNCHANGED entry /\ Go(t, "idle")
    /\ UNCHANGED <<ops, lock, op, text, seq, loaded, store, acked, bounds>>

\* flush_open_project_docs calls flush for a document that is in memory.
StartFlush(t) ==
    /\ pc[t] = "idle" /\ entry.live
    /\ Go(t, "flush")
    /\ UNCHANGED <<ops, entry, lock, op, text, seq, loaded, store, acked, bounds>>

TimerFires(t) ==
    /\ pc[t] = "sleep"
    /\ Go(t, "flush")
    /\ UNCHANGED <<ops, entry, lock, op, text, seq, loaded, store, acked, bounds>>

\* Nothing in memory, or the debounced flush finds the text clean.
SkipFlush(t) ==
    /\ pc[t] = "flush" /\ CanEnter(t)
    /\ ~entry.live \/ (t \in Timers /\ ~entry.dirty)
    /\ Unqueue(t) /\ Go(t, AfterFlush(t))
    /\ UNCHANGED <<ops, entry, op, text, seq, loaded, store, acked, bounds>>

\* Under the lock: copy the text, clear dirty_text, cancel a pending timer that
\* is not the running task.  The write itself is outside the lock.
TakeText(t) ==
    /\ pc[t] = "flush" /\ CanEnter(t)
    /\ entry.live /\ (t \in Timers => entry.dirty)
    /\ text' = [text EXCEPT ![t] = Text(entry.ydoc)]
    /\ seq' = [seq EXCEPT ![t] = entry.seq]
    /\ entry' = [entry EXCEPT !.dirty = FALSE, !.timer = NoTimer]
    /\ LET cancelled == {entry.timer} \cap (Timers \ {t})
       IN  /\ pc' = [u \in Tasks |-> IF u = t THEN "write"
                                     ELSE IF u \in cancelled THEN "idle" ELSE pc[u]]
           /\ queued' = queued \ (cancelled \cup {t})
           /\ dropped' = dropped \ (cancelled \cup {t})
    /\ UNCHANGED <<ops, op, loaded, store, acked, bounds>>

\* ContentBridge.flush_text commits.
WriteContent(t) ==
    /\ pc[t] = "write"
    /\ content' = text[t]
    /\ text' = [text EXCEPT ![t] = {}]
    /\ Go(t, "mark")
    /\ UNCHANGED <<ops, entry, lock, op, seq, loaded, snap, log, nextRow, acked, bounds>>

\* mark_text_synced, a no-op when the document has no state row yet.
MarkTextSynced(t) ==
    /\ pc[t] = "mark"
    /\ snap' = IF snap.seq = 0 THEN snap ELSE [snap EXCEPT !.synced = seq[t]]
    /\ seq' = [seq EXCEPT ![t] = 0]
    /\ Go(t, AfterFlush(t))
    /\ UNCHANGED <<ops, entry, lock, op, text, loaded, log, nextRow, content, acked, bounds>>

\* The second critical section of release and of flush.
Settle(t) ==
    /\ pc[t] = "settle" /\ CanEnter(t)
    /\ Unqueue(t)
    /\ \/ /\ ~entry.live \/ (t \in Holders /\ entry.refcount > 0)
          /\ Go(t, "idle") /\ UNCHANGED entry
       \/ /\ entry.live /\ (t \in Holders => entry.refcount = 0)
          /\ IF entry.since > 0
             THEN Go(t, "settleCompact") /\ UNCHANGED entry
             ELSE /\ entry' = [entry EXCEPT !.evicting = @ \/ t \in Holders]
                  /\ Go(t, "idle")
    /\ UNCHANGED <<ops, op, text, seq, loaded, store, acked, bounds>>

SettleCompact(t) ==
    /\ pc[t] = "settleCompact"
    /\ Snapshot(entry.ydoc, entry.last)
    /\ entry' = [Compacted EXCEPT !.evicting = @ \/ t \in Holders]
    /\ Go(t, "idle")
    /\ UNCHANGED <<ops, lock, op, text, seq, loaded, nextRow, content, acked, bounds>>

\* _evict_after_idle wakes: the entry goes, and the document's lock with it.
Evict ==
    /\ entry.live /\ entry.evicting /\ LockFree
    /\ entry.refcount = 0
    /\ entry' = NoEntry
    /\ queued' = {} /\ dropped' = dropped \cup queued
    /\ UNCHANGED <<ops, tasks, store, acked, bounds>>

-----------------------------------------------------------------------------
(* Faults: a database call raises, the process dies *)

Fault == faults < MaxFaults /\ faults' = faults + 1

\* acquire raises: no reference is taken.
LoadFails(t) ==
    /\ pc[t] \in {"load", "seed", "seedSnapshot"} /\ Fault
    /\ loaded' = [loaded EXCEPT ![t] = NoEntry]
    /\ text' = [text EXCEPT ![t] = {}]
    /\ Go(t, "idle")
    /\ UNCHANGED <<ops, entry, lock, op, seq, store, acked, edits, crashes>>

\* append_update raises, the row possibly committed.  The operation stays in the
\* live document, the update is not relayed, the holder goes on to release.
AppendFails(t) ==
    /\ pc[t] = "append" /\ Fault
    /\ InsertRow(t) \/ UNCHANGED <<log, nextRow>>
    /\ op' = [op EXCEPT ![t] = 0]
    /\ Go(t, "release")
    /\ UNCHANGED <<ops, entry, lock, text, seq, loaded, snap, content, acked, edits, crashes>>

\* The compaction inside an update raises: the row is stored, no flush is armed.
CompactFails(t) ==
    /\ pc[t] = "compact" /\ Fault
    /\ op' = [op EXCEPT ![t] = 0]
    /\ Go(t, "release")
    /\ UNCHANGED <<ops, entry, lock, text, seq, loaded, store, acked, edits, crashes>>

\* The flush or the compaction of release or flush raises: the rest of the
\* coroutine does not run, and dirty_text stays cleared.
FlushFails(t) ==
    /\ pc[t] \in {"write", "mark", "settleCompact"} /\ Fault
    /\ text' = [text EXCEPT ![t] = {}]
    /\ seq' = [seq EXCEPT ![t] = 0]
    /\ Go(t, "idle")
    /\ UNCHANGED <<ops, entry, lock, op, loaded, store, acked, edits, crashes>>

InitTasks ==
    /\ pc = [t \in Tasks |-> "idle"]
    /\ op = [t \in Tasks |-> 0]
    /\ text = [t \in Tasks |-> {}]
    /\ seq = [t \in Tasks |-> 0]
    /\ loaded = [t \in Tasks |-> NoEntry]

\* The process dies and starts again: only the database is left.
Crash ==
    /\ crashes < MaxCrashes
    /\ crashes' = crashes + 1
    /\ entry' = NoEntry /\ queued' = {} /\ dropped' = {}
    /\ pc' = [t \in Tasks |-> "idle"]
    /\ op' = [t \in Tasks |-> 0]
    /\ text' = [t \in Tasks |-> {}]
    /\ seq' = [t \in Tasks |-> 0]
    /\ loaded' = [t \in Tasks |-> NoEntry]
    /\ UNCHANGED <<ops, store, acked, edits, faults>>

-----------------------------------------------------------------------------
Init ==
    /\ ops = <<>> /\ entry = NoEntry /\ queued = {} /\ dropped = {}
    /\ InitTasks
    /\ snap = [seq |-> 0, state |-> {}, synced |-> 0]
    /\ log = {} /\ nextRow = 1
    /\ content \in {{}, {0}}      \* a new document, or one with imported text
    /\ acked = {} /\ edits = 0 /\ crashes = 0 /\ faults = 0

\* Steps the event loop and the database take on their own.
Progress(t) ==
    \/ WaitForLock(t) \/ RetryAcquire(t) \/ AcquireLoaded(t) \/ AcquireMissing(t)
    \/ Load(t) \/ Seed(t) \/ SeedSnapshot(t)
    \/ AppendUpdate(t) \/ Compact(t)
    \/ (pc[t] = "release" /\ Release(t))
    \/ TimerFires(t) \/ SkipFlush(t) \/ TakeText(t) \/ WriteContent(t) \/ MarkTextSynced(t)
    \/ Settle(t) \/ SettleCompact(t)

\* Steps that need a client or a request.
Request ==
    \/ \E t \in Holders : StartAcquire(t)
    \/ \E t \in Conns : HandleUpdate(t) \/ HandleResend(t) \/ (pc[t] = "held" /\ Release(t))
    \/ \E t \in Servers : ApplyServerUpdate(t) \/ ApplyNoEdits(t)
    \/ \E t \in Flushers : StartFlush(t)

Failure ==
    \/ \E t \in Tasks : LoadFails(t) \/ AppendFails(t) \/ CompactFails(t) \/ FlushFails(t)
    \/ Crash

Next == (\E t \in Tasks : Progress(t)) \/ Evict \/ Request \/ Failure

Spec == Init /\ [][Next]_vars

\* The event loop runs every ready task and asyncio.Lock serves its waiters in
\* order, so a task that finds the lock free again and again gets it; the idle
\* timer fires.  Nothing is assumed of clients and requests.
Fairness ==
    /\ \A t \in Tasks : SF_vars(Progress(t)) /\ SF_vars(AcquireLoaded(t) \/ AcquireMissing(t))
    /\ SF_vars(Evict)
FairSpec == Spec /\ Fairness

-----------------------------------------------------------------------------
(* Properties *)

OpIds == 1..Len(ops)
Entries == [live : BOOLEAN, ydoc : SUBSET Nat, refcount : Nat, seq : Nat, since : Nat,
            last : Nat, dirty : BOOLEAN, timer : Timers \cup {NoTimer}, evicting : BOOLEAN]
Places == {"idle", "acquire", "load", "seed", "seedSnapshot", "held", "append", "compact",
           "release", "flush", "write", "mark", "settle", "settleCompact", "sleep"}

\* Every variable has its type.
TypeOK ==
    /\ ops \in Seq([ins : SUBSET Nat, del : SUBSET Nat])
    /\ entry \in Entries
    /\ queued \subseteq Tasks /\ dropped \subseteq Tasks
    /\ pc \in [Tasks -> Places] /\ op \in [Tasks -> Nat]
    /\ text \in [Tasks -> SUBSET Nat] /\ seq \in [Tasks -> Nat]
    /\ loaded \in [Tasks -> Entries]
    /\ snap \in [seq : Nat, state : SUBSET Nat, synced : Nat]
    /\ log \subseteq [id : Nat, op : Nat]
    /\ nextRow \in Nat \ {0} /\ content \subseteq Nat /\ acked \subseteq Nat
    /\ edits \in Nat /\ crashes \in Nat /\ faults \in Nat

\* Everything the database can recover is in the live document: so no snapshot
\* of the live document, taken at any moment, can drop a stored operation.
MemoryCoversStore == entry.live => Recoverable \subseteq entry.ydoc

\* An update that handle_update returned for relay survives a crash at any later
\* moment: it is in the snapshot or in the log.
AckedDurable == acked \subseteq Recoverable

\* The store behaves as UpdateStore promises: no compaction, seed, failure or
\* crash ever takes a stored operation out of the database, and an update is
\* returned for relay only once it is stored.
Promise == INSTANCE UpdateStore WITH stored <- Recoverable
ImplementsUpdateStore == Promise!Spec

Holding == {t \in Holders : pc[t] \in {"held", "append", "compact", "release"}}

\* The reference count is the number of coroutines between acquire and release,
\* and the document is in memory while there is one: eviction never takes it
\* from under a connection, whatever lock the coroutines queued on.
RefcountExact ==
    /\ entry.refcount = Cardinality(Holding)
    /\ Holding # {} => entry.live

\* Concurrent acquires load the document once: one load at a time, and none
\* while it is in memory, across the swaps of the lock.
LoadsOnce ==
    LET loading == {t \in Tasks : pc[t] \in {"load", "seed", "seedSnapshot"}}
    IN  /\ Cardinality(loading) <= 1
        /\ loading # {} => ~entry.live

\* The log does not outgrow the compaction threshold: a process adds at most
\* SnapshotEvery rows to what the ones before it left, a fault one more.
LogBounded == Cardinality(log) <= SnapshotEvery * (1 + crashes) + faults

\* A document nobody holds is evicted, or somebody takes it again.
IdleEvicted == entry.live /\ entry.refcount = 0 ~> ~entry.live \/ entry.refcount > 0

\* Every acquire ends: it gets the document, or raises because of a fault.
AcquireEnds == \A t \in Holders : pc[t] = "acquire" ~> pc[t] \in {"held", "idle"}

=============================================================================
