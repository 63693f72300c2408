------------------------ MODULE DocumentManagerProofs ------------------------
(***************************************************************************)
(* Theorems about DocumentManager, for every value of its constants.       *)
(***************************************************************************)
EXTENDS DocumentManager, FiniteSetTheorems, SequenceTheorems, WellFoundedInduction, TLAPS

-----------------------------------------------------------------------------
(* The entry and its updates *)

\* What a load installs is in memory and holds what the database can recover.
LEMMA LoadedFields ==
    /\ LoadedEntry.live /\ LoadedEntry.ydoc = Recoverable
    /\ [LoadedEntry EXCEPT !.refcount = 1].live
    /\ [LoadedEntry EXCEPT !.refcount = 1].ydoc = Recoverable
    /\ [LoadedEntry EXCEPT !.refcount = 1].refcount = 1
  BY DEF LoadedEntry, NoEntry

\* Recording an appended row leaves the document and its references alone.
LEMMA AppendedFields ==
    ASSUME entry \in Entries, nextRow \in Nat
    PROVE  /\ Appended \in Entries /\ Appended.live = entry.live
           /\ Appended.ydoc = entry.ydoc /\ Appended.refcount = entry.refcount
<1>1. entry.since + 1 \in Nat
  BY DEF Entries
<1>2. Appended = [entry EXCEPT !.last = nextRow, !.since = entry.since + 1, !.dirty = TRUE]
  BY DEF Entries, Appended
<1> QED
  BY <1>1, <1>2 DEF Entries

\* So does a compaction.
LEMMA CompactedFields ==
    ASSUME entry \in Entries, snap.seq \in Nat
    PROVE  /\ Compacted \in Entries /\ Compacted.live = entry.live
           /\ Compacted.ydoc = entry.ydoc /\ Compacted.refcount = entry.refcount
<1>1. snap.seq + 1 \in Nat
  OBVIOUS
<1> QED
  BY <1>1 DEF Entries, Compacted

\* The end of an update touches only its own task and, perhaps, one idle timer.
LEMMA FinishFields ==
    ASSUME pc \in [Tasks -> Places], NEW t \in Tasks, pc[t] # "idle",
           NEW e \in Entries, FinishUpdate(t, e)
    PROVE  /\ entry'.live = e.live /\ entry'.ydoc = e.ydoc /\ entry'.refcount = e.refcount
           /\ pc'[t] = AfterUpdate(t)
           /\ \A u \in Tasks : pc'[u] = pc[u] \/ u = t \/ (u \in Timers /\ pc'[u] = "sleep")
           /\ pc' \in [Tasks -> Places] /\ entry' \in Entries
<1> DEFINE P == /\ entry'.live = e.live /\ entry'.ydoc = e.ydoc /\ entry'.refcount = e.refcount
                /\ pc'[t] = AfterUpdate(t)
                /\ \A u \in Tasks : pc'[u] = pc[u] \/ u = t \/ (u \in Timers /\ pc'[u] = "sleep")
                /\ pc' \in [Tasks -> Places] /\ entry' \in Entries
<1>1. CASE entry' = e /\ Go(t, AfterUpdate(t))
  BY <1>1 DEF Go, AfterUpdate, Places
<1>2. ASSUME NEW f \in Timers, pc[f] = "idle", entry' = [e EXCEPT !.timer = f],
             pc' = [pc EXCEPT ![t] = AfterUpdate(t), ![f] = "sleep"]
      PROVE  P
  BY <1>2 DEF Entries, Tasks, AfterUpdate, Places
<1> QED
  BY <1>1, <1>2 DEF FinishUpdate

-----------------------------------------------------------------------------
(* Types *)

\* Every operation anybody refers to has been made, and the ids of the log are
\* below the next one.
KnownOps ==
    /\ entry.ydoc \subseteq OpIds /\ snap.state \subseteq OpIds
    /\ \A r \in log : r.op \in OpIds /\ r.id < nextRow
    /\ \A t \in Tasks : loaded[t].ydoc \subseteq OpIds
    /\ \A t \in Tasks : pc[t] = "append" => op[t] \in OpIds
TypeInv == TypeOK /\ KnownOps

\* A set of numbers below a bound has a greatest one, unless it is empty.
LEMMA BoundedHasMax ==
    ASSUME NEW S \in SUBSET Nat, NEW n \in Nat, \A i \in S : i <= n, S # {}
    PROVE  \E i \in S : \A j \in S : j <= i
<1> DEFINE Above(i) == {j \in S : j > i}
           U == {Above(i) : i \in S}
<1>1. IsFiniteSet(S)
  BY FS_BoundedSetOfNaturals
<1>2. U \subseteq FiniteSubsetsOf(S) /\ U # {}
  <2>1. \A i \in S : Above(i) \in SUBSET S
    OBVIOUS
  <2>2. \A i \in S : IsFiniteSet(Above(i))
    BY <1>1, <2>1, FS_Subset
  <2> QED
    BY <2>1, <2>2 DEF FiniteSubsetsOf
<1>3. PICK x \in U : \A y \in U : <<y, x>> \notin StrictSubsetOrdering(S)
  BY <1>2, FS_StrictSubsetOrderingWellFounded, WFMin
<1>4. PICK i \in S : x = Above(i)
  BY <1>3
<1>5. ASSUME NEW j \in S, j > i PROVE FALSE
  <2>1. Above(j) \subseteq x /\ Above(j) # x
    <3>1. j \in Above(i) /\ j \notin Above(j)
      BY <1>5
    <3>2. \A k \in Above(j) : k \in Above(i)
      BY <1>5
    <3> QED
      BY <1>4, <3>1, <3>2
  <2>2. <<Above(j), x>> \in StrictSubsetOrdering(S)
    BY <1>4, <2>1 DEF StrictSubsetOrdering
  <2> QED
    BY <1>3, <2>2
<1> QED
  BY <1>5

\* The high-water id is a number: 0, or the greatest id of the log.
LEMMA MaxIdType == ASSUME TypeInv PROVE MaxId \in Nat
<1> DEFINE S == {r.id : r \in log}
<1>1. S \in SUBSET Nat /\ nextRow \in Nat /\ \A i \in S : i <= nextRow
  BY DEF TypeInv, TypeOK, KnownOps
<1>2. CASE log = {}
  BY <1>2 DEF MaxId
<1>3. CASE log # {}
  <2>1. \E i \in S : \A j \in S : j <= i
    <3>1. S # {}
      BY <1>3
    <3> QED
      BY <1>1, <3>1, BoundedHasMax
  <2>2. \E i \in S : \A r \in log : r.id <= i
    BY <2>1
  <2> QED
    BY <1>1, <1>3, <2>2 DEF MaxId
<1> QED
  BY <1>2, <1>3

\* The text of a document is made of tags.
LEMMA TextType ==
    ASSUME TypeOK, NEW ydoc, ydoc \subseteq OpIds
    PROVE  Text(ydoc) \subseteq Nat /\ LiveOps(ydoc) \subseteq Nat
<1>1. \A o \in OpIds : ops[o] \in [ins : SUBSET Nat, del : SUBSET Nat]
  <2> DEFINE R == [ins : SUBSET Nat, del : SUBSET Nat]
  <2>1. ops \in Seq(R)
    BY DEF TypeOK
  <2>2. \A o \in 1..Len(ops) : ops[o] \in R
    <3> HIDE DEF R
    <3> QED
      BY <2>1, ElementOfSeq
  <2> QED
    BY <2>2 DEF OpIds
<1>2. LiveOps(ydoc) \subseteq OpIds
  BY DEF LiveOps
<1>3. LiveOps(ydoc) \subseteq Nat
  BY <1>2 DEF OpIds, TypeOK
<1> QED
  BY <1>1, <1>2, <1>3 DEF Text

\* A new operation keeps the old ones.
LEMMA AppendOps ==
    ASSUME TypeOK, NEW e \in [ins : SUBSET Nat, del : SUBSET Nat], ops' = Append(ops, e)
    PROVE  /\ ops' \in Seq([ins : SUBSET Nat, del : SUBSET Nat])
           /\ Len(ops) + 1 \in OpIds' /\ OpIds \subseteq OpIds' /\ OpIds' \subseteq Nat
  BY DEF TypeOK, OpIds

\* The three groups of variables that most steps change.
EntryTypes == entry \in Entries /\ entry.ydoc \subseteq OpIds
TaskTypes ==
    /\ pc \in [Tasks -> Places] /\ op \in [Tasks -> Nat]
    /\ text \in [Tasks -> SUBSET Nat] /\ seq \in [Tasks -> Nat]
    /\ loaded \in [Tasks -> Entries]
    /\ \A t \in Tasks : loaded[t].ydoc \subseteq OpIds
    /\ \A t \in Tasks : pc[t] = "append" => op[t] \in OpIds
StoreTypes ==
    /\ snap \in [seq : Nat, state : SUBSET Nat, synced : Nat]
    /\ log \subseteq [id : Nat, op : Nat]
    /\ nextRow \in Nat \ {0} /\ content \subseteq Nat /\ acked \subseteq Nat
    /\ snap.state \subseteq OpIds
    /\ \A r \in log : r.op \in OpIds /\ r.id < nextRow
OtherTypes ==
    /\ ops \in Seq([ins : SUBSET Nat, del : SUBSET Nat])
    /\ queued \subseteq Tasks /\ dropped \subseteq Tasks
    /\ edits \in Nat /\ crashes \in Nat /\ faults \in Nat

\* The type invariant is the conjunction of its four groups.
LEMMA TypeParts == TypeInv <=> EntryTypes /\ TaskTypes /\ StoreTypes /\ OtherTypes
  BY DEF TypeInv, TypeOK, KnownOps, EntryTypes, TaskTypes, StoreTypes, OtherTypes

\* What a load installs is an entry.
LEMMA LoadedType ==
    ASSUME TypeInv
    PROVE  LoadedEntry \in Entries /\ LoadedEntry.ydoc \subseteq OpIds
<1>1. Recoverable \subseteq OpIds /\ OpIds \subseteq Nat
  BY DEF TypeInv, KnownOps, Recoverable, OpIds, TypeOK
<1>2. MaxId \in Nat /\ snap.seq \in Nat
  BY MaxIdType DEF TypeInv, TypeOK
<1> QED
  BY <1>1, <1>2 DEF LoadedEntry, NoEntry, Entries

\* The absent entry is an entry, and holds nothing.
LEMMA NoEntryType == NoEntry \in Entries /\ NoEntry.ydoc = {}
  BY DEF NoEntry, Entries

\* The steps that several actions share keep the groups typed.
LEMMA InstallTypes ==
    ASSUME TaskTypes, NEW t \in Tasks, NEW e \in Entries, e.ydoc \subseteq OpIds',
           OpIds \subseteq OpIds', Install(t, e), UNCHANGED <<op, seq>>,
           text' \in [Tasks -> SUBSET Nat]
    PROVE  EntryTypes' /\ TaskTypes'
<1>1. EntryTypes'
  BY DEF EntryTypes, Install, Entries
<1>2. TaskTypes'
  BY NoEntryType DEF TaskTypes, Install, Go, Places
<1> QED
  BY <1>1, <1>2

\* The end of an update.
LEMMA FinishTypes ==
    ASSUME TaskTypes, StoreTypes, NEW t \in Tasks, pc[t] # "idle",
           NEW e \in Entries, e.ydoc \subseteq OpIds,
           FinishUpdate(t, e), UNCHANGED <<ops, text, seq, loaded>>
    PROVE  EntryTypes' /\ TaskTypes' /\ acked' \subseteq Nat
<1>1. /\ entry' \in Entries /\ entry'.ydoc = e.ydoc
      /\ pc' \in [Tasks -> Places] /\ pc'[t] # "append"
      /\ \A u \in Tasks : pc'[u] = "append" => pc[u] = "append" /\ u # t
  BY FinishFields DEF TaskTypes, AfterUpdate
<1>2. op' = [op EXCEPT ![t] = 0] /\ acked' = acked \cup {op[t]}
  BY DEF FinishUpdate
<1> QED
  BY <1>1, <1>2 DEF EntryTypes, TaskTypes, StoreTypes, OpIds

\* A snapshot of known operations.
LEMMA SnapshotTypes ==
    ASSUME StoreTypes, NEW state, state \subseteq OpIds', NEW upto, Snapshot(state, upto),
           OpIds \subseteq OpIds', OpIds' \subseteq Nat,
           UNCHANGED <<nextRow, content>>, acked' \subseteq Nat
    PROVE  StoreTypes'
<1>1. snap.seq + 1 \in Nat /\ state \subseteq Nat
  BY DEF StoreTypes
<1>2. snap' \in [seq : Nat, state : SUBSET Nat, synced : Nat] /\ snap'.state = state
  BY <1>1 DEF StoreTypes, Snapshot
<1> QED
  BY <1>2 DEF StoreTypes, Snapshot

\* The insertion of a row.
LEMMA InsertTypes ==
    ASSUME StoreTypes, NEW t \in Tasks, op[t] \in OpIds, InsertRow(t),
           UNCHANGED <<ops, snap, content>>, acked' \subseteq Nat
    PROVE  StoreTypes'
<1> DEFINE row == [id |-> nextRow, op |-> op[t]]
<1>1. row \in [id : Nat, op : Nat] /\ row.op \in OpIds /\ row.id < nextRow + 1
  BY DEF StoreTypes, OpIds
<1>2. log' = log \cup {row} /\ nextRow' = nextRow + 1
  BY DEF InsertRow
<1> HIDE DEF row
<1> QED
  BY <1>1, <1>2 DEF StoreTypes, OpIds

\* A new edit, of a client or of the server.
LEMMA EditTypes ==
    ASSUME TypeInv, NEW t \in Tasks, NEW choices,
           choices \subseteq [ins : SUBSET Nat, del : SUBSET Nat], NewEdit(t, choices)
    PROVE  EntryTypes' /\ TaskTypes' /\ StoreTypes' /\ OtherTypes'
<1>0. EntryTypes /\ TaskTypes /\ StoreTypes /\ OtherTypes /\ TypeOK
  BY TypeParts DEF TypeInv
<1> DEFINE o == Len(ops) + 1
<1>1. /\ ops' \in Seq([ins : SUBSET Nat, del : SUBSET Nat])
      /\ o \in OpIds' /\ OpIds \subseteq OpIds' /\ OpIds' \subseteq Nat
  <2>1. PICK e \in choices : ops' = Append(ops, e)
    BY DEF NewEdit
  <2> QED
    BY <1>0, <2>1, AppendOps
<1>2. /\ entry' = [entry EXCEPT !.ydoc = @ \cup {o}] /\ op' = [op EXCEPT ![t] = o]
      /\ pc' = [pc EXCEPT ![t] = "append"] /\ edits' = edits + 1
      /\ UNCHANGED <<queued, dropped, text, seq, loaded, snap, log, nextRow, content, acked, crashes, faults>>
  BY DEF NewEdit, Apply, Go, lock, store
<1> HIDE DEF o
<1>3. EntryTypes'
  BY <1>0, <1>1, <1>2 DEF EntryTypes, Entries
<1>4. TaskTypes'
  BY <1>0, <1>1, <1>2 DEF TaskTypes, Places
<1>5. StoreTypes' /\ OtherTypes'
  BY <1>0, <1>1, <1>2 DEF StoreTypes, OtherTypes
<1> QED
  BY <1>3, <1>4, <1>5

\* Every step keeps the types, and refers only to operations that were made.
LEMMA TypeStep == ASSUME TypeInv, [Next]_vars PROVE TypeInv'
<1>0. EntryTypes /\ TaskTypes /\ StoreTypes /\ OtherTypes
  BY TypeParts
<1>a. EntryTypes' /\ TaskTypes' /\ StoreTypes' /\ OtherTypes' => TypeInv'
  BY TypeParts DEF TypeInv, TypeOK, KnownOps, EntryTypes, TaskTypes, StoreTypes, OtherTypes
<1> USE <1>0 DEF Go, Unqueue, lock, tasks, store, bounds
<1>1. ASSUME NEW t \in Tasks, WaitForLock(t) PROVE TypeInv'
  BY <1>1, <1>a, NoEntryType
  DEF WaitForLock, EntryTypes, TaskTypes, StoreTypes, OtherTypes, OpIds, Entries, Places
<1>2. ASSUME NEW t \in Holders, StartAcquire(t) PROVE TypeInv'
  BY <1>2, <1>a, NoEntryType
  DEF StartAcquire, EntryTypes, TaskTypes, StoreTypes, OtherTypes, OpIds, Entries, Places
<1>3. ASSUME NEW t \in Tasks, RetryAcquire(t) PROVE TypeInv'
  BY <1>3, <1>a, NoEntryType
  DEF RetryAcquire, EntryTypes, TaskTypes, StoreTypes, OtherTypes, OpIds, Entries, Places
<1>4. ASSUME NEW t \in Tasks, AcquireLoaded(t) PROVE TypeInv'
  <2>1. EntryTypes'
    <3>1. entry.refcount + 1 \in Nat
      BY DEF EntryTypes, Entries
    <3> QED
      BY <1>4, <3>1 DEF AcquireLoaded, EntryTypes, Entries, OpIds
  <2>2. TaskTypes'
    BY <1>4 DEF AcquireLoaded, TaskTypes, Places, OpIds
  <2>3. StoreTypes'
    BY <1>4 DEF AcquireLoaded, StoreTypes, OpIds
  <2>4. OtherTypes'
    BY <1>4 DEF AcquireLoaded, OtherTypes
  <2> QED
    BY <1>a, <2>1, <2>2, <2>3, <2>4
<1>5. ASSUME NEW t \in Tasks, AcquireMissing(t) PROVE TypeInv'
  BY <1>5, <1>a, NoEntryType
  DEF AcquireMissing, EntryTypes, TaskTypes, StoreTypes, OtherTypes, OpIds, Entries, Places
<1>6. ASSUME NEW t \in Tasks, Load(t) PROVE TypeInv'
  <2>1. LoadedEntry \in Entries /\ LoadedEntry.ydoc \subseteq OpIds /\ OpIds' = OpIds
    BY <1>6, LoadedType DEF Load, OpIds
  <2>2. StoreTypes' /\ OtherTypes' /\ UNCHANGED <<op, text, seq>>
    BY <1>6 DEF Load, StoreTypes, OtherTypes, OpIds
  <2>3. CASE Install(t, LoadedEntry)
    <3>1. EntryTypes' /\ TaskTypes'
      BY <2>1, <2>2, <2>3, InstallTypes DEF TaskTypes
    <3> QED
      BY <1>a, <2>2, <3>1
  <2>4. CASE loaded' = [loaded EXCEPT ![t] = LoadedEntry] /\ Go(t, "seed") /\ UNCHANGED entry
    <3>1. EntryTypes' /\ TaskTypes'
      BY <2>1, <2>2, <2>4 DEF EntryTypes, TaskTypes, Places
    <3> QED
      BY <1>a, <2>2, <3>1
  <2> QED
    BY <1>6, <2>3, <2>4 DEF Load
<1>7. ASSUME NEW t \in Tasks, Seed(t) PROVE TypeInv'
  <2>1. loaded[t] \in Entries /\ loaded[t].ydoc \subseteq OpIds /\ OpIds' = OpIds
    BY <1>7 DEF Seed, OpIds, TaskTypes
  <2>2. StoreTypes' /\ OtherTypes' /\ UNCHANGED <<op, seq>>
    BY <1>7 DEF Seed, StoreTypes, OtherTypes, OpIds
  <2>3. text' \in [Tasks -> SUBSET Nat]
    BY <1>7 DEF Seed, TaskTypes, StoreTypes
  <2>4. CASE Install(t, loaded[t])
    <3>1. EntryTypes' /\ TaskTypes'
      BY <2>1, <2>2, <2>3, <2>4, InstallTypes
    <3> QED
      BY <1>a, <2>2, <3>1
  <2>5. CASE Go(t, "seedSnapshot") /\ UNCHANGED <<entry, loaded>>
    <3>1. EntryTypes' /\ TaskTypes'
      BY <2>1, <2>2, <2>3, <2>5 DEF EntryTypes, TaskTypes, Places
    <3> QED
      BY <1>a, <2>2, <3>1
  <2> QED
    BY <1>7, <2>4, <2>5 DEF Seed
<1>8. ASSUME NEW t \in Tasks, SeedSnapshot(t) PROVE TypeInv'
  <2> DEFINE o == Len(ops) + 1
             ydoc == loaded[t].ydoc \cup {o}
             e == [loaded[t] EXCEPT !.ydoc = ydoc, !.seq = snap.seq + 1]
  <2>1. /\ ops' = Append(ops, [ins |-> text[t], del |-> {}])
        /\ Snapshot(ydoc, 0) /\ Install(t, e) /\ text' = [text EXCEPT ![t] = {}]
        /\ UNCHANGED <<queued, dropped, op, seq, nextRow, content, acked, edits, crashes, faults>>
    BY <1>8 DEF SeedSnapshot
  <2>2. /\ ops' \in Seq([ins : SUBSET Nat, del : SUBSET Nat])
        /\ o \in OpIds' /\ OpIds \subseteq OpIds' /\ OpIds' \subseteq Nat
    <3>1. [ins |-> text[t], del |-> {}] \in [ins : SUBSET Nat, del : SUBSET Nat]
      BY DEF TaskTypes
    <3> QED
      BY <2>1, <3>1, AppendOps DEF TypeInv
  <2>3. ydoc \subseteq OpIds' /\ ydoc \subseteq Nat /\ snap.seq + 1 \in Nat
    <3>1. loaded[t].ydoc \subseteq OpIds
      BY DEF TaskTypes
    <3>2. snap.seq + 1 \in Nat
      BY DEF StoreTypes
    <3> HIDE DEF o
    <3> QED
      BY <2>2, <3>1, <3>2
  <2>4. e \in Entries /\ e.ydoc = ydoc
    <3> HIDE DEF ydoc
    <3> QED
      BY <2>3 DEF TaskTypes, Entries
  <2> HIDE DEF o, ydoc, e
  <2>5. EntryTypes' /\ TaskTypes'
    BY <2>1, <2>2, <2>3, <2>4, InstallTypes DEF TaskTypes
  <2>6. StoreTypes'
    <3>1. acked' \subseteq Nat
      BY <2>1 DEF StoreTypes
    <3> QED
      BY <2>1, <2>2, <2>3, <3>1, SnapshotTypes
  <2>7. OtherTypes'
    BY <2>1, <2>2 DEF OtherTypes
  <2> QED
    BY <1>a, <2>5, <2>6, <2>7
<1>9. ASSUME NEW t \in Conns, HandleUpdate(t) PROVE TypeInv'
  <2>1. LiveOps(entry.ydoc) \subseteq Nat /\ Len(ops) + 1 \in Nat
    BY TextType DEF TypeInv, TypeOK, KnownOps
  <2>2. ClientEdits \subseteq [ins : SUBSET Nat, del : SUBSET Nat]
    BY <2>1 DEF ClientEdits
  <2>3. NewEdit(t, ClientEdits) /\ t \in Tasks
    BY <1>9 DEF HandleUpdate, Tasks, Users
  <2> QED
    BY <1>a, <2>2, <2>3, EditTypes
<1>10. ASSUME NEW t \in Conns, HandleResend(t) PROVE TypeInv'
  <2>1. PICK o \in OpIds : Apply(t, o) /\ UNCHANGED <<ops, edits>>
    BY <1>10 DEF HandleResend, OpIds
  <2>2. /\ entry' = [entry EXCEPT !.ydoc = @ \cup {o}] /\ op' = [op EXCEPT ![t] = o]
        /\ pc' = [pc EXCEPT ![t] = "append"] /\ OpIds' = OpIds /\ OpIds \subseteq Nat
        /\ UNCHANGED <<ops, edits, queued, dropped, text, seq, loaded, snap, log, nextRow, content, acked, crashes, faults>>
    BY <2>1 DEF Apply, OpIds
  <2>3. EntryTypes'
    BY <2>1, <2>2 DEF EntryTypes, Entries
  <2>4. TaskTypes'
    BY <2>1, <2>2 DEF TaskTypes, Places
  <2>5. StoreTypes' /\ OtherTypes'
    BY <2>2 DEF StoreTypes, OtherTypes
  <2> QED
    BY <1>a, <2>3, <2>4, <2>5
<1>11. ASSUME NEW t \in Servers, ApplyServerUpdate(t) PROVE TypeInv'
  <2>1. LiveOps(entry.ydoc) \subseteq Nat /\ Len(ops) + 1 \in Nat
    BY TextType DEF TypeInv, TypeOK, KnownOps
  <2>2. ServerEdits \subseteq [ins : SUBSET Nat, del : SUBSET Nat]
    BY <2>1 DEF ServerEdits
  <2>3. NewEdit(t, ServerEdits) /\ t \in Tasks
    BY <1>11 DEF ApplyServerUpdate, Tasks, Users
  <2> QED
    BY <1>a, <2>2, <2>3, EditTypes
<1>12. ASSUME NEW t \in Servers, ApplyNoEdits(t) PROVE TypeInv'
  BY <1>12, <1>a, NoEntryType
  DEF ApplyNoEdits, EntryTypes, TaskTypes, StoreTypes, OtherTypes, OpIds, Entries, Places
<1>13. ASSUME NEW t \in Tasks, AppendUpdate(t) PROVE TypeInv'
  <2>1. /\ InsertRow(t) /\ pc[t] = "append" /\ op[t] \in OpIds
        /\ UNCHANGED <<ops, queued, dropped, text, seq, loaded, snap, content, edits, crashes, faults>>
    BY <1>13 DEF AppendUpdate, TaskTypes
  <2>2. Appended \in Entries /\ Appended.ydoc \subseteq OpIds
    BY AppendedFields DEF EntryTypes, StoreTypes
  <2>3. EntryTypes' /\ TaskTypes' /\ acked' \subseteq Nat
    <3>1. CASE entry' = Appended /\ Go(t, "compact") /\ UNCHANGED <<op, acked>>
      BY <2>1, <2>2, <3>1 DEF EntryTypes, TaskTypes, StoreTypes, Places, OpIds
    <3>2. CASE FinishUpdate(t, Appended)
      BY <2>1, <2>2, <3>2, FinishTypes
    <3> QED
      BY <1>13, <3>1, <3>2 DEF AppendUpdate
  <2>4. StoreTypes' /\ OtherTypes'
    BY <2>1, <2>3, InsertTypes DEF OtherTypes
  <2> QED
    BY <1>a, <2>3, <2>4
<1>14. ASSUME NEW t \in Tasks, Compact(t) PROVE TypeInv'
  <2>1. /\ Snapshot(entry.ydoc, entry.last) /\ FinishUpdate(t, Compacted) /\ pc[t] = "compact"
        /\ UNCHANGED <<ops, queued, dropped, text, seq, loaded, nextRow, content, edits, crashes, faults>>
    BY <1>14 DEF Compact
  <2>2. /\ Compacted \in Entries /\ Compacted.ydoc \subseteq OpIds
        /\ entry.ydoc \subseteq OpIds /\ OpIds' = OpIds /\ OpIds \subseteq Nat
    BY <2>1, CompactedFields DEF EntryTypes, StoreTypes, OpIds
  <2>3. EntryTypes' /\ TaskTypes' /\ acked' \subseteq Nat
    BY <2>1, <2>2, FinishTypes
  <2>4. StoreTypes' /\ OtherTypes'
    BY <2>1, <2>2, <2>3, SnapshotTypes DEF OtherTypes
  <2> QED
    BY <1>a, <2>3, <2>4
<1>15. ASSUME NEW t \in Tasks, Release(t) PROVE TypeInv'
  <2>1. EntryTypes'
    BY <1>15 DEF Release, EntryTypes, Entries, OpIds
  <2>2. TaskTypes'
    BY <1>15 DEF Release, TaskTypes, Places, OpIds
  <2>3. StoreTypes'
    BY <1>15 DEF Release, StoreTypes, OpIds
  <2>4. OtherTypes'
    BY <1>15 DEF Release, OtherTypes
  <2> QED
    BY <1>a, <2>1, <2>2, <2>3, <2>4
<1>16. ASSUME NEW t \in Flushers, StartFlush(t) PROVE TypeInv'
  BY <1>16, <1>a, NoEntryType
  DEF StartFlush, EntryTypes, TaskTypes, StoreTypes, OtherTypes, OpIds, Entries, Places
<1>17. ASSUME NEW t \in Tasks, TimerFires(t) PROVE TypeInv'
  BY <1>17, <1>a, NoEntryType
  DEF TimerFires, EntryTypes, TaskTypes, StoreTypes, OtherTypes, OpIds, Entries, Places
<1>18. ASSUME NEW t \in Tasks, SkipFlush(t) PROVE TypeInv'
  BY <1>18, <1>a, NoEntryType
  DEF SkipFlush, AfterFlush, CanEnter, EntryTypes, TaskTypes, StoreTypes, OtherTypes, OpIds, Entries, Places
<1>19. ASSUME NEW t \in Tasks, TakeText(t) PROVE TypeInv'
  <2>1. text' \in [Tasks -> SUBSET Nat] /\ seq' \in [Tasks -> Nat]
    <3>1. Text(entry.ydoc) \subseteq Nat
      BY TextType DEF TypeInv, EntryTypes
    <3> QED
      BY <1>19, <3>1 DEF TakeText, TaskTypes, EntryTypes, Entries
  <2>2. /\ pc' \in [Tasks -> Places] /\ UNCHANGED <<ops, op, loaded>>
        /\ \A u \in Tasks : pc'[u] = "append" => pc[u] = "append"
    BY <1>19 DEF TakeText, TaskTypes, Places
  <2>3. TaskTypes'
    BY <2>1, <2>2 DEF TaskTypes, OpIds
  <2>4. EntryTypes' /\ StoreTypes' /\ OtherTypes'
    BY <1>19 DEF TakeText, EntryTypes, StoreTypes, OtherTypes, Entries, OpIds
  <2> QED
    BY <1>a, <2>3, <2>4
<1>20. ASSUME NEW t \in Tasks, WriteContent(t) PROVE TypeInv'
  BY <1>20, <1>a, NoEntryType
  DEF WriteContent, EntryTypes, TaskTypes, StoreTypes, OtherTypes, OpIds, Entries, Places
<1>21. ASSUME NEW t \in Tasks, MarkTextSynced(t) PROVE TypeInv'
  BY <1>21, <1>a, NoEntryType
  DEF MarkTextSynced, AfterFlush, EntryTypes, TaskTypes, StoreTypes, OtherTypes, OpIds, Entries, Places
<1>22. ASSUME NEW t \in Tasks, Settle(t) PROVE TypeInv'
  <2>1. EntryTypes'
    <3>1. CASE UNCHANGED entry
      BY <1>22, <3>1 DEF Settle, EntryTypes, OpIds
    <3>2. CASE entry' = [entry EXCEPT !.evicting = @ \/ t \in Holders]
      <4>1. entry' = [entry EXCEPT !.evicting = entry.evicting \/ t \in Holders]
        BY <3>2 DEF EntryTypes, Entries
      <4>2. (entry.evicting \/ t \in Holders) \in BOOLEAN
        OBVIOUS
      <4> QED
        BY <1>22, <4>1, <4>2 DEF Settle, EntryTypes, Entries, OpIds
    <3> QED
      BY <1>22, <3>1, <3>2 DEF Settle
  <2>2. TaskTypes'
    BY <1>22 DEF Settle, TaskTypes, Places, OpIds
  <2>3. StoreTypes' /\ OtherTypes'
    BY <1>22 DEF Settle, StoreTypes, OtherTypes, OpIds
  <2> QED
    BY <1>a, <2>1, <2>2, <2>3
<1>23. ASSUME NEW t \in Tasks, SettleCompact(t) PROVE TypeInv'
  <2> DEFINE e == [Compacted EXCEPT !.evicting = @ \/ t \in Holders]
  <2>1. /\ Snapshot(entry.ydoc, entry.last) /\ entry' = e /\ Go(t, "idle")
        /\ UNCHANGED <<ops, queued, dropped, op, text, seq, loaded, nextRow, content, acked, edits, crashes, faults>>
    BY <1>23 DEF SettleCompact
  <2>2. /\ Compacted \in Entries /\ Compacted.ydoc = entry.ydoc
        /\ entry.ydoc \subseteq OpIds /\ OpIds' = OpIds /\ OpIds \subseteq Nat
    BY <2>1, CompactedFields DEF EntryTypes, StoreTypes, OpIds
  <2>3. EntryTypes'
    <3>1. (Compacted.evicting \/ t \in Holders) \in BOOLEAN
      OBVIOUS
    <3>2. e = [Compacted EXCEPT !.evicting = Compacted.evicting \/ t \in Holders]
      BY <2>2 DEF Entries
    <3>3. e \in Entries /\ e.ydoc = entry.ydoc
      BY <2>2, <3>1, <3>2 DEF Entries
    <3> QED
      BY <2>1, <2>2, <3>3 DEF EntryTypes
  <2>4. TaskTypes'
    BY <2>1, <2>2 DEF TaskTypes, Places
  <2>5. StoreTypes' /\ OtherTypes'
    <3>1. acked' \subseteq Nat
      BY <2>1 DEF StoreTypes
    <3> QED
      BY <2>1, <2>2, <3>1, SnapshotTypes DEF OtherTypes
  <2> QED
    BY <1>a, <2>3, <2>4, <2>5
<1>24. ASSUME NEW t \in Tasks, LoadFails(t) PROVE TypeInv'
  <2>1. EntryTypes'
    BY <1>24 DEF LoadFails, Fault, EntryTypes, Entries, OpIds
  <2>2. TaskTypes'
    BY <1>24, NoEntryType DEF LoadFails, Fault, TaskTypes, Places, OpIds
  <2>3. StoreTypes'
    BY <1>24 DEF LoadFails, Fault, StoreTypes, OpIds
  <2>4. OtherTypes'
    BY <1>24 DEF LoadFails, Fault, OtherTypes
  <2> QED
    BY <1>a, <2>1, <2>2, <2>3, <2>4
<1>25. ASSUME NEW t \in Tasks, AppendFails(t) PROVE TypeInv'
  <2>1. EntryTypes'
    BY <1>25 DEF AppendFails, InsertRow, Fault, EntryTypes, Entries, OpIds
  <2>2. TaskTypes'
    BY <1>25 DEF AppendFails, InsertRow, Fault, TaskTypes, Places, OpIds
  <2>3. StoreTypes'
    <3>1. CASE InsertRow(t)
      BY <1>25, <3>1, InsertTypes DEF AppendFails, TaskTypes, StoreTypes
    <3>2. CASE UNCHANGED <<log, nextRow>>
      BY <1>25, <3>2 DEF AppendFails, StoreTypes, OpIds
    <3> QED
      BY <1>25, <3>1, <3>2 DEF AppendFails
  <2>4. OtherTypes'
    BY <1>25 DEF AppendFails, InsertRow, Fault, OtherTypes
  <2> QED
    BY <1>a, <2>1, <2>2, <2>3, <2>4
<1>26. ASSUME NEW t \in Tasks, CompactFails(t) PROVE TypeInv'
  <2>1. EntryTypes'
    BY <1>26 DEF CompactFails, Fault, EntryTypes, Entries, OpIds
  <2>2. TaskTypes'
    BY <1>26 DEF CompactFails, Fault, TaskTypes, Places, OpIds
  <2>3. StoreTypes'
    BY <1>26 DEF CompactFails, Fault, StoreTypes, OpIds
  <2>4. OtherTypes'
    BY <1>26 DEF CompactFails, Fault, OtherTypes
  <2> QED
    BY <1>a, <2>1, <2>2, <2>3, <2>4
<1>27. ASSUME NEW t \in Tasks, FlushFails(t) PROVE TypeInv'
  <2>1. EntryTypes'
    BY <1>27 DEF FlushFails, Fault, EntryTypes, Entries, OpIds
  <2>2. TaskTypes'
    BY <1>27 DEF FlushFails, Fault, TaskTypes, Places, OpIds
  <2>3. StoreTypes'
    BY <1>27 DEF FlushFails, Fault, StoreTypes, OpIds
  <2>4. OtherTypes'
    BY <1>27 DEF FlushFails, Fault, OtherTypes
  <2> QED
    BY <1>a, <2>1, <2>2, <2>3, <2>4
<1>28. ASSUME Evict PROVE TypeInv'
  <2>1. EntryTypes'
    BY <1>28, NoEntryType DEF Evict, EntryTypes, Entries, OpIds
  <2>2. TaskTypes'
    BY <1>28 DEF Evict, TaskTypes, Places, OpIds
  <2>3. StoreTypes'
    BY <1>28 DEF Evict, StoreTypes, OpIds
  <2>4. OtherTypes'
    BY <1>28 DEF Evict, OtherTypes
  <2> QED
    BY <1>a, <2>1, <2>2, <2>3, <2>4
<1>29. ASSUME Crash PROVE TypeInv'
  <2>1. EntryTypes'
    BY <1>29, NoEntryType DEF Crash, EntryTypes, Entries, OpIds
  <2>2. TaskTypes'
    BY <1>29, NoEntryType DEF Crash, TaskTypes, Places, OpIds
  <2>3. StoreTypes'
    BY <1>29 DEF Crash, StoreTypes, OpIds
  <2>4. OtherTypes'
    BY <1>29 DEF Crash, OtherTypes
  <2> QED
    BY <1>a, <2>1, <2>2, <2>3, <2>4
<1>30. CASE UNCHANGED vars
  BY <1>30, <1>a DEF vars, EntryTypes, TaskTypes, StoreTypes, OtherTypes, OpIds
<1> QED
  BY <1>1, <1>2, <1>3, <1>4, <1>5, <1>6, <1>7, <1>8, <1>9, <1>10, <1>11, <1>12,
     <1>13, <1>14, <1>15, <1>16, <1>17, <1>18, <1>19, <1>20, <1>21, <1>22, <1>23,
     <1>24, <1>25, <1>26, <1>27, <1>28, <1>29, <1>30
  DEF Next, Progress, Request, Failure, Holders, Users, Tasks
-----------------------------------------------------------------------------
(* The document's lock *)

Loading == {"load", "seed", "seedSnapshot"}

\* At most one task is inside the lock across an await, whichever lock it is: a
\* task of a dropped lock finds no document, and never waits inside.
Mutex == \A t, u \in Tasks : pc[t] \in Locked /\ pc[u] \in Locked => t = u
LockInv ==
    /\ Mutex
    /\ \A t \in Tasks : pc[t] \in {"append", "compact", "settleCompact"} => entry.live
    /\ \A t \in Tasks : pc[t] \in Loading => ~entry.live
    /\ \A t \in Tasks : pc[t] \in {"seed", "seedSnapshot"} => dropped = {} /\ loaded[t].live
    /\ dropped # {} => ~entry.live

\* Every step keeps the lock's discipline.
LEMMA LockStep == ASSUME TypeOK, LockInv, [Next]_vars PROVE LockInv'
<1> DEFINE T == /\ pc \in [Tasks -> Places]
                /\ entry \in Entries /\ loaded \in [Tasks -> Entries]
<1>0. T
  BY DEF TypeOK
<1> HIDE DEF T
<1> USE <1>0
    DEF LockInv, Mutex, Loading, Locked, LockFree, Go, Unqueue, lock, tasks, store, bounds
<1>1. ASSUME NEW t \in Tasks, WaitForLock(t) PROVE LockInv'
  BY <1>1 DEF WaitForLock, T, Entries
<1>2. ASSUME NEW t \in Tasks, StartAcquire(t) PROVE LockInv'
  BY <1>2 DEF StartAcquire, T, Entries
<1>3. ASSUME NEW t \in Tasks, RetryAcquire(t) PROVE LockInv'
  BY <1>3 DEF RetryAcquire, T, Entries
<1>4. ASSUME NEW t \in Tasks, AcquireLoaded(t) PROVE LockInv'
  BY <1>4 DEF AcquireLoaded, T, Entries
<1>5. ASSUME NEW t \in Tasks, AcquireMissing(t) PROVE LockInv'
  BY <1>5 DEF AcquireMissing, T, Entries
<1>6. ASSUME NEW t \in Tasks, Load(t) PROVE LockInv'
  BY <1>6, LoadedFields DEF Load, Install, T, Entries
<1>7. ASSUME NEW t \in Tasks, Seed(t) PROVE LockInv'
  BY <1>7 DEF Seed, Install, NoEntry, T, Entries
<1>8. ASSUME NEW t \in Tasks, SeedSnapshot(t) PROVE LockInv'
  BY <1>8 DEF SeedSnapshot, Install, NoEntry, Snapshot, T, Entries
<1>9. ASSUME NEW t \in Tasks, HandleUpdate(t) PROVE LockInv'
  BY <1>9 DEF HandleUpdate, NewEdit, Apply, T, Entries
<1>10. ASSUME NEW t \in Tasks, HandleResend(t) PROVE LockInv'
  BY <1>10 DEF HandleResend, Apply, T, Entries
<1>11. ASSUME NEW t \in Tasks, ApplyServerUpdate(t) PROVE LockInv'
  BY <1>11 DEF ApplyServerUpdate, NewEdit, Apply, T, Entries
<1>12. ASSUME NEW t \in Tasks, ApplyNoEdits(t) PROVE LockInv'
  BY <1>12 DEF ApplyNoEdits, T, Entries
<1>13. ASSUME NEW t \in Tasks, AppendUpdate(t) PROVE LockInv'
  <2>1. UNCHANGED <<loaded, dropped>> /\ pc[t] = "append"
    BY <1>13 DEF AppendUpdate
  <2>2. Appended \in Entries /\ Appended.live = entry.live
    BY AppendedFields DEF TypeOK
  <2>3. CASE entry' = Appended /\ Go(t, "compact")
    BY <2>1, <2>2, <2>3 DEF T, Entries
  <2>4. CASE FinishUpdate(t, Appended)
    BY <2>1, <2>2, <2>4, FinishFields DEF T, AfterUpdate
  <2> QED
    BY <1>13, <2>3, <2>4 DEF AppendUpdate
<1>14. ASSUME NEW t \in Tasks, Compact(t) PROVE LockInv'
  <2>1. UNCHANGED <<loaded, dropped>> /\ pc[t] = "compact" /\ FinishUpdate(t, Compacted)
    BY <1>14 DEF Compact
  <2>2. Compacted \in Entries /\ Compacted.live = entry.live
    BY CompactedFields DEF TypeOK
  <2> QED
    BY <2>1, <2>2, FinishFields DEF T, AfterUpdate
<1>15. ASSUME NEW t \in Tasks, Release(t) PROVE LockInv'
  BY <1>15 DEF Release, T, Entries
<1>16. ASSUME NEW t \in Tasks, StartFlush(t) PROVE LockInv'
  BY <1>16 DEF StartFlush, T, Entries
<1>17. ASSUME NEW t \in Tasks, TimerFires(t) PROVE LockInv'
  BY <1>17 DEF TimerFires, T, Entries
<1>18. ASSUME NEW t \in Tasks, SkipFlush(t) PROVE LockInv'
  BY <1>18 DEF SkipFlush, AfterFlush, CanEnter, T, Entries
<1>19. ASSUME NEW t \in Tasks, TakeText(t) PROVE LockInv'
  BY <1>19 DEF TakeText, CanEnter, T, Entries
<1>20. ASSUME NEW t \in Tasks, WriteContent(t) PROVE LockInv'
  BY <1>20 DEF WriteContent, T, Entries
<1>21. ASSUME NEW t \in Tasks, MarkTextSynced(t) PROVE LockInv'
  BY <1>21 DEF MarkTextSynced, AfterFlush, T, Entries
<1>22. ASSUME NEW t \in Tasks, Settle(t) PROVE LockInv'
  BY <1>22 DEF Settle, CanEnter, T, Entries
<1>23. ASSUME NEW t \in Tasks, SettleCompact(t) PROVE LockInv'
  BY <1>23 DEF SettleCompact, Compacted, Snapshot, T, Entries
<1>24. ASSUME NEW t \in Tasks, LoadFails(t) PROVE LockInv'
  BY <1>24 DEF LoadFails, NoEntry, Fault, T, Entries
<1>25. ASSUME NEW t \in Tasks, AppendFails(t) PROVE LockInv'
  BY <1>25 DEF AppendFails, InsertRow, Fault, T, Entries
<1>26. ASSUME NEW t \in Tasks, CompactFails(t) PROVE LockInv'
  BY <1>26 DEF CompactFails, Fault, T, Entries
<1>27. ASSUME NEW t \in Tasks, FlushFails(t) PROVE LockInv'
  BY <1>27 DEF FlushFails, Fault, T, Entries
<1>28. ASSUME Evict PROVE LockInv'
  BY <1>28 DEF Evict, NoEntry, T, Entries
<1>29. ASSUME Crash PROVE LockInv'
  BY <1>29 DEF Crash, NoEntry, T, Entries
<1>30. CASE UNCHANGED vars
  BY <1>30 DEF vars
<1> QED
  BY <1>1, <1>2, <1>3, <1>4, <1>5, <1>6, <1>7, <1>8, <1>9, <1>10, <1>11, <1>12,
     <1>13, <1>14, <1>15, <1>16, <1>17, <1>18, <1>19, <1>20, <1>21, <1>22, <1>23,
     <1>24, <1>25, <1>26, <1>27, <1>28, <1>29, <1>30
  DEF Next, Progress, Request, Failure, Holders, Users, Tasks
-----------------------------------------------------------------------------
(* The database and the live document *)

\* What an update task is persisting is in the live document, and what a load is
\* building covers the database: nobody else writes there meanwhile.
CoverInv ==
    /\ MemoryCoversStore
    /\ AckedDurable
    /\ \A t \in Tasks : pc[t] \in {"append", "compact"} => op[t] \in entry.ydoc
    /\ \A t \in Tasks : pc[t] \in {"seed", "seedSnapshot"} => Recoverable \subseteq loaded[t].ydoc

\* One step of what UpdateStore promises.
StoreStep ==
    /\ Recoverable \subseteq Recoverable'
    /\ acked' = acked \/ \E u \in Recoverable' : acked' = acked \cup {u}

\* A compaction keeps what the log and the snapshot held, if its state does.
LEMMA SnapshotKeeps ==
    ASSUME TypeOK, NEW state, NEW upto, Snapshot(state, upto), Recoverable \subseteq state
    PROVE  state \subseteq Recoverable' /\ Recoverable' \subseteq state
  BY DEF Snapshot, Recoverable, TypeOK

\* An appended row adds its operation to what can be recovered.
LEMMA InsertAdds ==
    ASSUME NEW t, InsertRow(t), snap' = snap
    PROVE  Recoverable' = Recoverable \cup {op[t]}
<1> DEFINE row == [id |-> nextRow, op |-> op[t]]
<1>1. log' = log \cup {row} /\ row.op = op[t]
  BY DEF InsertRow
<1>2. {r.op : r \in log'} = {r.op : r \in log} \cup {row.op}
  <2> HIDE DEF row
  <2> QED
    BY <1>1
<1> QED
  BY <1>1, <1>2 DEF Recoverable

\* Every step keeps the live document a superset of the database, and is one of
\* the steps UpdateStore promises.
LEMMA CoverStep ==
    ASSUME TypeOK, LockInv, CoverInv, [Next]_vars
    PROVE  CoverInv' /\ StoreStep
<1> DEFINE T == /\ pc \in [Tasks -> Places] /\ op \in [Tasks -> Nat]
                /\ entry \in Entries /\ loaded \in [Tasks -> Entries]
           Goal == CoverInv' /\ StoreStep
           Kept == /\ Recoverable' = Recoverable /\ acked' = acked
                   /\ CoverInv'
<1>0. T
  BY DEF TypeOK
<1>a. Kept => Goal
  BY DEF StoreStep
<1> HIDE DEF T
<1> USE <1>0
    DEF Go, Unqueue, lock, tasks, store, bounds, CoverInv, MemoryCoversStore, AckedDurable, StoreStep
<1>1. ASSUME NEW t \in Tasks, WaitForLock(t) PROVE Goal
  BY <1>1 DEF WaitForLock, Recoverable, T
<1>2. ASSUME NEW t \in Tasks, StartAcquire(t) PROVE Goal
  BY <1>2 DEF StartAcquire, Recoverable, T
<1>3. ASSUME NEW t \in Tasks, RetryAcquire(t) PROVE Goal
  BY <1>3 DEF RetryAcquire, Recoverable, T
<1>4. ASSUME NEW t \in Tasks, AcquireLoaded(t) PROVE Goal
  BY <1>4 DEF AcquireLoaded, Recoverable, T
<1>5. ASSUME NEW t \in Tasks, AcquireMissing(t) PROVE Goal
  BY <1>5 DEF AcquireMissing, Recoverable, T
<1>6. ASSUME NEW t \in Tasks, Load(t) PROVE Goal
  <2>1. UNCHANGED <<snap, log, acked, op>> /\ Recoverable' = Recoverable
    BY <1>6 DEF Load, Recoverable
  <2>2. CASE Install(t, LoadedEntry)
    <3>1. entry'.ydoc = Recoverable /\ \A u \in Tasks : pc'[u] \in {"append", "compact", "seed", "seedSnapshot"} => u # t /\ pc'[u] = pc[u]
      BY <2>2, LoadedFields DEF Install, T
    <3>2. \A u \in Tasks \ {t} : pc[u] \notin Locked
      BY <1>6 DEF Load, LockInv, Mutex, Locked
    <3> QED
      BY <2>1, <3>1, <3>2 DEF Locked
  <2>3. CASE loaded' = [loaded EXCEPT ![t] = LoadedEntry] /\ Go(t, "seed") /\ UNCHANGED entry
    <3>1. loaded'[t].ydoc = Recoverable
      BY <2>3, LoadedFields DEF T
    <3> QED
      BY <2>1, <2>3, <3>1 DEF T
  <2> QED
    BY <1>6, <2>2, <2>3 DEF Load
<1>7. ASSUME NEW t \in Tasks, Seed(t) PROVE Goal
  <2>1. UNCHANGED <<snap, log, acked, op>> /\ Recoverable' = Recoverable /\ pc[t] = "seed"
    BY <1>7 DEF Seed, Recoverable
  <2>2. CASE Install(t, loaded[t])
    <3>1. /\ entry'.ydoc = loaded[t].ydoc
          /\ \A u \in Tasks : pc'[u] \in {"append", "compact", "seed", "seedSnapshot"} => u # t /\ pc'[u] = pc[u]
      BY <2>2 DEF Install, T
    <3>2. \A u \in Tasks \ {t} : pc[u] \notin Locked
      BY <2>1 DEF LockInv, Mutex, Locked
    <3> QED
      BY <2>1, <3>1, <3>2 DEF Locked
  <2>3. CASE Go(t, "seedSnapshot") /\ UNCHANGED <<entry, loaded>>
    BY <2>1, <2>3 DEF T
  <2> QED
    BY <1>7, <2>2, <2>3 DEF Seed
<1>8. ASSUME NEW t \in Tasks, SeedSnapshot(t) PROVE Goal
  <2> DEFINE ydoc == loaded[t].ydoc \cup {Len(ops) + 1}
             e == [loaded[t] EXCEPT !.ydoc = ydoc, !.seq = snap.seq + 1]
  <2>1. /\ Snapshot(ydoc, 0) /\ Install(t, e) /\ UNCHANGED <<acked, op>>
        /\ pc[t] = "seedSnapshot"
    BY <1>8 DEF SeedSnapshot
  <2>2. Recoverable \subseteq Recoverable' /\ Recoverable' \subseteq ydoc
    <3>1. Recoverable \subseteq ydoc
      BY <2>1
    <3> QED
      BY <2>1, <3>1, SnapshotKeeps
  <2>3. e.ydoc = ydoc
    BY DEF T
  <2>4. /\ entry'.ydoc = ydoc
        /\ \A u \in Tasks : pc'[u] \in {"append", "compact", "seed", "seedSnapshot"} => u # t /\ pc'[u] = pc[u]
    <3> HIDE DEF e
    <3>1. entry'.ydoc = e.ydoc
      BY <2>1 DEF Install
    <3> QED
      BY <2>1, <2>3, <3>1 DEF Install, T
  <2>5. \A u \in Tasks \ {t} : pc[u] \notin Locked
    BY <2>1 DEF LockInv, Mutex, Locked
  <2> HIDE DEF ydoc, e
  <2> QED
    BY <2>1, <2>2, <2>4, <2>5 DEF Locked
<1>9. ASSUME NEW t \in Tasks, HandleUpdate(t) PROVE Goal
  BY <1>9 DEF HandleUpdate, NewEdit, Apply, Recoverable, T, Entries
<1>10. ASSUME NEW t \in Tasks, HandleResend(t) PROVE Goal
  BY <1>10 DEF HandleResend, Apply, Recoverable, T
<1>11. ASSUME NEW t \in Tasks, ApplyServerUpdate(t) PROVE Goal
  BY <1>11 DEF ApplyServerUpdate, NewEdit, Apply, Recoverable, T, Entries
<1>12. ASSUME NEW t \in Tasks, ApplyNoEdits(t) PROVE Goal
  BY <1>12 DEF ApplyNoEdits, Recoverable, T
<1>13. ASSUME NEW t \in Tasks, AppendUpdate(t) PROVE Goal
  <2>1. /\ InsertRow(t) /\ pc[t] = "append" /\ UNCHANGED <<snap, loaded>>
        /\ Appended \in Entries /\ Appended.ydoc = entry.ydoc /\ Appended.live = entry.live
    BY <1>13, AppendedFields DEF AppendUpdate, TypeOK
  <2>2. Recoverable' = Recoverable \cup {op[t]} /\ op[t] \in entry.ydoc
    BY <2>1, InsertAdds
  <2>3. \A u \in Tasks \ {t} : pc[u] \notin Locked
    BY <2>1 DEF LockInv, Mutex, Locked
  <2>4. CASE entry' = Appended /\ Go(t, "compact") /\ UNCHANGED <<op, acked>>
    BY <2>1, <2>2, <2>3, <2>4 DEF T, Locked
  <2>5. CASE FinishUpdate(t, Appended)
    <3>1. acked' = acked \cup {op[t]}
      BY <2>5 DEF FinishUpdate
    <3> QED
      BY <2>1, <2>2, <2>3, <2>5, <3>1, FinishFields
      DEF T, Locked, AfterUpdate
  <2> QED
    BY <1>13, <2>4, <2>5 DEF AppendUpdate
<1>14. ASSUME NEW t \in Tasks, Compact(t) PROVE Goal
  <2>1. /\ Snapshot(entry.ydoc, entry.last) /\ FinishUpdate(t, Compacted)
        /\ pc[t] = "compact" /\ UNCHANGED loaded
        /\ Compacted \in Entries /\ Compacted.ydoc = entry.ydoc /\ Compacted.live = entry.live
    BY <1>14, CompactedFields DEF Compact, TypeOK
  <2>2. entry.live /\ op[t] \in entry.ydoc /\ Recoverable \subseteq entry.ydoc
    BY <2>1 DEF LockInv
  <2>3. Recoverable' = entry.ydoc
    BY <2>1, <2>2, SnapshotKeeps
  <2>4. \A u \in Tasks \ {t} : pc[u] \notin Locked
    BY <2>1 DEF LockInv, Mutex, Locked
  <2>5. acked' = acked \cup {op[t]}
    BY <2>1 DEF FinishUpdate
  <2> QED
    BY <2>1, <2>2, <2>3, <2>4, <2>5, FinishFields
    DEF T, Locked, AfterUpdate
<1>15. ASSUME NEW t \in Tasks, Release(t) PROVE Goal
  BY <1>15 DEF Release, Recoverable, T, Entries
<1>16. ASSUME NEW t \in Tasks, StartFlush(t) PROVE Goal
  BY <1>16 DEF StartFlush, Recoverable, T
<1>17. ASSUME NEW t \in Tasks, TimerFires(t) PROVE Goal
  BY <1>17 DEF TimerFires, Recoverable, T
<1>18. ASSUME NEW t \in Tasks, SkipFlush(t) PROVE Goal
  BY <1>18 DEF SkipFlush, AfterFlush, CanEnter, Recoverable, T
<1>19. ASSUME NEW t \in Tasks, TakeText(t) PROVE Goal
  BY <1>19 DEF TakeText, CanEnter, Recoverable, T, Entries
<1>20. ASSUME NEW t \in Tasks, WriteContent(t) PROVE Goal
  BY <1>20 DEF WriteContent, Recoverable, T
<1>21. ASSUME NEW t \in Tasks, MarkTextSynced(t) PROVE Goal
  BY <1>21 DEF MarkTextSynced, AfterFlush, Recoverable, T
<1>22. ASSUME NEW t \in Tasks, Settle(t) PROVE Goal
  BY <1>22 DEF Settle, CanEnter, Recoverable, T, Entries
<1>23. ASSUME NEW t \in Tasks, SettleCompact(t) PROVE Goal
  <2> DEFINE e == [Compacted EXCEPT !.evicting = @ \/ t \in Holders]
  <2>1. /\ Snapshot(entry.ydoc, entry.last) /\ entry' = e
        /\ pc[t] = "settleCompact" /\ UNCHANGED <<loaded, acked, op>> /\ Go(t, "idle")
    BY <1>23 DEF SettleCompact
  <2>2. entry'.ydoc = entry.ydoc
    BY <2>1, CompactedFields DEF TypeOK
  <2>3. entry.live /\ Recoverable \subseteq entry.ydoc
    BY <2>1 DEF LockInv
  <2>4. Recoverable' = entry.ydoc
    BY <2>1, <2>3, SnapshotKeeps
  <2>5. \A u \in Tasks \ {t} : pc[u] \notin Locked
    BY <2>1 DEF LockInv, Mutex, Locked
  <2> HIDE DEF e
  <2> QED
    BY <2>1, <2>2, <2>3, <2>4, <2>5
    DEF T, Locked
<1>24. ASSUME NEW t \in Tasks, LoadFails(t) PROVE Goal
  BY <1>24 DEF LoadFails, NoEntry, Fault, Recoverable, T
<1>25. ASSUME NEW t \in Tasks, AppendFails(t) PROVE Goal
  <2>1. /\ InsertRow(t) \/ UNCHANGED <<log, nextRow>>
        /\ pc[t] = "append" /\ UNCHANGED <<snap, loaded, entry, acked>>
        /\ op' = [op EXCEPT ![t] = 0] /\ Go(t, "release")
    BY <1>25 DEF AppendFails
  <2>2. op[t] \in entry.ydoc /\ Recoverable' \in {Recoverable, Recoverable \cup {op[t]}}
    <3>1. CASE InsertRow(t)
      BY <2>1, <3>1, InsertAdds
    <3>2. CASE UNCHANGED <<log, nextRow>>
      BY <2>1, <3>2 DEF Recoverable
    <3> QED
      BY <2>1, <3>1, <3>2
  <2>3. \A u \in Tasks \ {t} : pc[u] \notin Locked
    BY <2>1 DEF LockInv, Mutex, Locked
  <2> QED
    BY <2>1, <2>2, <2>3
    DEF T, Locked
<1>26. ASSUME NEW t \in Tasks, CompactFails(t) PROVE Goal
  BY <1>26 DEF CompactFails, Fault, Recoverable, T
<1>27. ASSUME NEW t \in Tasks, FlushFails(t) PROVE Goal
  BY <1>27 DEF FlushFails, Fault, Recoverable, T
<1>28. ASSUME Evict PROVE Goal
  <2>1. UNCHANGED <<snap, log, acked, op, loaded, pc>> /\ Recoverable' = Recoverable /\ ~entry'.live
    BY <1>28 DEF Evict, Recoverable, NoEntry
  <2>2. \A u \in Tasks : pc[u] \notin Locked
    BY <1>28 DEF Evict, LockFree
  <2> QED
    BY <2>1, <2>2 DEF Locked
<1>29. ASSUME Crash PROVE Goal
  BY <1>29 DEF Crash, NoEntry, Recoverable, T
<1>30. CASE UNCHANGED vars
  BY <1>30 DEF vars, Recoverable, T
<1> QED
  BY <1>1, <1>2, <1>3, <1>4, <1>5, <1>6, <1>7, <1>8, <1>9, <1>10, <1>11, <1>12,
     <1>13, <1>14, <1>15, <1>16, <1>17, <1>18, <1>19, <1>20, <1>21, <1>22, <1>23,
     <1>24, <1>25, <1>26, <1>27, <1>28, <1>29, <1>30
  DEF Next, Progress, Request, Failure, Holders, Users, Tasks
-----------------------------------------------------------------------------
(* The reference count *)

\* Only connections and server-side edits take references.
RefInv ==
    /\ RefcountExact
    /\ \A t \in Tasks : pc[t] \in {"acquire", "load", "seed", "seedSnapshot", "held",
                                   "append", "compact", "release"} => t \in Holders

\* The tasks that hold a reference can be counted, and there are none when the
\* count is zero.
LEMMA HoldingFinite ==
    /\ IsFiniteSet(Holding)
    /\ Cardinality(Holding) \in Nat
    /\ Cardinality(Holding) = 0 <=> Holding = {}
<1>1. Holding \in SUBSET Tasks
  BY DEF Holding, Holders, Users, Tasks
<1> QED
  BY <1>1, UsersFinite, FS_Subset, FS_CardinalityType, FS_EmptySet

\* Every step keeps the count equal to the number of holders.
LEMMA RefStep ==
    ASSUME TypeOK, LockInv, RefInv, [Next]_vars
    PROVE  RefInv'
<1> DEFINE T == /\ pc \in [Tasks -> Places]
                /\ entry \in Entries /\ loaded \in [Tasks -> Entries]
           Stays == /\ entry'.refcount = entry.refcount /\ entry'.live = entry.live
                    /\ Holding' = Holding
                    /\ \A u \in Tasks : \/ pc'[u] = pc[u]
                                        \/ u \in Holders
                                        \/ pc'[u] \in {"idle", "flush", "write", "mark", "settle",
                                                       "settleCompact", "sleep"}
<1>0. T
  BY DEF TypeOK
<1>a. Stays => RefInv'
  BY DEF RefInv, RefcountExact
<1>b. Timers \cap Holders = {} /\ Holders \subseteq Tasks
  BY TasksDistinct DEF Holders, Users, Tasks
\* A load ends with the first reference.
<1>c. ASSUME NEW t \in Tasks, pc[t] \in Loading, entry'.live, entry'.refcount = 1,
             pc' = [pc EXCEPT ![t] = "held"]
      PROVE  RefInv'
  <2>1. t \in Holders /\ Holding = {}
    BY <1>c DEF RefInv, RefcountExact, LockInv, Loading
  <2>2. Holding' = {t}
    BY <1>0, <1>c, <2>1 DEF Holding, T
  <2> QED
    BY <1>0, <1>c, <2>1, <2>2, FS_Singleton DEF RefInv, RefcountExact, T
<1> HIDE DEF T
<1> USE <1>0, <1>b DEF Go, Unqueue, lock, tasks, store, bounds
<1>1. ASSUME NEW t \in Tasks, WaitForLock(t) PROVE RefInv'
  BY <1>1, <1>a DEF WaitForLock, RefInv, T, Holding
<1>2. ASSUME NEW t \in Holders, StartAcquire(t) PROVE RefInv'
  BY <1>2, <1>a DEF StartAcquire, RefInv, T, Holding
<1>3. ASSUME NEW t \in Tasks, RetryAcquire(t) PROVE RefInv'
  BY <1>3, <1>a DEF RetryAcquire, RefInv, T, Holding
<1>4. ASSUME NEW t \in Tasks, AcquireLoaded(t) PROVE RefInv'
  <2>1. /\ entry.live /\ pc[t] = "acquire" /\ pc' = [pc EXCEPT ![t] = "held"]
        /\ entry' = [entry EXCEPT !.refcount = @ + 1, !.evicting = FALSE]
    BY <1>4 DEF AcquireLoaded
  <2>2. entry'.refcount = entry.refcount + 1 /\ entry'.live
    BY <2>1 DEF T
  <2>3. t \in Holders /\ t \notin Holding /\ Holding' = Holding \cup {t}
    BY <2>1 DEF RefInv, Holding, T
  <2>4. Cardinality(Holding') = Cardinality(Holding) + 1
    BY <2>3, HoldingFinite, FS_AddElement
  <2>5. RefcountExact'
    BY <2>2, <2>4 DEF RefInv, RefcountExact
  <2> QED
    BY <2>1, <2>3, <2>5 DEF RefInv, T
<1>5. ASSUME NEW t \in Tasks, AcquireMissing(t) PROVE RefInv'
  BY <1>5, <1>a DEF AcquireMissing, RefInv, T, Holding
<1>6. ASSUME NEW t \in Tasks, Load(t) PROVE RefInv'
  <2>1. pc[t] = "load"
    BY <1>6 DEF Load
  <2>2. CASE Install(t, LoadedEntry)
    BY <1>c, <2>1, <2>2, LoadedFields DEF Install, Loading
  <2>3. CASE Go(t, "seed") /\ UNCHANGED entry
    BY <1>a, <2>1, <2>3 DEF RefInv, Holding, T
  <2> QED
    BY <1>6, <2>2, <2>3 DEF Load
<1>7. ASSUME NEW t \in Tasks, Seed(t) PROVE RefInv'
  <2>1. pc[t] = "seed" /\ loaded[t].live
    BY <1>7 DEF Seed, LockInv
  <2>2. CASE Install(t, loaded[t])
    <3>1. entry'.live /\ entry'.refcount = 1
      BY <2>1, <2>2 DEF Install, T
    <3> QED
      BY <1>c, <2>1, <2>2, <3>1 DEF Install, Loading
  <2>3. CASE Go(t, "seedSnapshot") /\ UNCHANGED entry
    BY <1>a, <2>1, <2>3 DEF RefInv, Holding, T
  <2> QED
    BY <1>7, <2>2, <2>3 DEF Seed
<1>8. ASSUME NEW t \in Tasks, SeedSnapshot(t) PROVE RefInv'
  <2> DEFINE e == [loaded[t] EXCEPT !.ydoc = loaded[t].ydoc \cup {Len(ops) + 1}, !.seq = snap.seq + 1]
  <2>1. pc[t] = "seedSnapshot" /\ loaded[t].live /\ Install(t, e)
    BY <1>8 DEF SeedSnapshot, LockInv
  <2>2. entry'.live /\ entry'.refcount = 1
    BY <2>1 DEF Install, T
  <2> QED
    BY <1>c, <2>1, <2>2 DEF Install, Loading
<1>9. ASSUME NEW t \in Conns, HandleUpdate(t) PROVE RefInv'
  BY <1>9, <1>a DEF HandleUpdate, NewEdit, Apply, RefInv, T, Entries, Holding
<1>10. ASSUME NEW t \in Conns, HandleResend(t) PROVE RefInv'
  <2>1. /\ pc[t] = "held" /\ Go(t, "append")
        /\ \E o \in 1..Len(ops) : entry' = [entry EXCEPT !.ydoc = @ \cup {o}]
    BY <1>10 DEF HandleResend, Apply
  <2>2. entry'.refcount = entry.refcount /\ entry'.live = entry.live
    BY <2>1 DEF T
  <2> QED
    BY <1>a, <2>1, <2>2 DEF RefInv, Holding, T
<1>11. ASSUME NEW t \in Servers, ApplyServerUpdate(t) PROVE RefInv'
  BY <1>11, <1>a DEF ApplyServerUpdate, NewEdit, Apply, RefInv, T, Entries, Holding
<1>12. ASSUME NEW t \in Servers, ApplyNoEdits(t) PROVE RefInv'
  BY <1>12, <1>a DEF ApplyNoEdits, RefInv, T, Holding
<1>13. ASSUME NEW t \in Tasks, AppendUpdate(t) PROVE RefInv'
  <2>1. /\ pc[t] = "append" /\ Appended \in Entries
        /\ Appended.refcount = entry.refcount /\ Appended.live = entry.live
    BY <1>13, AppendedFields DEF AppendUpdate, TypeOK
  <2>2. CASE entry' = Appended /\ Go(t, "compact")
    BY <1>a, <2>1, <2>2 DEF RefInv, Holding, T
  <2>3. CASE FinishUpdate(t, Appended)
    BY <1>a, <2>1, <2>3, FinishFields DEF RefInv, Holding, T, AfterUpdate
  <2> QED
    BY <1>13, <2>2, <2>3 DEF AppendUpdate
<1>14. ASSUME NEW t \in Tasks, Compact(t) PROVE RefInv'
  <2>1. /\ pc[t] = "compact" /\ Compacted \in Entries /\ FinishUpdate(t, Compacted)
        /\ Compacted.refcount = entry.refcount /\ Compacted.live = entry.live
    BY <1>14, CompactedFields DEF Compact, TypeOK
  <2> QED
    BY <1>a, <2>1, FinishFields DEF RefInv, Holding, T, AfterUpdate
<1>15. ASSUME NEW t \in Tasks, Release(t) PROVE RefInv'
  <2>1. t \in Holding
    BY <1>15 DEF Release, RefInv, Holding, Holders
  <2>2. entry.live /\ entry.refcount # 0
    BY <2>1, HoldingFinite DEF RefInv, RefcountExact
  <2>3. /\ entry' = [entry EXCEPT !.refcount = IF @ = 0 THEN 0 ELSE @ - 1]
        /\ Go(t, IF entry'.refcount > 0 THEN "idle" ELSE "flush")
    BY <1>15, <2>2 DEF Release
  <2>4. entry'.live /\ entry'.refcount = entry.refcount - 1
    BY <2>2, <2>3 DEF T
  <2>5. Holding' = Holding \ {t} /\ \A u \in Tasks \ {t} : pc'[u] = pc[u]
    BY <2>1, <2>3 DEF Holding, T
  <2>6. pc'[t] \in {"idle", "flush"}
    BY <2>3 DEF T
  <2> QED
    BY <2>1, <2>2, <2>4, <2>5, <2>6, HoldingFinite, FS_RemoveElement DEF RefInv, RefcountExact
<1>16. ASSUME NEW t \in Flushers, StartFlush(t) PROVE RefInv'
  BY <1>16, <1>a DEF StartFlush, RefInv, T, Holding
<1>17. ASSUME NEW t \in Tasks, TimerFires(t) PROVE RefInv'
  BY <1>17, <1>a DEF TimerFires, RefInv, T, Holding
<1>18. ASSUME NEW t \in Tasks, SkipFlush(t) PROVE RefInv'
  BY <1>18, <1>a DEF SkipFlush, AfterFlush, CanEnter, RefInv, T, Holding
<1>19. ASSUME NEW t \in Tasks, TakeText(t) PROVE RefInv'
  BY <1>19, <1>a DEF TakeText, CanEnter, RefInv, T, Entries, Holding
<1>20. ASSUME NEW t \in Tasks, WriteContent(t) PROVE RefInv'
  BY <1>20, <1>a DEF WriteContent, RefInv, T, Holding
<1>21. ASSUME NEW t \in Tasks, MarkTextSynced(t) PROVE RefInv'
  BY <1>21, <1>a DEF MarkTextSynced, AfterFlush, RefInv, T, Holding
<1>22. ASSUME NEW t \in Tasks, Settle(t) PROVE RefInv'
  BY <1>22, <1>a DEF Settle, CanEnter, RefInv, T, Entries, Holding
<1>23. ASSUME NEW t \in Tasks, SettleCompact(t) PROVE RefInv'
  <2>1. Compacted \in Entries /\ Compacted.refcount = entry.refcount /\ Compacted.live = entry.live
    BY CompactedFields DEF TypeOK
  <2>2. /\ pc[t] = "settleCompact" /\ Go(t, "idle")
        /\ entry' = [Compacted EXCEPT !.evicting = @ \/ t \in Holders]
    BY <1>23 DEF SettleCompact
  <2> QED
    BY <1>a, <2>1, <2>2 DEF RefInv, Holding, T
<1>24. ASSUME NEW t \in Tasks, LoadFails(t) PROVE RefInv'
  BY <1>24, <1>a DEF LoadFails, NoEntry, Fault, RefInv, T, Holding
<1>25. ASSUME NEW t \in Tasks, AppendFails(t) PROVE RefInv'
  BY <1>25, <1>a DEF AppendFails, InsertRow, Fault, RefInv, T, Holding
<1>26. ASSUME NEW t \in Tasks, CompactFails(t) PROVE RefInv'
  BY <1>26, <1>a DEF CompactFails, Fault, RefInv, T, Holding
<1>27. ASSUME NEW t \in Tasks, FlushFails(t) PROVE RefInv'
  BY <1>27, <1>a DEF FlushFails, Fault, RefInv, T, Holding
<1>28. ASSUME Evict PROVE RefInv'
  <2>1. Holding = {} /\ pc' = pc /\ entry'.refcount = 0
    BY <1>28, HoldingFinite DEF Evict, RefInv, RefcountExact, NoEntry
  <2>2. Holding' = {}
    BY <2>1 DEF Holding
  <2> QED
    BY <2>1, <2>2, FS_EmptySet DEF RefInv, RefcountExact
<1>29. ASSUME Crash PROVE RefInv'
  <2>1. pc' = [u \in Tasks |-> "idle"] /\ entry'.refcount = 0
    BY <1>29 DEF Crash, NoEntry
  <2>2. Holding' = {}
    BY <2>1 DEF Holding
  <2> QED
    BY <2>1, <2>2, FS_EmptySet DEF RefInv, RefcountExact
<1>30. CASE UNCHANGED vars
  BY <1>30, <1>a DEF vars, Holding
<1> QED
  BY <1>1, <1>2, <1>3, <1>4, <1>5, <1>6, <1>7, <1>8, <1>9, <1>10, <1>11, <1>12,
     <1>13, <1>14, <1>15, <1>16, <1>17, <1>18, <1>19, <1>20, <1>21, <1>22, <1>23,
     <1>24, <1>25, <1>26, <1>27, <1>28, <1>29, <1>30
  DEF Next, Progress, Request, Failure, Holders, Users, Tasks

-----------------------------------------------------------------------------
(* The log *)

\* An entry about to be evicted has nobody, and nothing that no snapshot holds.
EvictInv ==
    /\ ~entry.live => entry.since = 0
    /\ entry.evicting => entry.refcount = 0 /\ entry.since = 0
    /\ \A t \in Holders : pc[t] = "settleCompact" => entry.refcount = 0
    /\ \A t \in Tasks : pc[t] \in {"seed", "seedSnapshot"} =>
          ~loaded[t].evicting /\ loaded[t].since = 0

\* Only a load, an append and a compaction touch what EvictInv is about.
LEMMA EvictStep ==
    ASSUME TypeInv, LockInv, RefInv, EvictInv, [Next]_vars
    PROVE  EvictInv'
<1> DEFINE T == /\ pc \in [Tasks -> Places]
                /\ entry \in Entries /\ loaded \in [Tasks -> Entries]
           Same == UNCHANGED <<entry, loaded>>
<1>0. T /\ TypeOK
  BY DEF TypeOK, TypeInv
<1>b. Timers \cap Holders = {} /\ Holders \subseteq Tasks
  BY TasksDistinct DEF Holders, Users, Tasks
<1>c. ASSUME entry.live PROVE \A t \in Tasks : pc[t] \notin Loading
  BY <1>c DEF LockInv
<1>d. ASSUME NEW t \in Holding PROVE entry.refcount # 0 /\ ~entry.evicting /\ t \in Tasks
  BY <1>b, <1>d, HoldingFinite DEF RefInv, RefcountExact, EvictInv, Holding
\* A load installs an entry that nobody is about to evict.
<1>e. ASSUME NEW t \in Tasks, NEW e \in Entries, pc[t] \in Loading, ~e.evicting, e.since = 0,
             Install(t, e)
      PROVE  EvictInv'
  <2>1. \A u \in Tasks : pc[u] \in Locked => u = t
    BY <1>e DEF LockInv, Mutex, Loading, Locked
  <2>2. \A u \in Tasks : pc'[u] \notin Locked
    BY <1>0, <1>e, <2>1 DEF Install, Go, T, Locked
  <2>3. entry'.since = 0 /\ ~entry'.evicting
    BY <1>e DEF Install, Entries
  <2> QED
    BY <1>b, <2>2, <2>3 DEF EvictInv, Locked
\* The end of an update.
<1>f. ASSUME NEW t \in Tasks, pc[t] \in {"append", "compact"}, NEW e \in Entries, e.live = entry.live,
             e.evicting = entry.evicting, e.refcount = entry.refcount, UNCHANGED loaded,
             (entry' = e /\ Go(t, "compact")) \/ FinishUpdate(t, e)
      PROVE  EvictInv'
  <2>1. t \in Holding
    BY <1>f DEF RefInv, Holding
  <2>2. entry.live /\ entry.refcount # 0 /\ ~entry.evicting
    BY <1>d, <1>f, <2>1 DEF LockInv
  <2>3. entry'.live /\ entry'.evicting = e.evicting
    BY <1>f, <2>2 DEF FinishUpdate, Entries
  <2>4. \A u \in Tasks : pc'[u] = pc[u] \/ pc'[u] \in {"compact", "held", "release", "sleep"}
    BY <1>0, <1>f DEF FinishUpdate, AfterUpdate, Go, T, Tasks
  <2>5. \A u \in Tasks : pc'[u] \notin {"settleCompact", "seed", "seedSnapshot"}
    <3>1. \A u \in Tasks : pc[u] \in Locked => u = t
      BY <1>f DEF LockInv, Mutex, Locked
    <3> QED
      BY <1>0, <1>f, <2>4, <3>1 DEF Locked, T, FinishUpdate, AfterUpdate, Go, Tasks
  <2> QED
    BY <1>b, <1>f, <2>2, <2>3, <2>5 DEF EvictInv
<1> HIDE DEF T
<1> USE <1>0, <1>b DEF Go, Unqueue, lock, tasks, store, bounds
<1>1. ASSUME NEW t \in Tasks, WaitForLock(t) PROVE EvictInv'
  BY <1>1 DEF WaitForLock, EvictInv, T
<1>2. ASSUME NEW t \in Tasks, StartAcquire(t) PROVE EvictInv'
  BY <1>2 DEF StartAcquire, EvictInv, T
<1>3. ASSUME NEW t \in Tasks, RetryAcquire(t) PROVE EvictInv'
  BY <1>3 DEF RetryAcquire, EvictInv, T
<1>4. ASSUME NEW t \in Tasks, AcquireLoaded(t) PROVE EvictInv'
  BY <1>4 DEF AcquireLoaded, LockFree, Locked, EvictInv, T, Entries
<1>5. ASSUME NEW t \in Tasks, AcquireMissing(t) PROVE EvictInv'
  BY <1>5 DEF AcquireMissing, EvictInv, T
<1>6. ASSUME NEW t \in Tasks, Load(t) PROVE EvictInv'
  <2>1. LoadedEntry \in Entries /\ ~LoadedEntry.evicting /\ LoadedEntry.since = 0
    <3>1. LoadedEntry \in Entries
      BY LoadedType
    <3> QED
      BY <3>1 DEF LoadedEntry, NoEntry
  <2>2. CASE Install(t, LoadedEntry)
    BY <1>6, <1>e, <2>1, <2>2 DEF Load, Loading
  <2>3. CASE loaded' = [loaded EXCEPT ![t] = LoadedEntry] /\ Go(t, "seed") /\ UNCHANGED entry
    BY <2>1, <2>3 DEF EvictInv, T
  <2> QED
    BY <1>6, <2>2, <2>3 DEF Load
<1>7. ASSUME NEW t \in Tasks, Seed(t) PROVE EvictInv'
  <2>1. loaded[t] \in Entries /\ ~loaded[t].evicting /\ loaded[t].since = 0 /\ pc[t] \in Loading
    BY <1>7 DEF Seed, EvictInv, T, Loading
  <2>2. CASE Install(t, loaded[t])
    BY <1>e, <2>1, <2>2
  <2>3. CASE Go(t, "seedSnapshot") /\ UNCHANGED <<entry, loaded>>
    BY <2>1, <2>3 DEF EvictInv, T
  <2> QED
    BY <1>7, <2>2, <2>3 DEF Seed
<1>8. ASSUME NEW t \in Tasks, SeedSnapshot(t) PROVE EvictInv'
  <2> DEFINE e == [loaded[t] EXCEPT !.ydoc = loaded[t].ydoc \cup {Len(ops) + 1}, !.seq = snap.seq + 1]
  <2>1. loaded[t] \in Entries /\ ~loaded[t].evicting /\ loaded[t].since = 0 /\ pc[t] \in Loading
    BY <1>8 DEF SeedSnapshot, EvictInv, T, Loading
  <2>2. Install(t, e)
    BY <1>8 DEF SeedSnapshot
  <2>3. e \in Entries /\ ~e.evicting /\ e.since = 0
    <3>1. snap.seq + 1 \in Nat /\ Len(ops) + 1 \in Nat
      BY LenProperties DEF TypeOK
    <3>2. loaded[t].ydoc \cup {Len(ops) + 1} \in SUBSET Nat
      BY <2>1, <3>1 DEF Entries
    <3> QED
      BY <2>1, <3>1, <3>2 DEF Entries
  <2> QED
    BY <1>e, <2>1, <2>2, <2>3
<1>9. ASSUME NEW t \in Holders, NEW o \in Nat, Apply(t, o) PROVE EvictInv'
  BY <1>9 DEF Apply, EvictInv, T, Entries
<1>12. ASSUME NEW t \in Tasks, ApplyNoEdits(t) PROVE EvictInv'
  BY <1>12 DEF ApplyNoEdits, EvictInv, T
<1>13. ASSUME NEW t \in Tasks, AppendUpdate(t) PROVE EvictInv'
  <2>1. /\ Appended \in Entries /\ Appended.live = entry.live /\ Appended.refcount = entry.refcount
        /\ Appended.evicting = entry.evicting
    BY AppendedFields DEF TypeOK, Appended, Entries
  <2> QED
    BY <1>13, <1>f, <2>1 DEF AppendUpdate
<1>14. ASSUME NEW t \in Tasks, Compact(t) PROVE EvictInv'
  <2>1. /\ Compacted \in Entries /\ Compacted.live = entry.live /\ Compacted.refcount = entry.refcount
        /\ Compacted.evicting = entry.evicting
    BY CompactedFields DEF TypeOK, Compacted, Entries
  <2> QED
    BY <1>14, <1>f, <2>1 DEF Compact
<1>15. ASSUME NEW t \in Tasks, Release(t) PROVE EvictInv'
  BY <1>15 DEF Release, LockFree, Locked, EvictInv, T, Entries
<1>16. ASSUME NEW t \in Tasks, StartFlush(t) PROVE EvictInv'
  BY <1>16 DEF StartFlush, EvictInv, T
<1>17. ASSUME NEW t \in Tasks, TimerFires(t) PROVE EvictInv'
  BY <1>17 DEF TimerFires, EvictInv, T
<1>18. ASSUME NEW t \in Tasks, SkipFlush(t) PROVE EvictInv'
  BY <1>18 DEF SkipFlush, AfterFlush, EvictInv, T
<1>19. ASSUME NEW t \in Tasks, TakeText(t) PROVE EvictInv'
  BY <1>19 DEF TakeText, EvictInv, T, Entries
<1>20. ASSUME NEW t \in Tasks, WriteContent(t) PROVE EvictInv'
  BY <1>20 DEF WriteContent, EvictInv, T
<1>21. ASSUME NEW t \in Tasks, MarkTextSynced(t) PROVE EvictInv'
  BY <1>21 DEF MarkTextSynced, AfterFlush, EvictInv, T
<1>22. ASSUME NEW t \in Tasks, Settle(t) PROVE EvictInv'
  <2>1. UNCHANGED loaded /\ pc' \in [Tasks -> Places] /\ \A u \in Tasks \ {t} : pc'[u] = pc[u]
    BY <1>22 DEF Settle, T, Places
  <2>2. CASE pc'[t] = "idle" /\ UNCHANGED entry
    BY <2>1, <2>2 DEF EvictInv
  <2>3. CASE /\ pc'[t] = "settleCompact" /\ UNCHANGED entry
             /\ t \in Holders => entry.refcount = 0
    BY <2>1, <2>3 DEF EvictInv
  <2>4. CASE /\ pc'[t] = "idle" /\ entry.since = 0
             /\ entry' = [entry EXCEPT !.evicting = entry.evicting \/ t \in Holders]
             /\ t \in Holders => entry.refcount = 0
    BY <2>1, <2>4 DEF EvictInv, T, Entries
  <2> QED
    BY <1>22, <2>2, <2>3, <2>4 DEF Settle, T, Entries
<1>23. ASSUME NEW t \in Tasks, SettleCompact(t) PROVE EvictInv'
  <2>1. /\ pc[t] = "settleCompact" /\ Go(t, "idle") /\ UNCHANGED loaded
        /\ entry' = [Compacted EXCEPT !.evicting = @ \/ t \in Holders]
    BY <1>23 DEF SettleCompact
  <2>2. /\ Compacted \in Entries /\ Compacted.live = entry.live /\ Compacted.refcount = entry.refcount
        /\ Compacted.evicting = entry.evicting /\ Compacted.since = 0
    BY CompactedFields DEF TypeOK, Compacted, Entries
  <2>3. /\ entry'.since = 0 /\ entry'.refcount = entry.refcount
        /\ entry'.evicting <=> entry.evicting \/ t \in Holders
    BY <2>1, <2>2 DEF Entries
  <2> QED
    BY <2>1, <2>3 DEF EvictInv, T
<1>24. ASSUME NEW t \in Tasks, LoadFails(t) PROVE EvictInv'
  BY <1>24 DEF LoadFails, NoEntry, Fault, EvictInv, T
<1>25. ASSUME NEW t \in Tasks, AppendFails(t) PROVE EvictInv'
  BY <1>25 DEF AppendFails, Fault, EvictInv, T
<1>26. ASSUME NEW t \in Tasks, CompactFails(t) PROVE EvictInv'
  BY <1>26 DEF CompactFails, Fault, EvictInv, T
<1>27. ASSUME NEW t \in Tasks, FlushFails(t) PROVE EvictInv'
  BY <1>27 DEF FlushFails, Fault, EvictInv, T
<1>28. ASSUME Evict PROVE EvictInv'
  BY <1>28 DEF Evict, NoEntry, EvictInv, T, LockFree, Locked
<1>29. ASSUME Crash PROVE EvictInv'
  BY <1>29 DEF Crash, NoEntry, EvictInv, T
<1>30. CASE UNCHANGED vars
  BY <1>30 DEF vars, EvictInv
<1> QED
  BY <1>1, <1>2, <1>3, <1>4, <1>5, <1>6, <1>7, <1>8, <1>9, <1>12,
     <1>13, <1>14, <1>15, <1>16, <1>17, <1>18, <1>19, <1>20, <1>21, <1>22, <1>23,
     <1>24, <1>25, <1>26, <1>27, <1>28, <1>29, <1>30
  DEF Next, Progress, Request, Failure, HandleUpdate, HandleResend, ApplyServerUpdate, NewEdit,
      Holders, Users, Tasks

\* The rows a process counts against the threshold, the running compaction's
\* included; and the rows its document knows nothing of, which a fault left.
Threshold == IF \E t \in Tasks : pc[t] = "compact" THEN SnapshotEvery ELSE SnapshotEvery - 1
Counted == IF entry.since < Threshold THEN entry.since ELSE Threshold
Uncounted(e) == {r \in log : r.id > e.last}

\* Every row is one that an earlier process left, a fault's, or counted.
LogInv ==
    /\ IsFiniteSet(log)
    /\ Cardinality(log) <= SnapshotEvery * crashes + faults + Counted
    /\ entry.live => Cardinality(Uncounted(entry)) <= faults
    /\ \A t \in Tasks : pc[t] \in {"seed", "seedSnapshot"} => Uncounted(loaded[t]) = {}

\* The high-water id is at least every id of the log.
LEMMA MaxIdBounds == ASSUME TypeInv PROVE \A r \in log : r.id <= MaxId
<1> DEFINE S == {r.id : r \in log}
<1>1. S \in SUBSET Nat /\ nextRow \in Nat /\ \A i \in S : i <= nextRow
  BY DEF TypeInv, TypeOK, KnownOps
<1>2. CASE log = {}
  BY <1>2
<1>3. CASE log # {}
  <2>1. \E i \in S : \A j \in S : j <= i
    <3>1. S # {}
      BY <1>3
    <3> QED
      BY <1>1, <3>1, BoundedHasMax
  <2>2. \E i \in S : \A r \in log : r.id <= i
    BY <2>1
  <2> QED
    BY <1>3, <2>2 DEF MaxId
<1> QED
  BY <1>2, <1>3

\* What is counted is a number, at most the threshold.
LEMMA CountedRange ==
    ASSUME entry \in Entries
    PROVE  /\ Counted \in Nat /\ Counted <= SnapshotEvery /\ Counted <= entry.since
           /\ (\A t \in Tasks : pc[t] # "compact") => Counted <= SnapshotEvery - 1
  BY SnapshotEveryPositive DEF Counted, Threshold, Entries

\* A part of the log is finite, and no larger.
LEMMA PartOfLog ==
    ASSUME IsFiniteSet(log), NEW S, S \subseteq log
    PROVE  IsFiniteSet(S) /\ Cardinality(S) \in Nat /\ Cardinality(S) <= Cardinality(log)
           /\ Cardinality(log) \in Nat
  BY FS_Subset, FS_CardinalityType

\* An element more makes a finite set larger by at most one.
LEMMA OneMore ==
    ASSUME NEW S, IsFiniteSet(S), NEW x
    PROVE  /\ IsFiniteSet(S \cup {x}) /\ Cardinality(S \cup {x}) \in Nat /\ Cardinality(S) \in Nat
           /\ Cardinality(S \cup {x}) <= Cardinality(S) + 1
<1>1. /\ IsFiniteSet(S \cup {x})
      /\ Cardinality(S \cup {x}) = Cardinality(S) \/ Cardinality(S \cup {x}) = Cardinality(S) + 1
  BY FS_AddElement
<1>2. Cardinality(S \cup {x}) \in Nat /\ Cardinality(S) \in Nat
  BY <1>1, FS_CardinalityType
<1> QED
  BY <1>1, <1>2

\* A step that leaves the log and the count alone.
LEMMA LogKept ==
    ASSUME TypeOK, TypeOK', LogInv, log' = log, crashes' = crashes, faults' \in {faults, faults + 1},
           entry'.since = entry.since, entry'.live => entry.live /\ entry'.last = entry.last,
           \A t \in Tasks : pc'[t] = "compact" <=> pc[t] = "compact",
           \A t \in Tasks : pc'[t] \in {"seed", "seedSnapshot"} =>
               pc[t] \in {"seed", "seedSnapshot"} /\ loaded'[t] = loaded[t]
    PROVE  LogInv'
<1>1. Counted' = Counted
  BY DEF Counted, Threshold
<1>2. SnapshotEvery * crashes \in Nat /\ SnapshotEvery * crashes' = SnapshotEvery * crashes
  BY SnapshotEveryPositive DEF TypeOK
<1>3. Cardinality(log) \in Nat /\ faults \in Nat /\ Counted \in Nat
  BY CountedRange, FS_CardinalityType DEF TypeOK, LogInv
<1>4. Cardinality(log') <= SnapshotEvery * crashes' + faults' + Counted'
  <2> DEFINE P == SnapshotEvery * crashes
  <2>1. P \in Nat /\ Cardinality(log) <= P + faults + Counted
    BY <1>2 DEF LogInv
  <2>2. SnapshotEvery * crashes' = P
    BY <1>2
  <2> HIDE DEF P
  <2> QED
    BY <1>1, <1>3, <2>1, <2>2
<1>5. entry'.live => Cardinality(Uncounted(entry)') <= faults'
  <2> SUFFICES ASSUME entry'.live PROVE Cardinality(Uncounted(entry)') <= faults'
    OBVIOUS
  <2>1. Uncounted(entry)' = Uncounted(entry) /\ Uncounted(entry) \subseteq log
    BY DEF Uncounted
  <2>2. Cardinality(Uncounted(entry)) \in Nat
    BY <2>1, PartOfLog DEF LogInv
  <2> QED
    BY <1>3, <2>1, <2>2 DEF LogInv
<1>6. \A t \in Tasks : pc'[t] \in {"seed", "seedSnapshot"} => Uncounted(loaded[t])' = {}
  BY DEF LogInv, Uncounted
<1> QED
  BY <1>4, <1>5, <1>6 DEF LogInv

\* A compaction leaves the rows its document does not know of.
LEMMA LogTruncated ==
    ASSUME TypeOK, TypeOK', LogInv, entry.live, Snapshot(entry.ydoc, entry.last),
           crashes' = crashes, faults' = faults,
           entry'.last = entry.last,
           \A t \in Tasks : pc'[t] \notin {"seed", "seedSnapshot"}
    PROVE  LogInv'
<1>1. log' = Uncounted(entry) /\ Uncounted(entry) \subseteq log
  BY DEF Snapshot, Uncounted
<1>2. IsFiniteSet(log') /\ Cardinality(log') \in Nat /\ Cardinality(log') <= faults
  BY <1>1, PartOfLog DEF LogInv
<1>3. Counted' \in Nat /\ faults \in Nat
  <2>1. entry' \in Entries
    BY DEF TypeOK
  <2>2. SnapshotEvery \in Nat \ {0} /\ entry'.since \in Nat
    BY <2>1, SnapshotEveryPositive DEF Entries
  <2> QED
    BY <2>2 DEF Counted, Threshold, TypeOK
<1>4. Cardinality(log') <= SnapshotEvery * crashes' + faults' + Counted'
  <2> DEFINE P == SnapshotEvery * crashes'
  <2>1. P \in Nat
    BY SnapshotEveryPositive DEF TypeOK
  <2> HIDE DEF P
  <2> QED
    BY <1>2, <1>3, <2>1 DEF P
<1>5. Cardinality(Uncounted(entry)') <= faults'
  <2>1. Uncounted(entry)' \subseteq log'
    BY DEF Uncounted
  <2>2. Cardinality(Uncounted(entry)') \in Nat /\ Cardinality(Uncounted(entry)') <= Cardinality(log')
    BY <1>2, <2>1, FS_Subset, FS_CardinalityType
  <2> QED
    BY <1>2, <1>3, <2>2
<1> QED
  BY <1>2, <1>4, <1>5 DEF LogInv

\* A row is appended: it is counted, or a fault's.
LEMMA LogGrows ==
    ASSUME TypeInv, TypeOK', LogInv, NEW t \in Tasks, InsertRow(t), crashes' = crashes,
           faults' \in Nat, faults' + Counted' >= faults + Counted + 1,
           \/ entry'.last = nextRow
           \/ entry'.last = entry.last /\ faults' = faults + 1,
           entry.live, Counted' \in Nat, faults' >= faults,
           \A u \in Tasks : pc'[u] \notin {"seed", "seedSnapshot"}
    PROVE  LogInv'
<1> DEFINE row == [id |-> nextRow, op |-> op[t]]
<1>1. log' = log \cup {row} /\ row.id = nextRow
  BY DEF InsertRow
<1> HIDE DEF row
<1>2. IsFiniteSet(log') /\ Cardinality(log') <= Cardinality(log) + 1
      /\ Cardinality(log') \in Nat /\ Cardinality(log) \in Nat
  <2>1. IsFiniteSet(log)
    BY DEF LogInv
  <2> QED
    BY <1>1, <2>1, OneMore
<1>3. faults \in Nat /\ Counted \in Nat
  BY CountedRange DEF TypeInv, TypeOK
<1>4. Cardinality(log') <= SnapshotEvery * crashes' + faults' + Counted'
  <2> DEFINE P == SnapshotEvery * crashes
  <2>1. P \in Nat /\ Cardinality(log) <= P + faults + Counted
    BY SnapshotEveryPositive DEF LogInv, TypeInv, TypeOK
  <2>2. SnapshotEvery * crashes' = P
    OBVIOUS
  <2> HIDE DEF P
  <2> QED
    BY <1>2, <1>3, <2>1, <2>2
<1>5. Cardinality(Uncounted(entry)') <= faults'
  <2>1. CASE entry'.last = nextRow
    <3>1. nextRow \in Nat /\ \A r \in log : r.id \in Nat /\ r.id < nextRow
      BY DEF TypeInv, KnownOps, TypeOK
    <3>2. \A r \in log' : ~(r.id > nextRow)
      BY <1>1, <3>1
    <3>3. Uncounted(entry)' = {}
      BY <2>1, <3>2 DEF Uncounted
    <3> QED
      BY <3>3, FS_EmptySet
  <2>2. CASE entry'.last = entry.last /\ faults' = faults + 1
    <3> DEFINE U == Uncounted(entry)
    <3>1. U \subseteq log /\ Uncounted(entry)' \subseteq U \cup {row}
      BY <1>1, <2>2 DEF Uncounted
    <3>2. IsFiniteSet(U) /\ Cardinality(U) \in Nat /\ Cardinality(U) <= faults
      BY <3>1, PartOfLog DEF LogInv
    <3> HIDE DEF U
    <3>3. IsFiniteSet(U \cup {row}) /\ Cardinality(U \cup {row}) <= Cardinality(U) + 1
          /\ Cardinality(U \cup {row}) \in Nat
      BY <3>2, OneMore
    <3>4. Cardinality(Uncounted(entry)') \in Nat
          /\ Cardinality(Uncounted(entry)') <= Cardinality(U \cup {row})
      BY <3>1, <3>3, FS_Subset, FS_CardinalityType
    <3> QED
      BY <1>3, <2>2, <3>2, <3>3, <3>4
  <2> QED
    BY <2>1, <2>2
<1> QED
  BY <1>2, <1>4, <1>5 DEF LogInv

\* Every step keeps the log within the threshold.
LEMMA LogStep ==
    ASSUME TypeInv, TypeInv', LockInv, LockInv', RefInv, EvictInv, LogInv, [Next]_vars
    PROVE  LogInv'
<1> DEFINE T == /\ pc \in [Tasks -> Places]
                /\ entry \in Entries /\ loaded \in [Tasks -> Entries]
           Stays == /\ log' = log /\ crashes' = crashes
                    /\ faults' \in {faults, faults + 1}
                    /\ entry'.since = entry.since
                    /\ entry'.live => entry.live /\ entry'.last = entry.last
                    /\ \A u \in Tasks : \/ pc'[u] = pc[u] /\ loaded'[u] = loaded[u]
                                        \/ /\ pc[u] # "compact"
                                           /\ pc'[u] \notin {"compact", "seed", "seedSnapshot"}
<1>0. T /\ TypeOK /\ TypeOK' /\ faults \in Nat /\ crashes \in Nat
  BY DEF TypeOK, TypeInv
<1>a. Stays => LogInv'
  BY <1>0, LogKept
<1>b. Timers \cap Holders = {} /\ Holders \subseteq Tasks
  BY TasksDistinct DEF Holders, Users, Tasks
\* A load installs an entry that knows every row.
<1>c. ASSUME NEW t \in Tasks, pc[t] \in Loading, NEW e, e.since = 0, Uncounted(e) = {},
             log' \subseteq log, UNCHANGED <<crashes, faults>>,
             entry' = [e EXCEPT !.refcount = 1], e \in Entries, Go(t, "held")
      PROVE  LogInv'
  <2>1. ~entry.live /\ entry.since = 0 /\ Counted = 0 /\ Counted' = 0
    <3>1. ~entry.live /\ entry.since = 0 /\ entry'.since = 0
      BY <1>c DEF LockInv, EvictInv, Entries
    <3> QED
      BY <3>1, SnapshotEveryPositive DEF Counted, Threshold
  <2>2. /\ IsFiniteSet(log') /\ Cardinality(log') \in Nat /\ Cardinality(log) \in Nat
        /\ Cardinality(log') <= Cardinality(log)
    BY <1>c, PartOfLog DEF LogInv
  <2>3. Uncounted(entry)' = {}
    BY <1>c DEF Uncounted, Entries
  <2>4. \A u \in Tasks : pc'[u] \notin {"seed", "seedSnapshot"}
    <3>1. \A u \in Tasks : pc[u] \in Locked => u = t
      BY <1>c DEF LockInv, Mutex, Loading, Locked
    <3> QED
      BY <1>0, <1>c, <3>1 DEF Go, T, Locked
  <2>5. Cardinality(log') <= SnapshotEvery * crashes' + faults' + Counted'
    <3> DEFINE P == SnapshotEvery * crashes
    <3>1. Cardinality(log) <= P + faults + Counted /\ P \in Nat
      BY <1>0, SnapshotEveryPositive DEF LogInv
    <3>2. SnapshotEvery * crashes' = P
      BY <1>c
    <3> HIDE DEF P
    <3> QED
      BY <1>0, <1>c, <2>1, <2>2, <3>1, <3>2
  <2>6. Cardinality(Uncounted(entry)') <= faults'
    BY <1>0, <1>c, <2>3, FS_EmptySet
  <2> QED
    BY <2>2, <2>4, <2>5, <2>6 DEF LogInv
<1> HIDE DEF T
<1> USE <1>0, <1>b DEF Go, Unqueue, lock, tasks, store, bounds
<1>1. ASSUME NEW t \in Tasks, WaitForLock(t) PROVE LogInv'
  BY <1>1, <1>a DEF WaitForLock
<1>2. ASSUME NEW t \in Tasks, StartAcquire(t) PROVE LogInv'
  BY <1>2, <1>a DEF StartAcquire, T
<1>3. ASSUME NEW t \in Tasks, RetryAcquire(t) PROVE LogInv'
  BY <1>3, <1>a DEF RetryAcquire
<1>4. ASSUME NEW t \in Tasks, AcquireLoaded(t) PROVE LogInv'
  <2>1. entry'.since = entry.since /\ entry'.last = entry.last /\ entry.live
    BY <1>4 DEF AcquireLoaded, T, Entries
  <2> QED
    BY <1>4, <1>a, <2>1 DEF AcquireLoaded, T
<1>5. ASSUME NEW t \in Tasks, AcquireMissing(t) PROVE LogInv'
  BY <1>5, <1>a DEF AcquireMissing, T
<1>6. ASSUME NEW t \in Tasks, Load(t) PROVE LogInv'
  <2>1. LoadedEntry \in Entries /\ LoadedEntry.since = 0 /\ LoadedEntry.last = MaxId
    <3>1. LoadedEntry \in Entries
      BY LoadedType
    <3> QED
      BY <3>1 DEF LoadedEntry, NoEntry
  <2>2. Uncounted(LoadedEntry) = {}
    <3>1. MaxId \in Nat /\ \A r \in log : r.id \in Nat /\ r.id <= MaxId
      BY MaxIdType, MaxIdBounds DEF TypeOK
    <3>2. \A r \in log : ~(r.id > MaxId)
      BY <3>1
    <3> QED
      BY <2>1, <3>2 DEF Uncounted
  <2>3. CASE Install(t, LoadedEntry)
    BY <1>6, <1>c, <2>1, <2>2, <2>3 DEF Load, Loading, Install
  <2>4. CASE loaded' = [loaded EXCEPT ![t] = LoadedEntry] /\ Go(t, "seed") /\ UNCHANGED entry
    <3>1. ~entry.live /\ log' = log /\ UNCHANGED <<crashes, faults>>
      BY <1>6 DEF Load, LockInv, Loading
    <3>2. \A u \in Tasks : pc'[u] = "compact" <=> pc[u] = "compact"
      BY <1>6, <2>4 DEF Load, T
    <3>3. Counted' = Counted
      BY <2>4, <3>2 DEF Counted, Threshold
    <3>4. \A u \in Tasks : pc'[u] \in {"seed", "seedSnapshot"} => Uncounted(loaded[u])' = {}
      <4>1. Uncounted(loaded[t])' = {}
        BY <2>2, <2>4, <3>1 DEF Uncounted, T
      <4>2. \A u \in Tasks \ {t} : pc'[u] = pc[u] /\ Uncounted(loaded[u])' = Uncounted(loaded[u])
        BY <2>4, <3>1 DEF Uncounted, T
      <4> QED
        BY <4>1, <4>2 DEF LogInv
    <3> QED
      BY <2>4, <3>1, <3>3, <3>4 DEF LogInv
  <2> QED
    BY <1>6, <2>3, <2>4 DEF Load
<1>7. ASSUME NEW t \in Tasks, Seed(t) PROVE LogInv'
  <2>1. /\ loaded[t] \in Entries /\ loaded[t].since = 0 /\ Uncounted(loaded[t]) = {}
        /\ pc[t] \in Loading /\ log' = log /\ UNCHANGED <<crashes, faults>>
    BY <1>7 DEF Seed, EvictInv, LogInv, T, Loading
  <2>2. CASE Install(t, loaded[t])
    BY <1>c, <2>1, <2>2 DEF Install
  <2>3. CASE Go(t, "seedSnapshot") /\ UNCHANGED <<entry, loaded>>
    <3>1. /\ \A u \in Tasks : pc'[u] = "compact" <=> pc[u] = "compact"
          /\ \A u \in Tasks : pc'[u] \in {"seed", "seedSnapshot"} =>
                pc[u] \in {"seed", "seedSnapshot"}
      BY <1>7, <2>3 DEF Seed, T
    <3> QED
      BY <2>1, <2>3, <3>1, LogKept
  <2> QED
    BY <1>7, <2>2, <2>3 DEF Seed
<1>8. ASSUME NEW t \in Tasks, SeedSnapshot(t) PROVE LogInv'
  <2> DEFINE e == [loaded[t] EXCEPT !.ydoc = loaded[t].ydoc \cup {Len(ops) + 1}, !.seq = snap.seq + 1]
  <2>1. loaded[t] \in Entries /\ loaded[t].since = 0 /\ Uncounted(loaded[t]) = {} /\ pc[t] \in Loading
    BY <1>8 DEF SeedSnapshot, EvictInv, LogInv, T, Loading
  <2>2. entry' = [e EXCEPT !.refcount = 1] /\ Go(t, "held") /\ UNCHANGED <<crashes, faults>>
    BY <1>8 DEF SeedSnapshot, Install
  <2>3. log' \subseteq log
    BY <1>8 DEF SeedSnapshot, Snapshot
  <2>4. e \in Entries /\ e.since = 0 /\ e.last = loaded[t].last
    <3>1. snap.seq + 1 \in Nat /\ Len(ops) + 1 \in Nat
      BY LenProperties DEF TypeOK
    <3>2. loaded[t].ydoc \cup {Len(ops) + 1} \in SUBSET Nat
      BY <2>1, <3>1 DEF Entries
    <3> QED
      BY <2>1, <3>1, <3>2 DEF Entries
  <2>5. Uncounted(e) = {}
    BY <2>1, <2>4 DEF Uncounted
  <2> HIDE DEF e
  <2> QED
    BY <1>c, <2>1, <2>2, <2>3, <2>4, <2>5
<1>9. ASSUME NEW t \in Holders, NEW o \in Nat, Apply(t, o) PROVE LogInv'
  <2>1. entry'.since = entry.since /\ entry'.last = entry.last /\ entry.live
    BY <1>9 DEF Apply, T, Entries
  <2> QED
    BY <1>9, <1>a, <2>1 DEF Apply, T
<1>12. ASSUME NEW t \in Tasks, ApplyNoEdits(t) PROVE LogInv'
  BY <1>12, <1>a DEF ApplyNoEdits, T
<1>13. ASSUME NEW t \in Tasks, AppendUpdate(t) PROVE LogInv'
  <2>1. /\ pc[t] = "append" /\ entry.live /\ InsertRow(t) /\ UNCHANGED <<crashes, faults>>
        /\ \A u \in Tasks : pc[u] \in Locked => u = t
    BY <1>13 DEF AppendUpdate, LockInv, Mutex, Locked
  <2>2. /\ Appended \in Entries /\ Appended.since = entry.since + 1 /\ Appended.last = nextRow
        /\ entry.since \in Nat
    <3>1. nextRow \in Nat
      BY DEF TypeOK
    <3>2. Appended \in Entries
      BY <3>1, AppendedFields DEF T
    <3> QED
      BY <3>1, <3>2 DEF Appended, T, Entries
  <2>3. ~\E u \in Tasks : pc[u] = "compact"
    BY <2>1 DEF Locked
  <2>4. CASE entry' = Appended /\ Go(t, "compact")
    <3>1. \E u \in Tasks : pc'[u] = "compact"
      BY <2>4 DEF T
    <3>2. Counted' = Counted + 1 /\ Counted' \in Nat
      BY <2>2, <2>3, <2>4, <3>1, SnapshotEveryPositive DEF Counted, Threshold
    <3>3. \A u \in Tasks : pc'[u] \notin {"seed", "seedSnapshot"}
      BY <2>1, <2>4 DEF Locked, T
    <3>4. faults' + Counted' >= faults + Counted + 1 /\ faults' >= faults /\ faults' \in Nat
      BY <2>1, <2>2, <3>2, CountedRange DEF T
    <3> QED
      BY <2>1, <2>2, <2>4, <3>2, <3>3, <3>4, LogGrows
  <2>5. CASE BelowThreshold(Appended) /\ FinishUpdate(t, Appended)
    <3>1. entry'.since = entry.since + 1 /\ entry'.last = nextRow /\ entry.since + 1 < SnapshotEvery
      BY <2>2, <2>5 DEF FinishUpdate, BelowThreshold, Entries
    <3>2. \A u \in Tasks : \/ pc'[u] = pc[u]
                           \/ pc'[u] \in {"held", "release", "sleep"}
      BY <2>5 DEF FinishUpdate, AfterUpdate, T, Tasks
    <3>3. pc'[t] \in {"held", "release", "sleep"}
      BY <2>5 DEF FinishUpdate, AfterUpdate, T, Tasks
    <3>4. \A u \in Tasks : pc'[u] \notin {"compact", "seed", "seedSnapshot"}
      BY <2>1, <3>2, <3>3 DEF Locked
    <3>5. Counted' = Counted + 1 /\ Counted' \in Nat
      BY <2>2, <2>3, <3>1, <3>4, SnapshotEveryPositive DEF Counted, Threshold
    <3>6. faults' + Counted' >= faults + Counted + 1 /\ faults' >= faults /\ faults' \in Nat
      BY <2>1, <2>2, <3>5, CountedRange DEF T
    <3> QED
      BY <2>1, <3>1, <3>4, <3>5, <3>6, LogGrows
  <2> QED
    BY <1>13, <2>4, <2>5 DEF AppendUpdate
<1>14. ASSUME NEW t \in Tasks, Compact(t) PROVE LogInv'
  <2>1. /\ pc[t] = "compact" /\ entry.live /\ UNCHANGED <<crashes, faults>>
        /\ Snapshot(entry.ydoc, entry.last) /\ FinishUpdate(t, Compacted)
        /\ \A u \in Tasks : pc[u] \in Locked => u = t
    BY <1>14 DEF Compact, LockInv, Mutex, Locked
  <2>2. Compacted \in Entries /\ Compacted.last = entry.last
    <3>1. Compacted \in Entries
      BY CompactedFields DEF T, TypeOK
    <3> QED
      BY <3>1 DEF Compacted, T, Entries
  <2>3. entry'.last = entry.last
    BY <2>1, <2>2 DEF FinishUpdate, Entries
  <2>4. \A u \in Tasks : pc'[u] \notin {"seed", "seedSnapshot"}
    <3>1. \A u \in Tasks : pc'[u] = pc[u] \/ pc'[u] \in {"held", "release", "sleep"}
      BY <2>1 DEF FinishUpdate, AfterUpdate, T, Tasks
    <3> QED
      BY <2>1, <3>1 DEF Locked
  <2> QED
    BY <2>1, <2>3, <2>4, LogTruncated
<1>15. ASSUME NEW t \in Tasks, Release(t) PROVE LogInv'
  <2>1. /\ entry'.since = entry.since /\ entry'.last = entry.last /\ entry'.live = entry.live
        /\ log' = log /\ UNCHANGED <<crashes, faults>>
    BY <1>15 DEF Release, T, Entries
  <2>2. \A u \in Tasks : \/ pc'[u] = pc[u] /\ loaded'[u] = loaded[u]
                         \/ /\ pc[u] # "compact"
                            /\ pc'[u] \notin {"compact", "seed", "seedSnapshot"}
    BY <1>15 DEF Release, T
  <2> QED
    BY <1>a, <2>1, <2>2
<1>16. ASSUME NEW t \in Tasks, StartFlush(t) PROVE LogInv'
  BY <1>16, <1>a DEF StartFlush, T
<1>17. ASSUME NEW t \in Tasks, TimerFires(t) PROVE LogInv'
  BY <1>17, <1>a DEF TimerFires, T
<1>18. ASSUME NEW t \in Tasks, SkipFlush(t) PROVE LogInv'
  BY <1>18, <1>a DEF SkipFlush, AfterFlush, T
<1>19. ASSUME NEW t \in Tasks, TakeText(t) PROVE LogInv'
  <2>1. /\ entry'.since = entry.since /\ entry'.last = entry.last /\ entry.live
        /\ log' = log /\ UNCHANGED <<crashes, faults>>
    BY <1>19 DEF TakeText, T, Entries
  <2>2. \A u \in Tasks : \/ pc'[u] = pc[u] /\ loaded'[u] = loaded[u]
                         \/ /\ pc[u] # "compact"
                            /\ pc'[u] \notin {"compact", "seed", "seedSnapshot"}
    <3>1. \A u \in Timers : pc[u] # "compact"
      BY DEF RefInv, Tasks
    <3> QED
      BY <1>19, <3>1 DEF TakeText
  <2> QED
    BY <1>a, <2>1, <2>2
<1>20. ASSUME NEW t \in Tasks, WriteContent(t) PROVE LogInv'
  BY <1>20, <1>a DEF WriteContent, T
<1>21. ASSUME NEW t \in Tasks, MarkTextSynced(t) PROVE LogInv'
  BY <1>21, <1>a DEF MarkTextSynced, AfterFlush, T
<1>22. ASSUME NEW t \in Tasks, Settle(t) PROVE LogInv'
  <2>1. /\ entry'.since = entry.since /\ entry'.last = entry.last /\ entry'.live = entry.live
        /\ log' = log /\ UNCHANGED <<crashes, faults>>
    BY <1>22 DEF Settle, T, Entries
  <2>2. \A u \in Tasks : \/ pc'[u] = pc[u] /\ loaded'[u] = loaded[u]
                         \/ /\ pc[u] # "compact"
                            /\ pc'[u] \notin {"compact", "seed", "seedSnapshot"}
    BY <1>22 DEF Settle, T
  <2> QED
    BY <1>a, <2>1, <2>2
<1>23. ASSUME NEW t \in Tasks, SettleCompact(t) PROVE LogInv'
  <2>1. /\ pc[t] = "settleCompact" /\ entry.live /\ UNCHANGED <<crashes, faults>>
        /\ Snapshot(entry.ydoc, entry.last) /\ Go(t, "idle")
        /\ entry' = [Compacted EXCEPT !.evicting = @ \/ t \in Holders]
        /\ \A u \in Tasks : pc[u] \in Locked => u = t
    BY <1>23 DEF SettleCompact, LockInv, Mutex, Locked
  <2>2. Compacted \in Entries /\ Compacted.last = entry.last
    <3>1. Compacted \in Entries
      BY CompactedFields DEF T, TypeOK
    <3> QED
      BY <3>1 DEF Compacted, T, Entries
  <2>3. entry'.last = entry.last
    BY <2>1, <2>2 DEF Entries
  <2>4. \A u \in Tasks : pc'[u] \notin {"seed", "seedSnapshot"}
    BY <2>1 DEF Locked, T
  <2> QED
    BY <2>1, <2>3, <2>4, LogTruncated
<1>24. ASSUME NEW t \in Tasks, LoadFails(t) PROVE LogInv'
  BY <1>24, <1>a DEF LoadFails, Fault, T
<1>25. ASSUME NEW t \in Tasks, AppendFails(t) PROVE LogInv'
  <2>1. /\ pc[t] = "append" /\ entry.live /\ UNCHANGED <<crashes, entry, loaded>>
        /\ faults' = faults + 1 /\ Go(t, "release")
        /\ \A u \in Tasks : pc[u] \in Locked => u = t
    BY <1>25 DEF AppendFails, Fault, LockInv, Mutex, Locked
  <2>2. CASE UNCHANGED <<log, nextRow>>
    BY <1>a, <2>1, <2>2 DEF T
  <2>3. CASE InsertRow(t)
    <3>1. \A u \in Tasks : pc[u] # "compact" /\ pc'[u] \notin {"compact", "seed", "seedSnapshot"}
      BY <2>1 DEF Locked, T
    <3>2. Counted' = Counted /\ Counted \in Nat
      BY <2>1, <3>1, CountedRange DEF Counted, Threshold, T
    <3> QED
      BY <2>1, <2>3, <3>1, <3>2, LogGrows
  <2> QED
    BY <1>25, <2>2, <2>3 DEF AppendFails
\* The compaction that failed was due: what it counted above the threshold is the fault's.
<1>26. ASSUME NEW t \in Tasks, CompactFails(t) PROVE LogInv'
  <2>1. /\ pc[t] = "compact" /\ entry.live /\ UNCHANGED <<crashes, entry, loaded, log>>
        /\ faults' = faults + 1 /\ Go(t, "release")
        /\ \A u \in Tasks : pc[u] \in Locked => u = t
    BY <1>26 DEF CompactFails, Fault, LockInv, Mutex, Locked
  <2>2. \A u \in Tasks : pc'[u] \notin {"compact", "seed", "seedSnapshot"}
    BY <2>1 DEF Locked, T
  <2>3. Counted' \in Nat /\ Counted \in Nat /\ Counted' >= Counted - 1
    <3>1. entry.since \in Nat /\ entry' = entry /\ SnapshotEvery \in Nat \ {0}
      BY <2>1, SnapshotEveryPositive DEF T, Entries
    <3> QED
      BY <2>1, <2>2, <3>1 DEF Counted, Threshold
  <2>4. Cardinality(log') <= SnapshotEvery * crashes' + faults' + Counted'
    <3> DEFINE P == SnapshotEvery * crashes
    <3>1. P \in Nat /\ Cardinality(log) <= P + faults + Counted /\ Cardinality(log) \in Nat
      BY SnapshotEveryPositive, FS_CardinalityType DEF LogInv
    <3>2. SnapshotEvery * crashes' = P /\ log' = log
      BY <2>1
    <3> HIDE DEF P
    <3> QED
      BY <2>1, <2>3, <3>1, <3>2
  <2>5. Cardinality(Uncounted(entry)') <= faults'
    <3>1. Uncounted(entry)' = Uncounted(entry) /\ Uncounted(entry) \subseteq log
      BY <2>1 DEF Uncounted
    <3>2. Cardinality(Uncounted(entry)) \in Nat /\ Cardinality(Uncounted(entry)) <= faults
      BY <2>1, <3>1, PartOfLog DEF LogInv
    <3> QED
      BY <2>1, <3>1, <3>2
  <2> QED
    BY <2>1, <2>2, <2>4, <2>5 DEF LogInv
<1>27. ASSUME NEW t \in Tasks, FlushFails(t) PROVE LogInv'
  BY <1>27, <1>a DEF FlushFails, Fault, T
<1>28. ASSUME Evict PROVE LogInv'
  <2>1. entry.since = 0 /\ entry'.since = 0 /\ ~entry'.live
    BY <1>28 DEF Evict, NoEntry, EvictInv
  <2> QED
    BY <1>28, <1>a, <2>1 DEF Evict
<1>29. ASSUME Crash PROVE LogInv'
  <2>1. /\ log' = log /\ crashes' = crashes + 1 /\ faults' = faults /\ ~entry'.live
        /\ entry'.since = 0
        /\ \A t \in Tasks : pc'[t] = "idle"
    BY <1>29 DEF Crash, NoEntry
  <2>2. Counted \in Nat /\ Counted <= SnapshotEvery /\ Counted' = 0 /\ SnapshotEvery \in Nat
    BY <2>1, CountedRange, SnapshotEveryPositive DEF T, Counted, Threshold
  <2>3. Cardinality(log') <= SnapshotEvery * crashes' + faults' + Counted'
    <3> DEFINE P == SnapshotEvery * crashes
    <3>1. P \in Nat /\ Cardinality(log) <= P + faults + Counted /\ Cardinality(log) \in Nat
      BY SnapshotEveryPositive, FS_CardinalityType DEF LogInv
    <3>2. SnapshotEvery * crashes' = P + SnapshotEvery
      BY <2>1, <2>2
    <3> HIDE DEF P
    <3> QED
      BY <2>1, <2>2, <3>1, <3>2
  <2> QED
    BY <2>1, <2>3 DEF LogInv
<1>30. CASE UNCHANGED vars
  BY <1>30, <1>a DEF vars
<1> QED
  BY <1>1, <1>2, <1>3, <1>4, <1>5, <1>6, <1>7, <1>8, <1>9, <1>12,
     <1>13, <1>14, <1>15, <1>16, <1>17, <1>18, <1>19, <1>20, <1>21, <1>22, <1>23,
     <1>24, <1>25, <1>26, <1>27, <1>28, <1>29, <1>30
  DEF Next, Progress, Request, Failure, HandleUpdate, HandleResend, ApplyServerUpdate, NewEdit,
      Holders, Users, Tasks

-----------------------------------------------------------------------------
(* The theorems *)

\* The inductive invariant: none of its parts is inductive without the lock's, and
\* the log's bound needs all that is known of evictions.
Inv == TypeInv /\ LockInv /\ CoverInv /\ RefInv /\ EvictInv /\ LogInv

\* The invariant holds when the process first starts.
LEMMA InitInv == Init => Inv
<1> SUFFICES ASSUME Init PROVE Inv
  OBVIOUS
<1> USE DEF Init, InitTasks
<1>1. TypeInv
  <2>1. ops \in Seq([ins : SUBSET Nat, del : SUBSET Nat])
    OBVIOUS
  <2> QED
    BY <2>1, NoEntryType DEF TypeInv, TypeOK, KnownOps, Places
<1>2. LockInv /\ ~entry.live /\ entry.refcount = 0
  BY DEF LockInv, Mutex, Loading, Locked, NoEntry
<1>3. CoverInv
  BY <1>2 DEF CoverInv, MemoryCoversStore, AckedDurable
<1>4. RefInv
  <2>1. Holding = {}
    BY DEF Holding, Holders, Users, Tasks
  <2> QED
    BY <1>2, <2>1, FS_EmptySet DEF RefInv, RefcountExact
<1>5. EvictInv
  BY DEF EvictInv, NoEntry
<1>6. LogInv
  <2>1. Counted = 0 /\ SnapshotEvery * crashes = 0
    BY <1>2, SnapshotEveryPositive DEF Counted, Threshold, NoEntry
  <2> QED
    BY <1>2, <2>1, FS_EmptySet DEF LogInv
<1> QED
  BY <1>1, <1>2, <1>3, <1>4, <1>5, <1>6 DEF Inv

\* The inductive invariant holds in every reachable state.
THEOREM Invariance == Spec => []Inv
<1>1. Inv /\ [Next]_vars => Inv'
  BY TypeStep, LockStep, CoverStep, RefStep, EvictStep, LogStep DEF Inv, TypeInv
<1> QED
  BY InitInv, <1>1, PTL DEF Spec

\* Every variable keeps its type, whatever the number of tasks and the bounds.
THEOREM TypeCorrect == Spec => []TypeOK
  BY Invariance, PTL DEF Inv, TypeInv

\* The live document covers the database, so no snapshot of it can lose an edit.
THEOREM LiveDocumentCoversStore == Spec => []MemoryCoversStore
  BY Invariance, PTL DEF Inv, CoverInv

\* What handle_update has returned for relay is in the database from then on,
\* over compactions, evictions, seeds, failing calls and crashes.
THEOREM AcknowledgedIsDurable == Spec => []AckedDurable
  BY Invariance, PTL DEF Inv, CoverInv

\* The reference count is the number of coroutines between acquire and release,
\* and eviction never takes the document from under one of them.
THEOREM ReferencesAreExact == Spec => []RefcountExact
  BY Invariance, PTL DEF Inv, RefInv

\* However evictions swap the lock, one acquire at a time loads the document.
THEOREM OneLoadAtATime == Spec => []LoadsOnce
<1>1. Inv => LoadsOnce
  <2> DEFINE loading == {t \in Tasks : pc[t] \in {"load", "seed", "seedSnapshot"}}
  <2> SUFFICES ASSUME Inv PROVE LoadsOnce
    OBVIOUS
  <2>1. loading = {} \/ \E t \in Tasks : loading = {t}
    BY DEF Inv, LockInv, Mutex, Locked
  <2>2. Cardinality(loading) <= 1
    <3>1. Cardinality(loading) \in {0, 1}
      <4> HIDE DEF loading
      <4> QED
        BY <2>1, FS_EmptySet, FS_Singleton
    <3> QED
      BY <3>1
  <2>3. loading # {} => ~entry.live
    BY DEF Inv, LockInv, Loading
  <2> QED
    BY <2>2, <2>3 DEF LoadsOnce
<1> QED
  BY <1>1, Invariance, PTL

\* The log stays within the compaction threshold: a process adds at most
\* SnapshotEvery rows to what the ones before it left, a fault one more.
THEOREM LogStaysBounded == Spec => []LogBounded
<1>1. Inv => LogBounded
  <2> SUFFICES ASSUME Inv PROVE LogBounded
    OBVIOUS
  <2>1. Counted \in Nat /\ Counted <= SnapshotEvery
    BY CountedRange DEF Inv, TypeInv, TypeOK
  <2>2. Cardinality(log) <= SnapshotEvery * crashes + faults + Counted /\ Cardinality(log) \in Nat
    BY FS_CardinalityType DEF Inv, LogInv
  <2>3. SnapshotEvery * crashes \in Nat /\ faults \in Nat /\ SnapshotEvery \in Nat
        /\ SnapshotEvery * (1 + crashes) = SnapshotEvery * crashes + SnapshotEvery
    BY SnapshotEveryPositive DEF Inv, TypeInv, TypeOK
  <2> QED
    <3> DEFINE P == SnapshotEvery * crashes
    <3>1. P \in Nat /\ Cardinality(log) <= P + faults + Counted
          /\ SnapshotEvery * (1 + crashes) = P + SnapshotEvery
      BY <2>2, <2>3
    <3> HIDE DEF P
    <3>2. Cardinality(log) <= (P + SnapshotEvery) + faults
      BY <2>1, <2>2, <2>3, <3>1
    <3> QED
      BY <3>1, <3>2 DEF LogBounded
<1> QED
  BY <1>1, Invariance, PTL

\* DocumentManager keeps the promise of UpdateStore: every step stores, or
\* acknowledges what is stored, and takes nothing away.
THEOREM KeepsThePromise == Spec => ImplementsUpdateStore
<1>1. Init => Promise!Init
  BY DEF Init, Promise!Init, Recoverable
<1>2. Inv /\ [Next]_vars => [Promise!Next]_<<Recoverable, acked>>
  BY CoverStep DEF Inv, TypeInv, StoreStep, Promise!Next, Promise!Persist, Promise!Acknowledge
<1> QED
  BY <1>1, <1>2, Invariance, PTL DEF Spec, ImplementsUpdateStore, Promise!Spec
=============================================================================
