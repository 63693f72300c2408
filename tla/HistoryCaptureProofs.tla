------------------------- MODULE HistoryCaptureProofs -------------------------
(***************************************************************************)
(* Proofs about HistoryCapture: its types, that nothing captured is lost,  *)
(* and that the chunks tile the versions whatever writes run at once; then *)
(* what it shows its readers while no two writes of the document run at    *)
(* once: that versions replay the rows, that the last one catches up with  *)
(* the text, that a restore answers with its text, and that the record of  *)
(* versions is one of VersionHistory.                                      *)
(***************************************************************************)
EXTENDS HistoryCapture, FiniteSetTheorems, SequenceTheorems, WellFoundedInduction, TLAPS

-----------------------------------------------------------------------------
(* Facts about Max, Min and buffers *)

\* A finite set of numbers has a greatest one: the greatest version on record is there.
LEMMA FiniteHasMax ==
    ASSUME NEW S \in SUBSET Nat, IsFiniteSet(S), S # {}
    PROVE  \E i \in S : \A j \in S : j <= i
<1> DEFINE Above(i) == {j \in S : j > i}
           U == {Above(i) : i \in S}
<1>2. U \subseteq FiniteSubsetsOf(S) /\ U # {}
  <2>1. \A i \in S : Above(i) \in SUBSET S
    OBVIOUS
  <2>2. \A i \in S : IsFiniteSet(Above(i))
    BY <2>1, FS_Subset
  <2> QED
    BY <2>1, <2>2 DEF FiniteSubsetsOf
<1>3. PICK x \in U : \A y \in U : <<y, x>> \notin StrictSubsetOrdering(S)
  BY <1>2, FS_StrictSubsetOrderingWellFounded, WFMin
<1>4. PICK i \in S : x = Above(i)
  BY <1>3
<1>5. ASSUME NEW j \in S, j > i PROVE FALSE
  <2>1. Above(j) \subseteq x /\ Above(j) # x
    <3>1. j \in Above(i) /\ j \notin Above(j)
      BY <1>5
    <3>2. \A k \in Above(j) : k \in Above(i)
      BY <1>5
    <3> QED
      BY <1>4, <3>1, <3>2
  <2>2. <<Above(j), x>> \in StrictSubsetOrdering(S)
    BY <1>4, <2>1 DEF StrictSubsetOrdering
  <2> QED
    BY <1>3, <2>2
<1> QED
  BY <1>5

\* Max of a finite set of numbers is in it, and no number of the set is greater.
LEMMA MaxIn ==
    ASSUME NEW S \in SUBSET Nat, IsFiniteSet(S), S # {}
    PROVE  Max(S) \in S /\ \A j \in S : j <= Max(S)
<1>1. \E i \in S : \A j \in S : i >= j
  BY FiniteHasMax
<1> QED
  BY <1>1 DEF Max

\* The same of a set that 0 is added to, as MaxVersion does for a document without history.
LEMMA MaxOf ==
    ASSUME NEW S \in SUBSET Nat, IsFiniteSet(S)
    PROVE  /\ Max({0} \cup S) \in Nat /\ \A v \in S : v <= Max({0} \cup S)
           /\ Max({0} \cup S) \in {0} \cup S
<1> DEFINE Z == {0} \cup S
<1>1. Z \in SUBSET Nat /\ Z # {} /\ IsFiniteSet(Z)
  <2>1. IsFiniteSet(S \cup {0})
    BY FS_AddElement
  <2>2. S \cup {0} = Z
    OBVIOUS
  <2> QED
    BY <2>1, <2>2
<1>2. Max(Z) \in Z /\ \A j \in Z : j <= Max(Z)
  <2> HIDE DEF Z
  <2> QED
    BY <1>1, MaxIn
<1> QED
  BY <1>1, <1>2

\* A finite set of numbers has a least one: the free lock and the free CRDT are there.
LEMMA FiniteHasMin ==
    ASSUME NEW S \in SUBSET Nat, IsFiniteSet(S), S # {}
    PROVE  \E i \in S : \A j \in S : i <= j
<1> DEFINE Below(i) == {j \in S : j < i}
           U == {Below(i) : i \in S}
<1>2. U \subseteq FiniteSubsetsOf(S) /\ U # {}
  <2>1. \A i \in S : Below(i) \in SUBSET S
    OBVIOUS
  <2>2. \A i \in S : IsFiniteSet(Below(i))
    BY <2>1, FS_Subset
  <2> QED
    BY <2>1, <2>2 DEF FiniteSubsetsOf
<1>3. PICK x \in U : \A y \in U : <<y, x>> \notin StrictSubsetOrdering(S)
  BY <1>2, FS_StrictSubsetOrderingWellFounded, WFMin
<1>4. PICK i \in S : x = Below(i)
  BY <1>3
<1>5. ASSUME NEW j \in S, j < i PROVE FALSE
  <2>1. Below(j) \subseteq x /\ Below(j) # x
    <3>1. j \in Below(i) /\ j \notin Below(j)
      BY <1>5
    <3>2. \A k \in Below(j) : k \in Below(i)
      BY <1>5
    <3> QED
      BY <1>4, <3>1, <3>2
  <2>2. <<Below(j), x>> \in StrictSubsetOrdering(S)
    BY <1>4, <2>1 DEF StrictSubsetOrdering
  <2> QED
    BY <1>3, <2>2
<1> QED
  BY <1>5

\* Min of a finite set of numbers is in it.
LEMMA MinIn ==
    ASSUME NEW S \in SUBSET Nat, IsFiniteSet(S), S # {}
    PROVE  Min(S) \in S
<1>1. \E i \in S : \A j \in S : i <= j
  BY FiniteHasMin
<1> QED
  BY <1>1 DEF Min

\* With one number more than there are tasks, one is free for a task without any.
LEMMA FreeNumber ==
    ASSUME NEW f \in [Tasks -> Nat], NEW t \in Tasks, f[t] = 0, NEW x
    PROVE  /\ Min((1..Cardinality(Tasks) + 1) \ ({x} \cup {f[u] : u \in Tasks}))
                \in (1..Cardinality(Tasks) + 1) \ ({x} \cup {f[u] : u \in Tasks})
<1> DEFINE n == Cardinality(Tasks)
           Others == Tasks \ {t}
           used == {f[u] : u \in Others}
           S == (1..n + 1) \ ({x} \cup {f[u] : u \in Tasks})
<1>1. n \in Nat /\ IsFiniteSet(Others) /\ Cardinality(Others) = n - 1
  BY TasksFinite, FS_CardinalityType, FS_RemoveElement
<1>2. IsFiniteSet(used) /\ Cardinality(used) \in Nat /\ Cardinality(used) <= n - 1
  <2>1. IsFiniteSet(used) /\ Cardinality(used) <= Cardinality(Others)
    <3> DEFINE g == [u \in Others |-> f[u]]
    <3>1. g \in Surjection(Others, used)
      BY DEF Surjection
    <3> QED
      BY <1>1, <3>1, FS_Surjection
  <2> QED
    BY <1>1, <2>1, FS_CardinalityType
<1>3. IsFiniteSet(used \cup {x}) /\ Cardinality(used \cup {x}) \in Nat /\ Cardinality(used \cup {x}) <= n
  <2>1. /\ IsFiniteSet(used \cup {x})
        /\ Cardinality(used \cup {x}) = Cardinality(used) \/ Cardinality(used \cup {x}) = Cardinality(used) + 1
    BY <1>2, FS_AddElement
  <2> QED
    BY <1>1, <1>2, <2>1
<1>4. IsFiniteSet(1..n + 1) /\ Cardinality(1..n + 1) = n + 1
  <2>1. 1 \in Int /\ n + 1 \in Int /\ ~(1 > n + 1)
    BY <1>1
  <2> DEFINE m == n + 1
  <2>2. m \in Int /\ ~(1 > m) /\ m - 1 + 1 = n + 1
    BY <1>1
  <2>3. IsFiniteSet(1..m) /\ Cardinality(1..m) = m - 1 + 1
    <3> HIDE DEF m
    <3> QED
      BY <2>1, <2>2, FS_Interval
  <2> QED
    BY <2>2, <2>3
<1>5. S # {}
  <2> SUFFICES ASSUME S = {} PROVE FALSE
    OBVIOUS
  <2>1. 1..n + 1 \subseteq used \cup {x}
    <3> SUFFICES ASSUME NEW i \in 1..n + 1, i \notin used, i # x PROVE FALSE
      OBVIOUS
    <3>1. i # 0
      BY <1>1
    <3>2. \A u \in Tasks : f[u] # i
      BY <3>1
    <3> QED
      BY <3>2
  <2>2. Cardinality(1..n + 1) <= Cardinality(used \cup {x})
    BY <1>3, <2>1, FS_Subset
  <2> QED
    BY <1>1, <1>3, <1>4, <2>2
<1>6. S \in SUBSET Nat /\ IsFiniteSet(S)
  <2>1. S \subseteq 1..n + 1
    OBVIOUS
  <2> QED
    BY <1>1, <1>4, <2>1, FS_Subset
<1> QED
  BY <1>5, <1>6, MinIn

\* The greatest of a set of chunks.
LEMMA MaxChunk ==
    ASSUME NEW n \in Nat, NEW S, S \subseteq 1..n
    PROVE  /\ IsFiniteSet(S)
           /\ S # {} => Max(S) \in S /\ \A c \in S : c <= Max(S)
           /\ Max({0} \cup S) \in {0} \cup S
           /\ S # {} => Max({0} \cup S) \in S /\ \A c \in S : c <= Max({0} \cup S)
<1>1. IsFiniteSet(S) /\ S \in SUBSET Nat
  <2>1. S \in SUBSET Nat /\ \A c \in S : c <= n
    OBVIOUS
  <2> QED
    BY <2>1, FS_BoundedSetOfNaturals
<1>2. S # {} => Max(S) \in S /\ \A c \in S : c <= Max(S)
  BY <1>1, MaxIn
<1> DEFINE Z == {0} \cup S
<1>3. Z \in SUBSET Nat /\ Z # {} /\ IsFiniteSet(Z)
  <2>1. IsFiniteSet(S \cup {0})
    BY <1>1, FS_AddElement
  <2>2. S \cup {0} = Z
    OBVIOUS
  <2> QED
    BY <1>1, <2>1, <2>2
<1>4. Max(Z) \in Z /\ \A j \in Z : j <= Max(Z)
  <2> HIDE DEF Z
  <2> QED
    BY <1>3, MaxIn
<1>5. S # {} => Max(Z) \in S
  <2> SUFFICES ASSUME S # {}, Max(Z) = 0 PROVE FALSE
    BY <1>4
  <2>1. PICK c \in S : TRUE
    OBVIOUS
  <2>2. c \in 1..n /\ c <= 0
    BY <1>4, <2>1
  <2> QED
    BY <2>2
<1> QED
  BY <1>1, <1>2, <1>4, <1>5

\* The updates of a buffer are updates, and one more when one is appended.
LEMMA OpsFacts ==
    ASSUME NEW s \in Seq(Updates)
    PROVE  /\ Ops(s) \subseteq Updates
           /\ \A u \in Updates : Ops(Append(s, u)) = Ops(s) \cup {u} /\ Append(s, u) \in Seq(Updates)
           /\ Ops(<<>>) = {} /\ <<>> \in Seq(Updates)
<1>1. Ops(s) \subseteq Updates
  BY ElementOfSeq DEF Ops
<1>2. ASSUME NEW u \in Updates
      PROVE  Ops(Append(s, u)) = Ops(s) \cup {u} /\ Append(s, u) \in Seq(Updates)
  <2>1. /\ Append(s, u) \in Seq(Updates) /\ Len(Append(s, u)) = Len(s) + 1
        /\ \A i \in 1..Len(s) : Append(s, u)[i] = s[i]
        /\ Append(s, u)[Len(s) + 1] = u
    BY AppendProperties
  <2>2. DOMAIN s = 1..Len(s) /\ DOMAIN Append(s, u) = 1..Len(s) + 1 /\ Len(s) \in Nat
    BY <2>1, LenProperties
  <2>3. 1..Len(s) + 1 = (1..Len(s)) \cup {Len(s) + 1}
    BY <2>2
  <2> QED
    BY <2>1, <2>2, <2>3 DEF Ops
<1> QED
  BY <1>1, <1>2 DEF Ops

-----------------------------------------------------------------------------
(* Types *)

ChunkType == [base : Nat, end : Nat, state : SUBSET Updates, sealed : BOOLEAN]
RowType == [v : Nat, chunk : Nat, ups : SUBSET Updates]

\* What the types rest on: a task at work has an update, a CRDT and a chunk that is there.
ShapeInv ==
    /\ \A t \in Tasks : pc[t] \in {"capture", "hash"} => mine[t] \in Updates
    /\ \A t \in Tasks : rep[t] # 0 <=> pc[t] \in {"tail", "first", "commit"}
    /\ \A t \in Tasks : open[t] \in {0} \cup DOMAIN chunks
    /\ IsFiniteSet(OnRecord)

TypeInv == TypeOK /\ ShapeInv

\* The greatest version is on record, or 0 before there is any.
LEMMA RecordType ==
    ASSUME TypeInv
    PROVE  /\ OnRecord \in SUBSET Nat /\ IsFiniteSet(OnRecord)
           /\ MaxVersion \in Nat /\ (\A v \in OnRecord : v <= MaxVersion) /\ MaxVersion \in {0} \cup OnRecord
<1>1. OnRecord \in SUBSET Nat /\ IsFiniteSet(OnRecord)
  BY DEF TypeInv, TypeOK, ShapeInv, OnRecord
<1> QED
  BY <1>1, MaxOf DEF MaxVersion

\* A lock that a task enters is a lock.
LEMMA EnteringType ==
    ASSUME TypeInv, NEW t \in Tasks
    PROVE  Entering(t) \in Nat \ {0}
<1> USE DEF TypeInv, TypeOK
<1>1. lk \in [Tasks -> Nat] /\ lock \in Nat
  OBVIOUS
<1>2. CASE lk[t] = 0 /\ lock = 0
  <2>1. NewLock \in (1..Cardinality(Tasks) + 1) \ ({lock} \cup {lk[u] : u \in Tasks})
    BY <1>1, <1>2, FreeNumber DEF NewLock
  <2>2. NewLock \in Nat \ {0}
    <3>1. Cardinality(Tasks) \in Nat
      BY TasksFinite, FS_CardinalityType
    <3> QED
      BY <2>1, <3>1
  <2> QED
    BY <1>2, <2>2 DEF Entering
<1>3. CASE ~(lk[t] = 0 /\ lock = 0)
  BY <1>1, <1>3 DEF Entering
<1> QED
  BY <1>2, <1>3

\* A new CRDT is one that nobody works on.
LEMMA NewCRDTType ==
    ASSUME TypeInv, NEW t \in Tasks, rep[t] = 0
    PROVE  /\ NewCRDT \in CRDTs /\ NewCRDT # 0 /\ NewCRDT # replica
           /\ \A u \in Tasks : rep[u] # NewCRDT
<1>1. CRDTs \subseteq Nat \ {0}
  <2>1. Cardinality(Tasks) \in Nat
    BY TasksFinite, FS_CardinalityType
  <2> QED
    BY <2>1 DEF CRDTs
<1>2. rep \in [Tasks -> Nat]
  <2>1. rep \in [Tasks -> {0} \cup CRDTs]
    BY DEF TypeInv, TypeOK
  <2>2. {0} \cup CRDTs \subseteq Nat
    BY <1>1
  <2> DEFINE D == {0} \cup CRDTs
  <2>3. rep \in [Tasks -> D] /\ D \subseteq Nat
    BY <2>1, <2>2
  <2> HIDE DEF D
  <2> QED
    BY <2>3
<1>3. NewCRDT \in CRDTs \ ({replica} \cup {rep[u] : u \in Tasks})
  <2>1. /\ Min((1..Cardinality(Tasks) + 1) \ ({replica} \cup {rep[u] : u \in Tasks}))
              \in (1..Cardinality(Tasks) + 1) \ ({replica} \cup {rep[u] : u \in Tasks})
    BY <1>2, FreeNumber
  <2> QED
    BY <2>1 DEF NewCRDT, CRDTs
<1> QED
  BY <1>1, <1>3

\* The open chunk that a write reads is a chunk, if there is one.
LEMMA OpenChunk ==
    ASSUME TypeInv
    PROVE  /\ Max({0} \cup Open) \in {0} \cup DOMAIN chunks
           /\ Open # {} => Max(Open) \in Open /\ Max({0} \cup Open) \in Open
           /\ Open \subseteq DOMAIN chunks /\ DOMAIN chunks = 1..Len(chunks) /\ Len(chunks) \in Nat
<1>1. DOMAIN chunks = 1..Len(chunks) /\ Len(chunks) \in Nat
  BY LenProperties DEF TypeInv, TypeOK
<1>2. Open \subseteq 1..Len(chunks)
  BY <1>1 DEF Open
<1> QED
  BY <1>1, <1>2, MaxChunk

\* A version that is found is read from the last chunk that spans it, and shows updates.
LEMMA ReconstructType ==
    ASSUME TypeInv, NEW v \in Nat, Found(v)
    PROVE  /\ Max(Spanning(v)) \in Spanning(v) /\ \A c \in Spanning(v) : c <= Max(Spanning(v))
           /\ Reconstruct(v) \subseteq Updates
<1>1. DOMAIN chunks = 1..Len(chunks) /\ Len(chunks) \in Nat
  BY LenProperties DEF TypeInv, TypeOK
<1>2. Spanning(v) \subseteq 1..Len(chunks) /\ Spanning(v) # {}
  BY <1>1 DEF Spanning, Found
<1>3. Max(Spanning(v)) \in Spanning(v) /\ \A c \in Spanning(v) : c <= Max(Spanning(v))
  BY <1>1, <1>2, MaxChunk
<1>4. Max(Spanning(v)) \in 1..Len(chunks)
  BY <1>2, <1>3
<1>5. chunks[Max(Spanning(v))].state \subseteq Updates
  <2>1. chunks \in Seq(ChunkType)
    BY DEF TypeInv, TypeOK, ChunkType
  <2>2. chunks[Max(Spanning(v))] \in ChunkType
    BY <1>4, <2>1, ElementOfSeq
  <2> QED
    BY <2>2 DEF ChunkType
<1>6. \A r \in rows : r.ups \subseteq Updates
  BY DEF TypeInv, TypeOK
<1> QED
  BY <1>3, <1>5, <1>6 DEF Reconstruct, RowsOf

\* The callers' steps keep the types.
LEMMA CallerTypes ==
    ASSUME TypeInv, NEW t \in Tasks,
           Wait(t) \/ Join(t) \/ Answer(t) \/ Leave(t) \/ OnTimer(t) \/ StartCapture(t)
             \/ CaptureAgain(t)
    PROVE  TypeInv'
<1> USE DEF memory, read, local, store, marks, ghosts, bounds
<1>1. Updates' = Updates /\ OnRecord' = OnRecord /\ CRDTs' = CRDTs
  BY DEF Wait, Join, Answer, Leave, OnTimer, StartCapture, CaptureAgain, Updates, OnRecord, CRDTs
<1>2. Entering(t) \in Nat
  BY EnteringType
<1>3. CASE Wait(t)
  BY <1>1, <1>3 DEF TypeInv, TypeOK, ShapeInv, Wait
<1>4. CASE Join(t)
  BY <1>1, <1>4 DEF TypeInv, TypeOK, ShapeInv, Join, Places
<1>5. CASE Answer(t)
  <2>1. MaxVersion \in Nat
    BY RecordType
  <2> QED
    BY <1>1, <1>5, <2>1 DEF TypeInv, TypeOK, ShapeInv, Answer, Places
<1>6. CASE Leave(t)
  BY <1>1, <1>6 DEF TypeInv, TypeOK, ShapeInv, Leave, Places
<1>7. CASE OnTimer(t)
  <2>1. armed' \in BOOLEAN
    BY <1>7 DEF TypeInv, TypeOK, OnTimer
  <2>2. orphans' \in Nat
    BY <1>7 DEF TypeInv, TypeOK, OnTimer
  <2> QED
    BY <1>1, <1>7, <2>1, <2>2 DEF TypeInv, TypeOK, ShapeInv, OnTimer, Places
<1>8. CASE StartCapture(t)
  BY <1>1, <1>2, <1>8 DEF TypeInv, TypeOK, ShapeInv, StartCapture, Places
<1>9. CASE CaptureAgain(t)
  BY <1>1, <1>9 DEF TypeInv, TypeOK, ShapeInv, CaptureAgain, Release, Brought, Idle, Places
<1> QED
  BY <1>3, <1>4, <1>5, <1>6, <1>7, <1>8, <1>9

\* A capture keeps the types: it buffers an update that the document has applied.
LEMMA CaptureTypes ==
    ASSUME TypeInv, NEW t \in Tasks, Capture(t)
    PROVE  TypeInv'
<1> USE DEF memory, read, local, store, marks, ghosts, bounds
<1>1. Updates' = Updates /\ OnRecord' = OnRecord /\ CRDTs' = CRDTs
  BY DEF Capture, Updates, OnRecord, CRDTs
<1>2. mine[t] \in Updates /\ mine[t] \in Nat /\ buffer \in Seq(Updates)
  BY DEF TypeInv, TypeOK, ShapeInv, Capture
<1>3. Append(buffer, mine[t]) \in Seq(Updates)
  BY <1>2, AppendProperties
<1> QED
  BY <1>1, <1>2, <1>3 DEF TypeInv, TypeOK, ShapeInv, Capture, Release, Brought, AfterCapture, Idle, Places

\* The steps that begin a flush keep the types.
LEMMA FlushTypes ==
    ASSUME TypeInv, NEW t \in Tasks, FlushNothing(t) \/ Take(t)
    PROVE  TypeInv'
<1> USE DEF memory, read, local, store, marks, ghosts, bounds
<1>1. Updates' = Updates /\ OnRecord' = OnRecord /\ CRDTs' = CRDTs
  BY DEF FlushNothing, Take, Updates, OnRecord, CRDTs
<1>2. Entering(t) \in Nat
  BY EnteringType
<1>3. <<>> \in Seq(Updates) /\ Ops(buffer) \subseteq Updates
  BY OpsFacts DEF TypeInv, TypeOK
<1>4. CASE FlushNothing(t)
  <2>1. heap' \in [CRDTs -> SUBSET Updates]
    BY <1>4 DEF TypeInv, TypeOK, FlushNothing, InUse
  <2>2. bypassed' \in BOOLEAN
    BY <1>4 DEF FlushNothing
  <2>3. /\ lk' \in [Tasks -> Nat] /\ pc' \in [Tasks -> Places]
        /\ \A u \in Tasks : pc'[u] \in {"capture", "hash", "tail", "first", "commit"} <=>
                              pc[u] \in {"capture", "hash", "tail", "first", "commit"}
        /\ \A u \in Tasks : pc'[u] \in {"tail", "first", "commit"} <=> pc[u] \in {"tail", "first", "commit"}
    BY <1>4 DEF TypeInv, TypeOK, FlushNothing, Release, AfterFlush, Idle, Places
  <2>4. armed' \in BOOLEAN
    BY <1>4 DEF TypeInv, TypeOK, FlushNothing, DropState
  <2>5. orphans' \in Nat
    <3>1. (IF armed THEN 1 ELSE 0) \in Nat
      OBVIOUS
    <3> HIDE DEF Idle
    <3> QED
      BY <1>4, <3>1 DEF TypeInv, TypeOK, FlushNothing, DropState
  <2>6. buffer' \in Seq(Updates) /\ lock' \in Nat /\ last' \in Nat /\ replica' \in {0} \cup CRDTs
        /\ forgotten' \subseteq Updates
    <3>1. CASE WhenIdle(t)
      BY <1>3, <1>4, <3>1 DEF TypeInv, TypeOK, FlushNothing, DropState
    <3>2. CASE ~WhenIdle(t)
      BY <1>2, <1>4, <3>2 DEF TypeInv, TypeOK, FlushNothing
    <3> QED
      BY <3>1, <3>2
  <2>7. UNCHANGED <<made, room, mine, pend, open, end, tail, rep, base, answer, chunks, rows, captured,
                    failed, overlapped, undercut, sent, crashes, faults>>
    BY <1>4 DEF FlushNothing
  <2>8. TypeOK'
    BY <1>1, <2>1, <2>2, <2>3, <2>4, <2>5, <2>6, <2>7 DEF TypeInv, TypeOK
  <2> QED
    BY <1>1, <2>3, <2>7, <2>8, <1>4 DEF TypeInv, ShapeInv, FlushNothing, AfterFlush, Idle, TypeOK
<1>5. CASE Take(t)
  <2>1. overlapped' \in BOOLEAN
    BY <1>5 DEF Take
  <2> QED
    BY <2>1, <1>1, <1>2, <1>3, <1>5 DEF TypeInv, TypeOK, ShapeInv, Take, Places
<1> QED
  BY <1>4, <1>5

\* Types survive a new update of the document.
LEMMA GrownTypes ==
    ASSUME TypeInv, made' \in {made, made + 1},
           UNCHANGED <<buffer, pend, heap, base, chunks, rows, captured, failed, forgotten>>
    PROVE  /\ made' \in Nat /\ Updates \subseteq Updates' /\ made \in Nat
           /\ buffer' \in Seq(Updates') /\ pend' \in [Tasks -> Seq(Updates')]
           /\ heap' \in [CRDTs' -> SUBSET Updates'] /\ base' \in [Tasks -> SUBSET Updates']
           /\ chunks' \in Seq([base : Nat, end : Nat, state : SUBSET Updates', sealed : BOOLEAN])
           /\ rows' \subseteq [v : Nat, chunk : Nat, ups : SUBSET Updates']
           /\ captured' \subseteq Updates' /\ failed' \cup forgotten' \subseteq Updates'
<1>1. made' \in Nat /\ Updates \subseteq Updates' /\ made \in Nat
  BY DEF TypeInv, TypeOK, Updates
<1>2. buffer' \in Seq(Updates')
  BY <1>1, SeqMonotonic DEF TypeInv, TypeOK
<1>3. pend' \in [Tasks -> Seq(Updates')]
  <2>1. pend \in [Tasks -> Seq(Updates)]
    BY DEF TypeInv, TypeOK
  <2>2. \A t \in Tasks : pend[t] \in Seq(Updates')
    BY <1>1, <2>1, SeqMonotonic
  <2> QED
    BY <2>1, <2>2
<1>4. heap' \in [CRDTs' -> SUBSET Updates'] /\ base' \in [Tasks -> SUBSET Updates']
  <2>1. CRDTs' = CRDTs
    BY DEF CRDTs
  <2> QED
    BY <1>1, <2>1 DEF TypeInv, TypeOK
<1>5. chunks' \in Seq([base : Nat, end : Nat, state : SUBSET Updates', sealed : BOOLEAN])
  <2>1. chunks \in Seq(ChunkType)
    BY DEF TypeInv, TypeOK, ChunkType
  <2>2. ChunkType \subseteq ChunkType'
    BY <1>1 DEF ChunkType
  <2>3. chunks \in Seq(ChunkType')
    BY <2>1, <2>2, SeqMonotonic
  <2> QED
    BY <2>3 DEF ChunkType
<1>6. rows' \subseteq [v : Nat, chunk : Nat, ups : SUBSET Updates']
  BY <1>1 DEF TypeInv, TypeOK
<1>7. captured' \subseteq Updates' /\ failed' \cup forgotten' \subseteq Updates'
  BY <1>1 DEF TypeInv, TypeOK
<1> QED
  BY <1>1, <1>2, <1>3, <1>4, <1>5, <1>6, <1>7

\* Requests that apply an update keep the types.
LEMMA RequestTypes ==
    ASSUME TypeInv, NEW t \in Tasks, Apply(t) \/ Restore(t)
    PROVE  TypeInv'
<1> USE DEF memory, read, local, store, marks, ghosts, bounds
<1>1. made' \in {made, made + 1} /\ mine' \in [Tasks -> Nat] /\ (mine'[t] \in Updates' \/ mine'[t] = 0)
      /\ \A u \in Tasks : u # t => mine'[u] = mine[u]
  <2>1. made \in Nat /\ mine \in [Tasks -> Nat]
    BY DEF TypeInv, TypeOK
  <2> QED
    BY <2>1 DEF Apply, Restore, Updates
<1>2. mine'[t] \in Updates'
  <2>1. made \in Nat /\ mine \in [Tasks -> Nat]
    BY DEF TypeInv, TypeOK
  <2> QED
    BY <2>1 DEF Apply, Restore, Updates
<1>3. UNCHANGED <<buffer, pend, heap, base, chunks, rows, captured, failed, forgotten, rep, open, end,
                  tail, lk, lock, room, armed, orphans, last, replica, overlapped, bypassed, undercut,
                  crashes, faults>>
  BY DEF Apply, Restore
<1>4. sent' \in Nat
  BY SMTT(30) DEF Apply, Restore, TypeInv, TypeOK
<1>5. pc' \in [Tasks -> Places] /\ pc' = [pc EXCEPT ![t] = "capture"] /\ answer' \in [Tasks -> Nat]
      /\ pc[t] \in {"in", "out"}
  <2>1. pc' = [pc EXCEPT ![t] = "capture"] /\ pc[t] \in {"in", "out"}
    BY DEF Apply, Restore
  <2>2. answer' \in [Tasks -> Nat]
    <3>1. answer' = answer \/ answer' = [answer EXCEPT ![t] = 0]
      BY DEF Apply, Restore
    <3>2. answer \in [Tasks -> Nat]
      BY DEF TypeInv, TypeOK
    <3> QED
      BY <3>1, <3>2
  <2> QED
    BY <2>1, <2>2 DEF TypeInv, TypeOK, Places
<1>6. OnRecord' = OnRecord /\ CRDTs' = CRDTs
  BY <1>3 DEF OnRecord, CRDTs
<1>7. /\ made' \in Nat /\ Updates \subseteq Updates'
      /\ buffer' \in Seq(Updates') /\ pend' \in [Tasks -> Seq(Updates')]
      /\ heap' \in [CRDTs' -> SUBSET Updates'] /\ base' \in [Tasks -> SUBSET Updates']
      /\ chunks' \in Seq([base : Nat, end : Nat, state : SUBSET Updates', sealed : BOOLEAN])
      /\ rows' \subseteq [v : Nat, chunk : Nat, ups : SUBSET Updates']
      /\ captured' \subseteq Updates' /\ failed' \cup forgotten' \subseteq Updates'
  BY <1>1, <1>3, GrownTypes
<1>8. TypeOK'
  BY <1>1, <1>3, <1>4, <1>5, <1>6, <1>7 DEF TypeInv, TypeOK
<1>9. ShapeInv'
  BY <1>1, <1>2, <1>3, <1>5, <1>6, <1>7 DEF TypeInv, TypeOK, ShapeInv
<1> QED
  BY <1>8, <1>9 DEF TypeInv

\* The first queries of a write keep the types.
LEMMA ReadTypes ==
    ASSUME TypeInv, NEW t \in Tasks, ReadOpen(t) \/ Rebuild(t)
    PROVE  TypeInv'
<1> USE DEF memory, read, local, store, marks, ghosts, bounds
<1>1. Updates' = Updates /\ OnRecord' = OnRecord /\ CRDTs' = CRDTs
  BY DEF ReadOpen, Rebuild, Updates, OnRecord, CRDTs
<1>2. rep[t] = 0
  BY DEF TypeInv, ShapeInv, ReadOpen, Rebuild
<1>3. NewCRDT \in CRDTs /\ NewCRDT # 0
  BY <1>2, NewCRDTType
<1>4. /\ Max({0} \cup Open) \in {0} \cup DOMAIN chunks
      /\ Open # {} => Max(Open) \in DOMAIN chunks
      /\ DOMAIN chunks = 1..Len(chunks) /\ Len(chunks) \in Nat
  BY OpenChunk
<1>5. open' \in [Tasks -> Nat] /\ end' \in [Tasks -> Nat]
      /\ \A u \in Tasks : open'[u] \in {0} \cup DOMAIN chunks
  <2>1. Open # {} => chunks[Max(Open)].end \in Nat
    <3>1. chunks \in Seq(ChunkType)
      BY DEF TypeInv, TypeOK, ChunkType
    <3> SUFFICES ASSUME Open # {} PROVE chunks[Max(Open)].end \in Nat
      OBVIOUS
    <3>2. chunks[Max(Open)] \in ChunkType
      BY <1>4, <3>1, ElementOfSeq
    <3> QED
      BY <3>2 DEF ChunkType
  <2>4. open \in [Tasks -> Nat] /\ end \in [Tasks -> Nat] /\ \A u \in Tasks : open[u] \in {0} \cup DOMAIN chunks
    BY DEF TypeInv, TypeOK, ShapeInv
  <2>2. CASE ReadOpen(t)
    <3>1. /\ open' = [open EXCEPT ![t] = Max({0} \cup Open)]
          /\ end' = [end EXCEPT ![t] = IF Open = {} THEN 0 ELSE chunks[Max(Open)].end]
      BY <2>2 DEF ReadOpen
    <3>2. Max({0} \cup Open) \in Nat /\ (IF Open = {} THEN 0 ELSE chunks[Max(Open)].end) \in Nat
      BY <1>4, <2>1
    <3> QED
      BY <1>4, <2>4, <3>1, <3>2
  <2>3. CASE Rebuild(t)
    BY <2>3, <2>4 DEF Rebuild
  <2> QED
    BY <2>2, <2>3
<1>6. CASE ReadOpen(t)
  <2>1. UNCHANGED <<made, room, lock, buffer, armed, orphans, last, mine, lk, pend, tail, base,
                    answer, chunks, rows, captured, failed, forgotten, overlapped, bypassed, undercut,
                    sent, crashes, faults>>
    BY <1>6 DEF ReadOpen
  <2>2. /\ replica' \in {0} \cup CRDTs /\ rep' \in [Tasks -> {0} \cup CRDTs]
        /\ heap' \in [CRDTs -> SUBSET Updates] /\ pc' \in [Tasks -> Places]
        /\ \A u \in Tasks : rep'[u] # 0 <=> pc'[u] \in {"tail", "first", "commit"}
        /\ pc'[t] \in {"tail", "rebuild"} /\ \A u \in Tasks : u # t => pc'[u] = pc[u]
    <3>1. CASE replica # 0
      BY ZenonT(60), <1>6, <3>1 DEF TypeInv, TypeOK, ShapeInv, ReadOpen, Places
    <3>2. CASE replica = 0 /\ Open = {}
      <4>1. WorkOn(t, NewCRDT, {}) /\ pc' = [pc EXCEPT ![t] = "tail"]
        BY <1>6, <3>2 DEF ReadOpen
      <4>2. heap' \in [CRDTs -> SUBSET Updates]
        BY <4>1 DEF TypeInv, TypeOK, WorkOn, InUse
      <4> QED
        BY <1>3, <4>1, <4>2 DEF TypeInv, TypeOK, ShapeInv, WorkOn, Places
    <3>3. CASE replica = 0 /\ Open # {}
      BY <1>6, <3>3 DEF TypeInv, TypeOK, ShapeInv, ReadOpen, Places
    <3> QED
      BY <3>1, <3>2, <3>3
  <2>3. TypeOK'
    BY <1>1, <1>5, <2>1, <2>2 DEF TypeInv, TypeOK
  <2> QED
    BY <1>1, <1>5, <2>1, <2>2, <2>3 DEF TypeInv, ShapeInv
<1>7. CASE Rebuild(t)
  <2>1. Rebuilt(t) \subseteq Updates
    <3>1. end[t] \in Nat /\ Found(end[t])
      BY <1>7 DEF TypeInv, TypeOK, Rebuild
    <3> QED
      BY <3>1, ReconstructType DEF Rebuilt
  <2>2. heap' \in [CRDTs -> SUBSET Updates]
    BY <1>7, <2>1 DEF TypeInv, TypeOK, Rebuild, WorkOn, InUse
  <2>3. TypeOK'
    BY <1>1, <1>3, <1>7, <2>2 DEF TypeInv, TypeOK, Rebuild, WorkOn, Places
  <2>4. ShapeInv'
    BY <1>1, <1>3, <1>7 DEF TypeInv, TypeOK, ShapeInv, Rebuild, WorkOn
  <2> QED
    BY <2>3, <2>4 DEF TypeInv
<1> QED
  BY <1>6, <1>7

\* The steps that give the updates to the replica keep the types.
LEMMA WorkTypes ==
    ASSUME TypeInv, NEW t \in Tasks, ReadMax(t) \/ NewChunk(t)
    PROVE  TypeInv'
<1> USE DEF memory, read, local, store, marks, ghosts, bounds
<1>1. Updates' = Updates /\ OnRecord' = OnRecord /\ CRDTs' = CRDTs
  BY DEF ReadMax, NewChunk, Updates, OnRecord, CRDTs
<1>2. rep[t] \in CRDTs
  BY DEF TypeInv, TypeOK, ShapeInv, ReadMax, NewChunk
<1>3. Ops(pend[t]) \subseteq Updates
  BY OpsFacts DEF TypeInv, TypeOK
<1>4. heap \in [CRDTs -> SUBSET Updates] /\ heap[rep[t]] \subseteq Updates
      /\ Updated(t) \in [CRDTs -> SUBSET Updates]
  BY <1>2, <1>3 DEF TypeInv, TypeOK, Updated
<1>5. CASE ReadMax(t)
  <2>1. MaxVersion \in Nat
    BY RecordType
  <2>2. heap' \in [CRDTs -> SUBSET Updates]
    BY <1>4, <1>5 DEF ReadMax
  <2>3. base' \in [Tasks -> SUBSET Updates]
    BY <1>4, <1>5 DEF ReadMax, TypeInv, TypeOK
  <2>4. tail' \in [Tasks -> Nat]
    BY <1>5, <2>1 DEF ReadMax, TypeInv, TypeOK
  <2>5. pc' \in [Tasks -> Places] /\ pc[t] = "tail" /\ pc'[t] \in {"first", "commit"}
        /\ \A u \in Tasks : u # t => pc'[u] = pc[u]
    BY <1>5 DEF ReadMax, TypeInv, TypeOK, Places
  <2>6. UNCHANGED <<made, room, lock, buffer, armed, orphans, last, replica, mine, lk, pend, open,
                   end, rep, answer, store, ghosts, bounds>>
    BY <1>5 DEF ReadMax
  <2>7. TypeOK'
    BY <1>1, <2>2, <2>3, <2>4, <2>5, <2>6 DEF TypeInv, TypeOK
  <2> QED
    BY <1>1, <2>5, <2>6, <2>7 DEF TypeInv, ShapeInv
<1>6. CASE NewChunk(t)
  BY <1>1, <1>4, <1>6 DEF TypeInv, TypeOK, ShapeInv, NewChunk, Places
<1> QED
  BY <1>5, <1>6

\* The end of a write, in a transaction that committed or not.
LEMMA EndTypes ==
    ASSUME TypeInv, NEW t \in Tasks, pc[t] \in Writing, EndWrite(t), heap' = InUse(heap),
           made' = made
    PROVE  /\ lk' \in [Tasks -> Nat] /\ pend' \in [Tasks -> Seq(Updates)]
           /\ open' \in [Tasks -> Nat] /\ end' \in [Tasks -> Nat] /\ tail' \in [Tasks -> Nat]
           /\ rep' \in [Tasks -> {0} \cup CRDTs] /\ base' \in [Tasks -> SUBSET Updates]
           /\ heap' \in [CRDTs -> SUBSET Updates]
           /\ rep' = [rep EXCEPT ![t] = 0] /\ open' = [open EXCEPT ![t] = 0]
           /\ CRDTs' = CRDTs /\ Updates' = Updates
<1>1. <<>> \in Seq(Updates)
  BY EmptySeq
<1>2. heap' \in [CRDTs -> SUBSET Updates]
  BY DEF TypeInv, TypeOK, InUse
<1>3. lk' \in [Tasks -> Nat] /\ pend' \in [Tasks -> Seq(Updates)]
  BY <1>1 DEF TypeInv, TypeOK, EndWrite, Release
<1>4. open' \in [Tasks -> Nat] /\ end' \in [Tasks -> Nat] /\ tail' \in [Tasks -> Nat]
  <2>1. open \in [Tasks -> Nat] /\ end \in [Tasks -> Nat] /\ tail \in [Tasks -> Nat]
    BY DEF TypeInv, TypeOK
  <2> QED
    BY <2>1 DEF EndWrite
<1>5. rep' \in [Tasks -> {0} \cup CRDTs] /\ base' \in [Tasks -> SUBSET Updates]
  BY DEF TypeInv, TypeOK, EndWrite
<1>6. CRDTs' = CRDTs /\ Updates' = Updates
  BY DEF CRDTs, Updates
<1> QED
  BY <1>2, <1>3, <1>4, <1>5, <1>6 DEF EndWrite

\* A write that raises keeps the types.
LEMMA AbortTypes ==
    ASSUME TypeInv, NEW t \in Tasks, CommitConflict(t) \/ WriteFails(t)
    PROVE  TypeInv'
<1> USE DEF memory, read, local, store, marks, ghosts, bounds
<1>1. /\ Abort(t) /\ pc[t] \in Writing /\ faults' \in Nat
      /\ UNCHANGED <<made, room, lock, buffer, armed, orphans, last, replica, mine, answer, store,
                   captured, forgotten, marks, sent, crashes>>
  <2>1. Abort(t) /\ pc[t] \in Writing /\ (faults' = faults \/ faults' = faults + 1)
    BY DEF CommitConflict, WriteFails, Writing
  <2>2. faults' \in Nat
    BY <2>1 DEF TypeInv, TypeOK
  <2> QED
    BY <2>1, <2>2 DEF Abort
<1>2. /\ lk' \in [Tasks -> Nat] /\ pend' \in [Tasks -> Seq(Updates)]
      /\ open' \in [Tasks -> Nat] /\ end' \in [Tasks -> Nat] /\ tail' \in [Tasks -> Nat]
      /\ rep' \in [Tasks -> {0} \cup CRDTs] /\ base' \in [Tasks -> SUBSET Updates]
      /\ heap' \in [CRDTs -> SUBSET Updates]
      /\ rep' = [rep EXCEPT ![t] = 0] /\ open' = [open EXCEPT ![t] = 0]
      /\ CRDTs' = CRDTs /\ Updates' = Updates
  BY <1>1, EndTypes DEF Abort
<1>3. failed' \cup forgotten' \subseteq Updates
  <2>1. Ops(pend[t]) \subseteq Updates
    BY OpsFacts DEF TypeInv, TypeOK
  <2> QED
    BY <1>1, <2>1 DEF Abort, TypeInv, TypeOK
<1>4. pc' \in [Tasks -> Places] /\ pc'[t] \in {"closing", "out"} /\ \A u \in Tasks : u # t => pc'[u] = pc[u]
  BY <1>1 DEF Abort, TypeInv, TypeOK, Places
<1>5. TypeOK'
  BY <1>1, <1>2, <1>3, <1>4 DEF TypeInv, TypeOK
<1>6. OnRecord' = OnRecord
  BY <1>1 DEF OnRecord
<1>7. ShapeInv'
  BY <1>1, <1>2, <1>4, <1>6 DEF TypeInv, TypeOK, ShapeInv
<1> QED
  BY <1>5, <1>7 DEF TypeInv

\* What a transaction adds: a row, its chunk up to the new version, and the next chunk.
LEMMA Appended ==
    ASSUME TypeInv, NEW t \in Tasks, pc[t] = "commit", AppendVersion(t)
    PROVE  /\ rows' = rows \cup {[v |-> tail[t] + 1, chunk |-> Own(t), ups |-> Ops(pend[t])]}
           /\ [v |-> tail[t] + 1, chunk |-> Own(t), ups |-> Ops(pend[t])] \in RowType
           /\ OwnChunk(t) \in ChunkType /\ Own(t) \in 1..Len(chunks) + 1
           /\ NextBase(t) \subseteq Updates
           /\ chunks' \in Seq(ChunkType)
           /\ Len(chunks) \in Nat /\ Len(chunks') \in Nat /\ DOMAIN chunks' = 1..Len(chunks')
           /\ Len(chunks') = (IF open[t] = 0 THEN Len(chunks) + 1 ELSE Len(chunks)) + (IF Full(t) THEN 1 ELSE 0)
           /\ chunks'[Own(t)] = [OwnChunk(t) EXCEPT !.end = tail[t] + 1, !.sealed = @ \/ Full(t)]
           /\ \A c \in 1..Len(chunks) : c # Own(t) => chunks'[c] = chunks[c]
           /\ Full(t) => chunks'[Len(chunks')] = Chunk(tail[t] + 1, NextBase(t))
<1> DEFINE v == tail[t] + 1
           mark == [OwnChunk(t) EXCEPT !.end = v, !.sealed = @ \/ Full(t)]
           n == IF open[t] = 0 THEN Len(chunks) + 1 ELSE Len(chunks)
           grown == [c \in DOMAIN chunks \cup {Own(t)} |-> IF c = Own(t) THEN mark ELSE chunks[c]]
           next == Chunk(v, NextBase(t))
<1>1. v \in Nat /\ Ops(pend[t]) \subseteq Updates
  <2>1. tail \in [Tasks -> Nat] /\ pend[t] \in Seq(Updates)
    BY DEF TypeInv, TypeOK
  <2> QED
    BY <2>1, OpsFacts
<1>2. chunks \in Seq(ChunkType) /\ Len(chunks) \in Nat /\ DOMAIN chunks = 1..Len(chunks)
      /\ \A c \in 1..Len(chunks) : chunks[c] \in ChunkType
  <2>1. chunks \in Seq(ChunkType)
    BY DEF TypeInv, TypeOK, ChunkType
  <2> QED
    BY <2>1, LenProperties, ElementOfSeq
<1>3. open[t] \in {0} \cup 1..Len(chunks) /\ n \in Nat /\ Own(t) \in 1..n
      /\ DOMAIN chunks \cup {Own(t)} = 1..n
  BY <1>2 DEF TypeInv, ShapeInv, Own
<1>4. OwnChunk(t) \in ChunkType
  <2>1. tail[t] \in Nat /\ base[t] \subseteq Updates
    BY DEF TypeInv, TypeOK
  <2>2. Chunk(tail[t], base[t]) \in ChunkType
    BY <2>1 DEF Chunk, ChunkType
  <2> QED
    BY <1>2, <1>3, <2>2 DEF OwnChunk
<1>5. NextBase(t) \subseteq Updates
  <2>1. rep[t] \in CRDTs
    BY DEF TypeInv, TypeOK, ShapeInv
  <2> QED
    BY <2>1 DEF TypeInv, TypeOK, NextBase
<1>6. mark \in ChunkType
  <2>1. (OwnChunk(t).sealed \/ Full(t)) \in BOOLEAN
    OBVIOUS
  <2>2. mark = [OwnChunk(t) EXCEPT !.end = v, !.sealed = (OwnChunk(t).sealed \/ Full(t))]
    BY <1>4 DEF ChunkType
  <2> QED
    BY <1>1, <1>4, <2>1, <2>2 DEF ChunkType
<1>7. next \in ChunkType
  BY <1>1, <1>5 DEF Chunk, ChunkType
<1>8. grown \in Seq(ChunkType) /\ Len(grown) = n /\ \A c \in 1..n : grown[c] = IF c = Own(t) THEN mark ELSE chunks[c]
  <2>1. \A c \in 1..n : (IF c = Own(t) THEN mark ELSE chunks[c]) \in ChunkType
    <3> HIDE DEF mark
    <3> QED
      BY <1>2, <1>3, <1>6
  <2>2. grown \in [1..n -> ChunkType]
    BY <1>3, <2>1
  <2>3. grown \in Seq(ChunkType)
    <3> HIDE DEF grown, n
    <3> QED
      BY <1>3, <2>2, SeqDef
  <2>4. Len(grown) = n
    BY <1>3, <2>2, <2>3, LenProperties
  <2> QED
    BY <1>3, <2>3, <2>4
<1>9. rows' = rows \cup {[v |-> tail[t] + 1, chunk |-> Own(t), ups |-> Ops(pend[t])]}
      /\ chunks' = IF Full(t) THEN Append(grown, next) ELSE grown
  BY DEF AppendVersion
<1>10. chunks' \in Seq(ChunkType) /\ Len(chunks') = n + (IF Full(t) THEN 1 ELSE 0)
       /\ (\A c \in 1..n : chunks'[c] = grown[c])
       /\ (Full(t) => chunks'[Len(chunks')] = next)
  <2> HIDE DEF grown, next, n
  <2>1. CASE Full(t)
    BY <1>3, <1>7, <1>8, <1>9, <2>1, AppendProperties
  <2>2. CASE ~Full(t)
    BY <1>3, <1>8, <1>9, <2>2
  <2> QED
    BY <2>1, <2>2
<1>11. Len(chunks') \in Nat /\ DOMAIN chunks' = 1..Len(chunks')
  BY <1>10, LenProperties
<1>12. [v |-> tail[t] + 1, chunk |-> Own(t), ups |-> Ops(pend[t])] \in RowType
  BY <1>1, <1>3 DEF RowType
<1>13. Own(t) \in 1..Len(chunks) + 1
  BY <1>2, <1>3
<1>14. chunks'[Own(t)] = mark /\ \A c \in 1..Len(chunks) : c # Own(t) => chunks'[c] = chunks[c]
  <2>1. \A c \in 1..Len(chunks) : c \in 1..n
    BY <1>2
  <2> HIDE DEF grown, mark, n
  <2> QED
    BY <1>3, <1>8, <1>10, <2>1
<1> QED
  BY <1>2, <1>4, <1>5, <1>9, <1>10, <1>11, <1>12, <1>13, <1>14

\* A compaction keeps a row unless the next row of its run stays for it.
Kept(r) == chunks[r.chunk].sealed => ~MergedAway(r)
Merge(r) ==
    IF chunks[r.chunk].sealed /\ Tiny(r)
    THEN [r EXCEPT !.ups = UNION {q.ups : q \in RunOf(r)}] ELSE r

\* The rows after a compaction are the kept ones, each with at least its own updates.
LEMMA MergedFacts ==
    ASSUME TypeInv
    PROVE  /\ MergedRows \subseteq RowType
           /\ \A m \in MergedRows : \E r \in rows : Kept(r) /\ m = Merge(r)
           /\ \A r \in rows : Kept(r) => Merge(r) \in MergedRows
           /\ \A r \in rows : Merge(r) \in RowType /\ Merge(r).v = r.v /\ Merge(r).chunk = r.chunk
           /\ \A r \in rows : RunOf(r) \subseteq rows /\ r \in RunOf(r)
           /\ \A r \in rows : Merge(r).ups = IF chunks[r.chunk].sealed /\ Tiny(r)
                                              THEN UNION {q.ups : q \in RunOf(r)} ELSE r.ups
<1>1. MergedRows = {Merge(r) : r \in {r \in rows : Kept(r)}}
  BY DEF MergedRows, Merge, Kept
<1>2. \A r \in rows : r \in RowType
  BY DEF TypeInv, TypeOK, RowType
<1>3. \A r \in rows : RunOf(r) \subseteq rows /\ r \in RunOf(r)
  BY DEF RunOf, RowsOf
<1>4. \A r \in rows : UNION {q.ups : q \in RunOf(r)} \in SUBSET Updates
  BY <1>2, <1>3 DEF RowType
<1>5. ASSUME NEW r \in rows
      PROVE  /\ Merge(r) \in RowType /\ Merge(r).v = r.v /\ Merge(r).chunk = r.chunk
             /\ Merge(r).ups = IF chunks[r.chunk].sealed /\ Tiny(r)
                               THEN UNION {q.ups : q \in RunOf(r)} ELSE r.ups
  <2> DEFINE U == UNION {q.ups : q \in RunOf(r)}
  <2>1. r \in RowType /\ U \in SUBSET Updates
    BY <1>2, <1>4
  <2>2. Merge(r) = IF chunks[r.chunk].sealed /\ Tiny(r) THEN [r EXCEPT !.ups = U] ELSE r
    BY DEF Merge
  <2> HIDE DEF U
  <2>3. [r EXCEPT !.ups = U] \in RowType /\ [r EXCEPT !.ups = U].v = r.v
        /\ [r EXCEPT !.ups = U].chunk = r.chunk /\ [r EXCEPT !.ups = U].ups = U
    BY <2>1 DEF RowType
  <2>4. /\ Merge(r) \in RowType /\ Merge(r).v = r.v /\ Merge(r).chunk = r.chunk
        /\ Merge(r).ups = IF chunks[r.chunk].sealed /\ Tiny(r) THEN U ELSE r.ups
    BY <2>1, <2>2, <2>3
  <2> QED
    BY <2>4 DEF U
<1> QED
  BY <1>1, <1>3, <1>5

\* A compaction keeps the types, and adds no version.
LEMMA CompactTypes ==
    ASSUME TypeInv, Compact
    PROVE  TypeInv' /\ OnRecord' \subseteq OnRecord
<1> USE DEF memory, read, local, store, marks, ghosts, bounds
<1>1. rows' = MergedRows /\ undercut' \in BOOLEAN
      /\ UNCHANGED <<made, room, memory, local, chunks, captured, failed, forgotten, overlapped,
                     bypassed, bounds>>
  BY DEF Compact
<1>2. rows' \subseteq RowType /\ OnRecord' \subseteq OnRecord
  BY <1>1, MergedFacts DEF OnRecord
<1>3. IsFiniteSet(OnRecord')
  BY <1>2, FS_Subset DEF TypeInv, ShapeInv
<1>4. Updates' = Updates /\ CRDTs' = CRDTs
  BY <1>1 DEF Updates, CRDTs
<1>5. TypeOK'
  BY <1>1, <1>2, <1>4 DEF TypeInv, TypeOK, RowType
<1>6. ShapeInv'
  BY <1>1, <1>3, <1>4 DEF TypeInv, ShapeInv
<1> QED
  BY <1>2, <1>5, <1>6 DEF TypeInv

\* A crash keeps the types.
LEMMA CrashTypes ==
    ASSUME TypeInv, Crash
    PROVE  TypeInv'
<1> USE DEF memory, read, local, store, marks, ghosts, bounds
<1>1. Updates' = Updates /\ OnRecord' = OnRecord /\ CRDTs' = CRDTs
  BY DEF Crash, Updates, OnRecord, CRDTs
<1>2. <<>> \in Seq(Updates)
  BY EmptySeq
<1>3. failed' \subseteq Updates
  <2>1. Ops(buffer) \subseteq Updates /\ \A t \in Tasks : Ops(pend[t]) \subseteq Updates
    <3>1. buffer \in Seq(Updates) /\ \A t \in Tasks : pend[t] \in Seq(Updates)
      BY DEF TypeInv, TypeOK
    <3> QED
      BY <3>1, OpsFacts
  <2>2. failed \subseteq Updates
    BY DEF TypeInv, TypeOK
  <2> QED
    BY <2>1, <2>2 DEF Crash
<1>4. /\ open' \in [Tasks -> Nat] /\ end' \in [Tasks -> Nat] /\ tail' \in [Tasks -> Nat]
      /\ base' \in [Tasks -> SUBSET Updates] /\ rep' \in [Tasks -> {0} \cup CRDTs]
      /\ pend' \in [Tasks -> Seq(Updates)] /\ answer' \in [Tasks -> Nat] /\ mine' \in [Tasks -> Nat]
      /\ lk' \in [Tasks -> Nat] /\ pc' \in [Tasks -> Places] /\ heap' \in [CRDTs -> SUBSET Updates]
  BY <1>2 DEF Crash, Places
<1>5. UNCHANGED <<made, chunks, rows, captured, forgotten, overlapped, bypassed, undercut, sent, faults>>
      /\ crashes' \in Nat /\ lock' = 0 /\ last' = 0 /\ replica' = 0 /\ orphans' = 0 /\ room' = {}
      /\ armed' = FALSE /\ buffer' = <<>>
  BY DEF Crash, TypeInv, TypeOK
<1>6. TypeOK'
  BY <1>1, <1>2, <1>3, <1>4, <1>5 DEF TypeInv, TypeOK
<1>7. ShapeInv'
  BY <1>1, <1>5 DEF Crash, TypeInv, ShapeInv
<1> QED
  BY <1>6, <1>7 DEF TypeInv

\* A commit keeps the types, and adds the version after the one it has read.
LEMMA CommitTypes ==
    ASSUME TypeInv, NEW t \in Tasks, Commit(t)
    PROVE  TypeInv' /\ OnRecord' = OnRecord \cup {tail[t] + 1}
<1> USE DEF memory, read, local, store, marks, ghosts, bounds
<1>1. /\ pc[t] = "commit" /\ AppendVersion(t) /\ EndWrite(t) /\ heap' = InUse(heap)
      /\ UNCHANGED <<made, room, mine, answer, captured, failed, marks, bounds>>
      /\ pc' = [pc EXCEPT ![t] = AfterFlush(t)]
  BY DEF Commit
<1>2. pc[t] \in Writing
  BY <1>1 DEF Writing
<1>3. /\ rows' = rows \cup {[v |-> tail[t] + 1, chunk |-> Own(t), ups |-> Ops(pend[t])]}
      /\ [v |-> tail[t] + 1, chunk |-> Own(t), ups |-> Ops(pend[t])] \in RowType
      /\ chunks' \in Seq(ChunkType)
      /\ Len(chunks) \in Nat /\ Len(chunks') \in Nat /\ DOMAIN chunks' = 1..Len(chunks')
      /\ Len(chunks') = (IF open[t] = 0 THEN Len(chunks) + 1 ELSE Len(chunks)) + (IF Full(t) THEN 1 ELSE 0)
  BY <1>1, Appended
<1>4. DOMAIN chunks = 1..Len(chunks) /\ DOMAIN chunks \subseteq DOMAIN chunks'
  <2>1. DOMAIN chunks = 1..Len(chunks)
    BY LenProperties DEF TypeInv, TypeOK
  <2>2. Len(chunks) \in Nat /\ Len(chunks') \in Nat /\ Len(chunks) <= Len(chunks')
    <3> DEFINE n == Len(chunks)
               m == Len(chunks')
               a == IF Full(t) THEN 1 ELSE 0
               b == IF open[t] = 0 THEN n + 1 ELSE n
    <3>1. n \in Nat /\ m \in Nat /\ m = b + a
      BY <1>3
    <3>2. a \in Nat /\ b \in Nat /\ n <= b
      <4> HIDE DEF n
      <4> QED
        BY <3>1
    <3>3. n <= m
      <4> HIDE DEF n, m, a, b
      <4> QED
        BY <3>1, <3>2
    <3> QED
      BY <3>1, <3>3
  <2>3. DOMAIN chunks' = 1..Len(chunks')
    BY <1>3
  <2> QED
    BY <2>1, <2>2, <2>3
<1>5. /\ lk' \in [Tasks -> Nat] /\ pend' \in [Tasks -> Seq(Updates)]
      /\ open' \in [Tasks -> Nat] /\ end' \in [Tasks -> Nat] /\ tail' \in [Tasks -> Nat]
      /\ rep' \in [Tasks -> {0} \cup CRDTs] /\ base' \in [Tasks -> SUBSET Updates]
      /\ heap' \in [CRDTs -> SUBSET Updates]
      /\ rep' = [rep EXCEPT ![t] = 0] /\ open' = [open EXCEPT ![t] = 0]
      /\ CRDTs' = CRDTs /\ Updates' = Updates
  BY <1>1, <1>2, EndTypes
<1>6. pc' \in [Tasks -> Places] /\ pc'[t] \in {"answer", "in", "out"} /\ \A u \in Tasks : u # t => pc'[u] = pc[u]
  BY <1>1 DEF TypeInv, TypeOK, AfterFlush, Idle, Places
<1>7. /\ lock' \in Nat /\ buffer' \in Seq(Updates) /\ last' \in Nat /\ replica' \in {0} \cup CRDTs
      /\ armed' \in BOOLEAN /\ orphans' \in Nat /\ forgotten' \subseteq Updates
  <2>1. CASE WhenIdle(t)
    <3>1. DropState
      BY <2>1 DEF Commit
    <3>2. <<>> \in Seq(Updates) /\ Ops(buffer) \subseteq Updates
      BY OpsFacts DEF TypeInv, TypeOK
    <3>3. orphans' \in Nat
      <4>1. (IF armed THEN 1 ELSE 0) \in Nat
        OBVIOUS
      <4> QED
        BY <3>1, <4>1 DEF TypeInv, TypeOK, DropState
    <3> QED
      BY <3>1, <3>2, <3>3 DEF TypeInv, TypeOK, DropState
  <2>2. CASE ~WhenIdle(t)
    <3>1. UNCHANGED <<lock, buffer, armed, orphans, last, replica, forgotten>>
      BY <2>2 DEF Commit
    <3> QED
      BY <3>1 DEF TypeInv, TypeOK
  <2> QED
    BY <2>1, <2>2
<1>8. TypeOK'
  <2>1. rows' \subseteq [v : Nat, chunk : Nat, ups : SUBSET Updates]
        /\ chunks' \in Seq([base : Nat, end : Nat, state : SUBSET Updates, sealed : BOOLEAN])
    BY <1>3 DEF TypeInv, TypeOK, RowType, ChunkType
  <2> QED
    BY <1>1, <1>5, <1>6, <1>7, <2>1 DEF TypeInv, TypeOK
<1>9. OnRecord' = OnRecord \cup {tail[t] + 1}
  BY <1>3 DEF OnRecord
<1>10. IsFiniteSet(OnRecord')
  BY <1>9, FS_AddElement DEF TypeInv, ShapeInv
<1>11. ShapeInv'
  BY <1>1, <1>4, <1>5, <1>6, <1>10 DEF TypeInv, TypeOK, ShapeInv
<1> QED
  BY <1>8, <1>9, <1>11 DEF TypeInv

\* Every step keeps the types.
LEMMA TypeStep ==
    ASSUME TypeInv, [Next]_vars
    PROVE  TypeInv'
<1>1. CASE UNCHANGED vars
  BY <1>1 DEF TypeInv, TypeOK, ShapeInv, OnRecord, CRDTs, Updates, vars, memory, read, local, store, marks,
     ghosts, bounds
<1>2. ASSUME NEW t \in Tasks, Progress(t) \/ Request(t) \/ WriteFails(t)
      PROVE  TypeInv'
  BY <1>2, CallerTypes, CaptureTypes, FlushTypes, RequestTypes, ReadTypes, WorkTypes, AbortTypes, CommitTypes
     DEF Progress, Request
<1> QED
  BY <1>1, <1>2, CompactTypes, CrashTypes DEF Next

\* The initial state has the types.
LEMMA TypeInit ==
    ASSUME Init
    PROVE  TypeInv
<1>1. <<>> \in Seq(Updates) /\ <<>> \in Seq([base : Nat, end : Nat, state : SUBSET Updates, sealed : BOOLEAN])
  BY EmptySeq
<1>2. OnRecord = {} /\ IsFiniteSet(OnRecord)
  BY FS_EmptySet DEF Init, OnRecord
<1>3. TypeOK
  <2>1. buffer \in Seq(Updates) /\ pend \in [Tasks -> Seq(Updates)]
        /\ chunks \in Seq([base : Nat, end : Nat, state : SUBSET Updates, sealed : BOOLEAN])
    BY <1>1 DEF Init
  <2>2. pc \in [Tasks -> Places] /\ heap \in [CRDTs -> SUBSET Updates] /\ base \in [Tasks -> SUBSET Updates]
    BY DEF Init, Places
  <2>3. /\ mine \in [Tasks -> Nat] /\ lk \in [Tasks -> Nat] /\ open \in [Tasks -> Nat] /\ end \in [Tasks -> Nat]
        /\ tail \in [Tasks -> Nat] /\ answer \in [Tasks -> Nat] /\ rep \in [Tasks -> {0} \cup CRDTs]
    BY DEF Init
  <2>4. made \in Nat /\ room \subseteq Conns /\ lock \in Nat /\ armed \in BOOLEAN /\ orphans \in Nat
        /\ last \in Nat /\ replica \in {0} \cup CRDTs /\ {sent, crashes, faults} \subseteq Nat
    <3>1. /\ made = 0 /\ room = {} /\ lock = 0 /\ armed = FALSE /\ orphans = 0 /\ last = 0 /\ replica = 0
          /\ sent = 0 /\ crashes = 0 /\ faults = 0
      BY DEF Init
    <3>2. armed \in BOOLEAN
      BY <3>1
    <3>3. /\ made \in Nat /\ room \subseteq Conns /\ lock \in Nat /\ orphans \in Nat /\ last \in Nat
          /\ replica \in {0} \cup CRDTs /\ {sent, crashes, faults} \subseteq Nat
      BY <3>1
    <3> QED
      BY <3>2, <3>3
  <2>5. /\ rows \subseteq [v : Nat, chunk : Nat, ups : SUBSET Updates] /\ captured \subseteq Updates
        /\ failed \cup forgotten \subseteq Updates /\ {overlapped, bypassed, undercut} \subseteq BOOLEAN
    BY DEF Init
  <2>6. {open, end, tail} \subseteq [Tasks -> Nat]
    BY <2>3
  <2> QED
    BY <2>1, <2>2, <2>3, <2>4, <2>5, <2>6 DEF TypeOK
<1>4. ShapeInv
  BY <1>2 DEF Init, ShapeInv
<1> QED
  BY <1>3, <1>4 DEF TypeInv

\* TypeOK.
THEOREM TypeCorrect == Spec => []TypeOK
<1>1. Spec => []TypeInv
  BY TypeInit, TypeStep, PTL DEF Spec
<1> QED
  BY <1>1, PTL DEF TypeInv

-----------------------------------------------------------------------------
(* What is captured is kept *)

\* No two rows have the same version: the constraint of the table.
OneRow == \A r, q \in rows : r.v = q.v => r = q

\* A task has updates in hand only while it writes.
InHand == \A t \in Tasks : pend[t] # <<>> => pc[t] \in Writing

\* Some rows have a last one and a first one.
LEMMA LastAndFirst ==
    ASSUME TypeInv, NEW S, S \subseteq rows, S # {}
    PROVE  /\ \E q \in S : \A p \in S : p.v <= q.v
           /\ \E q \in S : \A p \in S : q.v <= p.v
<1> DEFINE V == {q.v : q \in S}
<1>1. V \subseteq OnRecord
  BY DEF OnRecord
<1>2. V \in SUBSET Nat /\ V # {}
  BY DEF TypeInv, TypeOK
<1>3. IsFiniteSet(V)
  <2> HIDE DEF V
  <2> QED
    BY <1>1, FS_Subset DEF TypeInv, ShapeInv
<1>4. (\E i \in V : \A j \in V : j <= i) /\ (\E i \in V : \A j \in V : i <= j)
  <2> HIDE DEF V
  <2> QED
    BY <1>2, <1>3, FiniteHasMax, FiniteHasMin
<1>5. PICK i \in V : \A j \in V : j <= i
  BY <1>4
<1>6. PICK k \in V : \A j \in V : k <= j
  BY <1>4
<1> QED
  BY <1>5, <1>6

\* The row that stays for a row: of its chunk, not before it, and the first of
\* those that are kept.
LEMMA StaysFor ==
    ASSUME TypeInv, OneRow, NEW r \in rows
    PROVE  \E q \in rows :
             /\ Kept(q) /\ q.chunk = r.chunk /\ r.v <= q.v /\ r.ups \subseteq Merge(q).ups
             /\ \A w \in rows : w.chunk = r.chunk /\ Kept(w) /\ r.v <= w.v => q.v <= w.v
<1>1. \A p \in rows : p.v \in Nat
  BY DEF TypeInv, TypeOK
<1>2. CASE Kept(r)
  <2>1. r.ups \subseteq Merge(r).ups
    <3>1. r \in RunOf(r)
      BY DEF RunOf
    <3>2. Merge(r).ups = IF chunks[r.chunk].sealed /\ Tiny(r) THEN UNION {q.ups : q \in RunOf(r)} ELSE r.ups
      BY MergedFacts
    <3> QED
      BY <3>1, <3>2
  <2> QED
    BY <1>1, <1>2, <2>1
<1>3. CASE ~Kept(r)
  <2>1. chunks[r.chunk].sealed /\ Tiny(r)
    BY <1>3 DEF Kept, MergedAway
  <2> DEFINE C == {q \in RowsOf(r.chunk) : r.v <= q.v /\ \A p \in Between(r, q) \cup {r} : Tiny(p)}
  <2>2. r \in C /\ C \subseteq rows
    BY <1>1, <2>1 DEF RowsOf, Between
  <2>3. PICK q \in C : \A p \in C : p.v <= q.v
    <3> HIDE DEF C
    <3> QED
      BY <2>2, LastAndFirst
  <2>4. q \in rows /\ q.chunk = r.chunk /\ r.v <= q.v /\ \A p \in Between(r, q) \cup {r} : Tiny(p)
    BY <2>3 DEF RowsOf
  <2>5. Tiny(q)
    <3>1. CASE q.v = r.v
      BY <2>1, <2>4, <3>1 DEF OneRow
    <3>2. CASE r.v < q.v
      BY <1>1, <2>4, <3>2 DEF Between, RowsOf
    <3> QED
      BY <1>1, <2>4, <3>1, <3>2
  <2>6. ~NextIsTiny(q)
    <3> SUFFICES ASSUME NEW p \in RowsOf(q.chunk), Tiny(p), Between(q, p) = {p} PROVE FALSE
      BY DEF NextIsTiny
    <3>1. p \in rows /\ p.chunk = r.chunk /\ q.v < p.v
      BY <2>4 DEF Between, RowsOf
    <3>2. ASSUME NEW x \in Between(r, p) PROVE Tiny(x)
      <4>1. x \in rows /\ x.chunk = r.chunk /\ r.v < x.v /\ x.v <= p.v
        BY <3>2 DEF Between, RowsOf
      <4>2. CASE x.v <= q.v
        BY <2>4, <4>1, <4>2 DEF Between, RowsOf
      <4>3. CASE q.v < x.v
        <5>1. x \in Between(q, p)
          BY <2>4, <4>1, <4>3 DEF Between, RowsOf
        <5> QED
          BY <5>1
      <4> QED
        BY <1>1, <2>4, <4>1, <4>2, <4>3
    <3>3. p \in C
      BY <1>1, <2>1, <2>4, <3>1, <3>2 DEF RowsOf
    <3> QED
      BY <1>1, <2>3, <2>4, <3>1, <3>3
  <2>7. Kept(q)
    BY <2>6 DEF Kept, MergedAway
  <2>8. r \in RunOf(q)
    <3>1. CASE q.v = r.v
      BY <2>4, <3>1 DEF OneRow, RunOf
    <3>2. CASE r.v < q.v
      <4>1. r \in RowsOf(q.chunk)
        BY <2>4 DEF RowsOf
      <4> QED
        BY <2>4, <3>2, <4>1 DEF RunOf
    <3> QED
      BY <1>1, <2>4, <3>1, <3>2
  <2>9. r.ups \subseteq Merge(q).ups
    BY <2>1, <2>4, <2>5, <2>8, MergedFacts
  <2>10. ASSUME NEW w \in rows, w.chunk = r.chunk, Kept(w), r.v <= w.v, w.v < q.v
         PROVE  FALSE
    <3>1. Tiny(w)
      <4>1. CASE w.v = r.v
        BY <2>1, <4>1 DEF OneRow
      <4>2. CASE r.v < w.v
        BY <1>1, <2>4, <2>10, <4>2 DEF Between, RowsOf
      <4> QED
        BY <1>1, <2>10, <4>1, <4>2
    <3> DEFINE D == Between(w, q)
    <3>2. q \in D /\ D \subseteq rows
      BY <1>1, <2>4, <2>10 DEF Between, RowsOf
    <3>3. PICK x \in D : \A p \in D : x.v <= p.v
      <4> HIDE DEF D
      <4> QED
        BY <3>2, LastAndFirst
    <3>4. x \in rows /\ x.chunk = r.chunk /\ w.v < x.v /\ x.v <= q.v
      BY <2>10, <3>3 DEF Between, RowsOf
    <3>5. Tiny(x)
      <4>1. x \in Between(r, q)
        BY <1>1, <2>10, <3>4, <2>4 DEF Between, RowsOf
      <4> QED
        BY <2>4, <4>1
    <3>6. Between(w, x) = {x}
      <4>1. x \in Between(w, x)
        BY <1>1, <2>10, <3>4 DEF Between, RowsOf
      <4>2. ASSUME NEW y \in Between(w, x) PROVE y = x
        <5>1. y \in rows /\ y.chunk = w.chunk /\ w.v < y.v /\ y.v <= x.v
          BY <4>2 DEF Between, RowsOf
        <5>2. y \in D
          BY <1>1, <2>4, <3>4, <5>1 DEF Between, RowsOf
        <5>3. y.v = x.v
          BY <1>1, <3>3, <3>4, <5>1, <5>2
        <5> QED
          BY <3>4, <5>1, <5>3 DEF OneRow
      <4> QED
        BY <4>1, <4>2
    <3>7. NextIsTiny(w)
      BY <2>10, <3>4, <3>5, <3>6 DEF NextIsTiny, RowsOf
    <3> QED
      BY <2>1, <2>10, <3>1, <3>7 DEF Kept, MergedAway
  <2> QED
    BY <1>1, <2>4, <2>7, <2>9, <2>10
<1> QED
  BY <1>2, <1>3

\* What a kept row takes over comes from rows of its chunk up to it.
LEMMA TakenOver ==
    ASSUME TypeInv, NEW q \in rows
    PROVE  \A u \in Merge(q).ups : \E r \in rows : r.chunk = q.chunk /\ r.v <= q.v /\ u \in r.ups
<1>1. q.v \in Nat
  BY DEF TypeInv, TypeOK
<1>2. ASSUME NEW r \in RunOf(q) PROVE r \in rows /\ r.chunk = q.chunk /\ r.v <= q.v
  <2>1. r = q \/ (r \in RowsOf(q.chunk) /\ r.v < q.v)
    BY DEF RunOf
  <2>2. r \in rows /\ r.chunk = q.chunk
    BY <2>1 DEF RowsOf
  <2>3. r.v \in Nat
    BY <2>2 DEF TypeInv, TypeOK
  <2> QED
    BY <1>1, <2>1, <2>2, <2>3
<1>3. Merge(q).ups = IF chunks[q.chunk].sealed /\ Tiny(q) THEN UNION {p.ups : p \in RunOf(q)} ELSE q.ups
  BY MergedFacts
<1> QED
  BY <1>1, <1>2, <1>3

\* A compaction loses no update, and numbers no two rows alike.
LEMMA CompactKeeps ==
    ASSUME TypeInv, OneRow, Compact
    PROVE  Stored' = Stored /\ OneRow'
<1>1. rows' = MergedRows
  BY DEF Compact
<1>2. Stored \subseteq Stored'
  <2> SUFFICES ASSUME NEW r \in rows, NEW u \in r.ups PROVE u \in Stored'
    BY DEF Stored
  <2>1. PICK q \in rows : Kept(q) /\ r.ups \subseteq Merge(q).ups
    BY StaysFor
  <2>2. Merge(q) \in rows'
    BY <1>1, <2>1, MergedFacts
  <2> QED
    BY <2>1, <2>2 DEF Stored
<1>3. Stored' \subseteq Stored
  <2> SUFFICES ASSUME NEW m \in rows', NEW u \in m.ups PROVE u \in Stored
    BY DEF Stored
  <2>1. PICK r \in rows : m = Merge(r)
    BY <1>1, MergedFacts
  <2> QED
    BY <2>1, TakenOver DEF Stored
<1>4. OneRow'
  <2> SUFFICES ASSUME NEW m \in rows', NEW n \in rows', m.v = n.v PROVE m = n
    BY DEF OneRow
  <2>1. PICK r \in rows : m = Merge(r)
    BY <1>1, MergedFacts
  <2>2. PICK q \in rows : n = Merge(q)
    BY <1>1, MergedFacts
  <2>3. r.v = q.v
    BY <2>1, <2>2, MergedFacts
  <2> QED
    BY <2>1, <2>2, <2>3 DEF OneRow
<1> QED
  BY <1>2, <1>3, <1>4

KeptInv == OneRow /\ InHand /\ CapturedKept

\* Steps that touch neither the updates on their way nor the rows.
LEMMA CalmKeeps ==
    ASSUME KeptInv, UNCHANGED <<buffer, pend, captured, failed, forgotten, rows>>,
           \A t \in Tasks : pc[t] \in Writing => pc'[t] \in Writing
    PROVE  KeptInv'
BY DEF KeptInv, OneRow, InHand, CapturedKept, Stored, Pending, Ops

\* The callers and the reads of a write lose nothing.
LEMMA CallersKeep ==
    ASSUME TypeInv, KeptInv, NEW t \in Tasks,
           \/ Wait(t) \/ Join(t) \/ Apply(t) \/ Restore(t) \/ Answer(t) \/ Leave(t) \/ OnTimer(t)
           \/ StartCapture(t) \/ CaptureAgain(t) \/ ReadOpen(t) \/ Rebuild(t) \/ ReadMax(t) \/ NewChunk(t)
    PROVE  KeptInv'
<1> USE DEF memory, read, local, store, marks, ghosts, bounds
<1>1. UNCHANGED <<buffer, pend, captured, failed, forgotten, rows>>
  BY DEF Wait, Join, Apply, Restore, Answer, Leave, OnTimer, StartCapture, CaptureAgain, ReadOpen, Rebuild,
     ReadMax, NewChunk, WorkOn
<1>2. pc' = pc \/ \E p \in Places : pc' = [pc EXCEPT ![t] = p] /\ (pc[t] \in Writing => p \in Writing)
  BY DEF Wait, Join, Apply, Restore, Answer, Leave, OnTimer, StartCapture, CaptureAgain, ReadOpen, Rebuild,
     ReadMax, NewChunk, Writing, Places, Idle
<1>3. \A u \in Tasks : pc[u] \in Writing => pc'[u] \in Writing
  BY <1>2 DEF TypeInv, TypeOK
<1> QED
  BY <1>1, <1>3, CalmKeeps

\* A capture puts its update into the buffer.
LEMMA CaptureKeeps ==
    ASSUME TypeInv, KeptInv, NEW t \in Tasks, Capture(t)
    PROVE  KeptInv'
<1> USE DEF memory, read, local, store, marks, ghosts, bounds
<1>1. UNCHANGED <<pend, failed, forgotten, rows>> /\ captured' = captured \cup {mine[t]}
      /\ buffer' = Append(buffer, mine[t]) /\ pc[t] = "hash" /\ pc' = [pc EXCEPT ![t] = AfterCapture(t)]
  BY DEF Capture
<1>2. Ops(buffer') = Ops(buffer) \cup {mine[t]}
  <2>1. mine[t] \in Updates /\ buffer \in Seq(Updates)
    BY <1>1 DEF TypeInv, TypeOK, ShapeInv
  <2> QED
    BY <1>1, <2>1, OpsFacts
<1>3. Pending' = Pending \cup {mine[t]}
  <2>1. \A u \in Tasks : Ops(pend[u])' = Ops(pend[u])
    BY <1>1 DEF Ops
  <2>2. Ops(buffer)' = Ops(buffer')
    BY DEF Ops
  <2> QED
    BY <1>1, <1>2, <2>1, <2>2 DEF Pending
<1>4. CapturedKept'
  BY <1>1, <1>3 DEF KeptInv, CapturedKept, Stored
<1>5. \A u \in Tasks : pc[u] \in Writing => pc'[u] \in Writing
  BY <1>1 DEF TypeInv, TypeOK, Writing
<1> QED
  BY <1>1, <1>4, <1>5 DEF KeptInv, OneRow, InHand

\* A flush takes the buffer in hand, or forgets what it pops.
LEMMA FlushKeeps ==
    ASSUME TypeInv, KeptInv, NEW t \in Tasks, FlushNothing(t) \/ Take(t)
    PROVE  KeptInv'
<1> USE DEF memory, read, local, store, marks, ghosts, bounds
<1>1. pc[t] = "flush" /\ UNCHANGED <<captured, failed, rows>>
  BY DEF FlushNothing, Take
<1>2. pend[t] = <<>>
  BY <1>1 DEF KeptInv, InHand, Writing
<1>3. CASE FlushNothing(t)
  <2>1. buffer' = buffer /\ pend' = pend /\ forgotten \subseteq forgotten'
    BY <1>3 DEF FlushNothing, DropState
  <2>2. CapturedKept'
    BY <1>1, <2>1 DEF KeptInv, CapturedKept, Stored, Pending, Ops
  <2>3. \A u \in Tasks : pc[u] \in Writing => pc'[u] \in Writing
    BY <1>1, <1>3 DEF FlushNothing, TypeInv, TypeOK, Writing
  <2> QED
    BY <1>1, <2>1, <2>2, <2>3 DEF KeptInv, OneRow, InHand
<1>4. CASE Take(t)
  <2>1. pend' = [pend EXCEPT ![t] = buffer] /\ buffer' = <<>> /\ forgotten' = forgotten
        /\ pc' = [pc EXCEPT ![t] = "write"]
    BY <1>4 DEF Take
  <2>2. Pending \subseteq Pending'
    <3>1. pend \in [Tasks -> Seq(Updates)]
      BY DEF TypeInv, TypeOK
    <3>2. pend'[t] = buffer /\ \A u \in Tasks : u # t => pend'[u] = pend[u]
      BY <2>1, <3>1
    <3>3. Ops(pend[t]) = {}
      BY <1>2 DEF Ops
    <3>4. Ops(pend[t])' = Ops(buffer) /\ \A u \in Tasks : u # t => Ops(pend[u])' = Ops(pend[u])
      BY <3>2 DEF Ops
    <3> QED
      BY <3>3, <3>4 DEF Pending
  <2>3. CapturedKept'
    BY <1>1, <2>1, <2>2 DEF KeptInv, CapturedKept, Stored
  <2>4. InHand'
    BY <2>1 DEF KeptInv, InHand, TypeInv, TypeOK, Writing
  <2> QED
    BY <1>1, <2>3, <2>4 DEF KeptInv, OneRow
<1> QED
  BY <1>3, <1>4

\* What a write had in hand goes elsewhere when it ends; the rest stays where it is.
LEMMA EndKeeps ==
    ASSUME TypeInv, NEW t \in Tasks, pend' = [pend EXCEPT ![t] = <<>>]
    PROVE  /\ \A u \in Tasks : u # t => Ops(pend[u])' = Ops(pend[u])
           /\ \A u \in Tasks : pend'[u] # <<>> => u # t /\ pend'[u] = pend[u]
<1>1. pend \in [Tasks -> Seq(Updates)]
  BY DEF TypeInv, TypeOK
<1>2. pend'[t] = <<>> /\ \A u \in Tasks : u # t => pend'[u] = pend[u]
  BY <1>1
<1> QED
  BY <1>2 DEF Ops

\* A write that raises loses what it had in hand, and says so.
LEMMA AbortKeeps ==
    ASSUME TypeInv, KeptInv, NEW t \in Tasks, CommitConflict(t) \/ WriteFails(t)
    PROVE  KeptInv'
<1> USE DEF memory, read, local, store, marks, ghosts, bounds
<1>1. /\ failed' = failed \cup Ops(pend[t]) /\ UNCHANGED <<buffer, rows, captured, forgotten>>
      /\ pend' = [pend EXCEPT ![t] = <<>>]
      /\ pc' = [pc EXCEPT ![t] = IF t \in room THEN "closing" ELSE "out"]
  BY DEF CommitConflict, WriteFails, Abort, EndWrite
<1>2. /\ \A u \in Tasks : u # t => Ops(pend[u])' = Ops(pend[u])
      /\ \A u \in Tasks : pend'[u] # <<>> => u # t /\ pend'[u] = pend[u]
  BY <1>1, EndKeeps
<1>3. Pending \subseteq Pending' \cup Ops(pend[t])
  BY <1>1, <1>2 DEF Pending, Ops
<1>4. CapturedKept'
  BY <1>1, <1>3 DEF KeptInv, CapturedKept, Stored
<1>5. InHand'
  BY <1>1, <1>2 DEF KeptInv, InHand, TypeInv, TypeOK
<1> QED
  BY <1>1, <1>4, <1>5 DEF KeptInv, OneRow

\* A commit moves what the task had in hand to a row.
LEMMA CommitKeeps ==
    ASSUME TypeInv, KeptInv, NEW t \in Tasks, Commit(t)
    PROVE  KeptInv'
<1> USE DEF memory, read, local, store, marks, ghosts, bounds
<1> DEFINE new == [v |-> tail[t] + 1, chunk |-> Own(t), ups |-> Ops(pend[t])]
<1>1. /\ rows' = rows \cup {new} /\ UNCHANGED <<captured, failed>>
      /\ pend' = [pend EXCEPT ![t] = <<>>] /\ pc[t] = "commit"
      /\ pc' = [pc EXCEPT ![t] = AfterFlush(t)] /\ ~Conflict(t)
  BY DEF Commit, EndWrite, AppendVersion
<1>2. /\ \A u \in Tasks : u # t => Ops(pend[u])' = Ops(pend[u])
      /\ \A u \in Tasks : pend'[u] # <<>> => u # t /\ pend'[u] = pend[u]
  BY <1>1, EndKeeps
<1>3. /\ buffer' = buffer /\ forgotten' = forgotten
      \/ forgotten' = forgotten \cup Ops(buffer)
  BY DEF Commit, DropState
<1>4. Ops(buffer) \subseteq Ops(buffer)' \cup forgotten' /\ forgotten \subseteq forgotten'
  BY <1>3 DEF Ops
<1>5. Pending \subseteq Pending' \cup Ops(pend[t]) \cup forgotten'
  BY <1>2, <1>4 DEF Pending
<1>6. Stored \cup Ops(pend[t]) \subseteq Stored'
  <2>1. new \in rows' /\ new.ups = Ops(pend[t]) /\ rows \subseteq rows'
    BY <1>1
  <2> HIDE DEF new
  <2> QED
    BY <2>1 DEF Stored
<1>7. CapturedKept'
  BY <1>1, <1>4, <1>5, <1>6 DEF KeptInv, CapturedKept
<1>8. OneRow'
  <2>1. \A r \in rows : r.v # new.v
    BY <1>1 DEF Conflict
  <2> HIDE DEF new
  <2> QED
    BY <1>1, <2>1 DEF KeptInv, OneRow
<1>9. InHand'
  BY <1>1, <1>2 DEF KeptInv, InHand, TypeInv, TypeOK
<1> QED
  BY <1>7, <1>8, <1>9 DEF KeptInv

\* A crash loses what was in memory, and nothing else.
LEMMA CrashKeeps ==
    ASSUME TypeInv, KeptInv, Crash
    PROVE  KeptInv'
<1> USE DEF memory, read, local, store, marks, ghosts, bounds
<1>1. /\ UNCHANGED <<rows, captured, forgotten>> /\ pend' = [t \in Tasks |-> <<>>]
      /\ failed' = failed \cup Ops(buffer) \cup UNION {Ops(pend[t]) : t \in Tasks}
  BY DEF Crash
<1>2. CapturedKept'
  BY <1>1 DEF KeptInv, CapturedKept, Stored, Pending
<1> QED
  BY <1>1, <1>2 DEF KeptInv, OneRow, InHand

\* Every step keeps KeptInv.
LEMMA KeptStep ==
    ASSUME TypeInv, KeptInv, [Next]_vars
    PROVE  KeptInv'
<1> USE DEF memory, read, local, store, marks, ghosts, bounds
<1>1. CASE UNCHANGED vars
  BY <1>1 DEF KeptInv, OneRow, InHand, CapturedKept, Pending, Stored, Ops, vars
<1>2. ASSUME NEW t \in Tasks, Progress(t) \/ Request(t) \/ WriteFails(t)
      PROVE  KeptInv'
  BY <1>2, CallersKeep, CaptureKeeps, FlushKeeps, AbortKeeps, CommitKeeps DEF Progress, Request
<1>3. CASE Compact
  <2>1. Stored' = Stored /\ OneRow'
    BY <1>3, CompactKeeps DEF KeptInv
  <2>2. UNCHANGED <<buffer, pend, pc, captured, failed, forgotten>>
    BY <1>3 DEF Compact
  <2> QED
    BY <2>1, <2>2 DEF KeptInv, InHand, CapturedKept, Pending, Ops
<1> QED
  BY <1>1, <1>2, <1>3, CrashKeeps DEF Next

\* KeptInv holds at first.
LEMMA KeptInit ==
    ASSUME Init
    PROVE  KeptInv
BY DEF Init, KeptInv, OneRow, InHand, CapturedKept

\* capture_update and flush_doc lose nothing: a captured update is buffered, on its way or
\* in a row, unless a write raised, the process died or _drop_state popped its buffer.
THEOREM NothingCapturedIsLost == Spec => []CapturedKept
<1>1. Init => TypeInv /\ KeptInv
  BY TypeInit, KeptInit
<1>2. TypeInv /\ KeptInv /\ [Next]_vars => (TypeInv /\ KeptInv)'
  BY TypeStep, KeptStep
<1>3. Spec => [](TypeInv /\ KeptInv)
  BY <1>1, <1>2, PTL DEF Spec
<1> QED
  BY <1>3, PTL DEF KeptInv

-----------------------------------------------------------------------------
(* The chunks tile the versions *)

\* What lets the chunks tile the versions: full ones but the last, in order,
\* with the rows inside.
ChunkShape ==
    \A c \in DOMAIN chunks :
        /\ chunks[c].base = IF c = 1 THEN 0 ELSE chunks[c - 1].end
        /\ chunks[c].sealed <=> c < Len(chunks)
        /\ c < Len(chunks) => chunks[c].end - chunks[c].base = ChunkMax
        /\ c = Len(chunks) => chunks[c].end - chunks[c].base < ChunkMax
        /\ chunks[c].base <= chunks[c].end
        /\ c = 1 => chunks[c].base < chunks[c].end
ChunkOrder == \A c, d \in DOMAIN chunks : c < d => chunks[c].end <= chunks[d].base
RowsInside ==
    \A r \in rows : r.chunk \in DOMAIN chunks /\ chunks[r.chunk].base < r.v /\ r.v <= chunks[r.chunk].end
EndIsMax == chunks # <<>> => chunks[Len(chunks)].end = MaxVersion
Tiles == ChunkShape /\ ChunkOrder /\ RowsInside /\ EndIsMax

\* What a write is about to add: the next version, unless that is taken, and to
\* the first chunk only while there is none.
OnTheWay ==
    /\ \A t \in Tasks : pc[t] \in {"first", "commit"} => tail[t] <= MaxVersion
    /\ \A t \in Tasks : pc[t] = "commit" => tail[t] = MaxVersion \/ tail[t] + 1 \in OnRecord
    /\ \A t \in Tasks : pc[t] = "first" => open[t] = 0
    /\ \A t \in Tasks : pc[t] = "commit" /\ open[t] = 0 => chunks = <<>>
    /\ \A t, u \in Tasks : pc[t] = "commit" /\ open[t] = 0 /\ pc[u] = "commit" /\ open[u] = 0 => t = u
TileInv == ~undercut => Tiles /\ OnTheWay

\* The greatest version, when a new one goes beyond it and when others go.
LEMMA MaxMoves ==
    ASSUME TypeInv
    PROVE  /\ \A v \in Nat : OnRecord' = OnRecord \cup {v} /\ MaxVersion < v => MaxVersion' = v
           /\ OnRecord' \subseteq OnRecord /\ MaxVersion \in {0} \cup OnRecord' => MaxVersion' = MaxVersion
<1>1. /\ OnRecord \in SUBSET Nat /\ IsFiniteSet(OnRecord)
      /\ MaxVersion \in Nat /\ (\A v \in OnRecord : v <= MaxVersion) /\ MaxVersion \in {0} \cup OnRecord
  BY RecordType
<1>2. MaxVersion' = Max({0} \cup OnRecord')
  BY DEF MaxVersion
<1>3. ASSUME NEW v \in Nat, OnRecord' = OnRecord \cup {v}, MaxVersion < v
      PROVE  MaxVersion' = v
  <2>1. OnRecord' \in SUBSET Nat /\ IsFiniteSet(OnRecord')
    BY <1>1, <1>3, FS_AddElement
  <2>2. MaxVersion' \in Nat /\ (\A w \in OnRecord' : w <= MaxVersion') /\ MaxVersion' \in {0} \cup OnRecord'
    BY <1>2, <2>1, MaxOf
  <2>3. v <= MaxVersion'
    BY <1>3, <2>2
  <2>4. MaxVersion' = v \/ MaxVersion' \in {0} \cup OnRecord
    BY <1>3, <2>2
  <2>5. MaxVersion' # v => MaxVersion' <= MaxVersion
    <3>1. CASE MaxVersion' = 0
      BY <1>1, <3>1
    <3>2. CASE MaxVersion' \in OnRecord
      BY <1>1, <3>2
    <3> QED
      BY <2>4, <3>1, <3>2
  <2> QED
    BY <1>1, <1>3, <2>2, <2>3, <2>5
<1>4. ASSUME OnRecord' \subseteq OnRecord, MaxVersion \in {0} \cup OnRecord'
      PROVE  MaxVersion' = MaxVersion
  <2>1. OnRecord' \in SUBSET Nat /\ IsFiniteSet(OnRecord')
    BY <1>1, <1>4, FS_Subset
  <2>2. MaxVersion' \in Nat /\ (\A w \in OnRecord' : w <= MaxVersion') /\ MaxVersion' \in {0} \cup OnRecord'
    BY <1>2, <2>1, MaxOf
  <2>3. MaxVersion' <= MaxVersion
    BY <1>1, <1>4, <2>2
  <2>4. MaxVersion <= MaxVersion'
    BY <1>1, <1>4, <2>2
  <2> QED
    BY <1>1, <2>2, <2>3, <2>4
<1> QED
  BY <1>3, <1>4

\* A compaction withdraws versions, never the latest.
LEMMA CompactMax ==
    ASSUME TypeInv, OneRow, Compact
    PROVE  /\ OnRecord' \subseteq OnRecord /\ MaxVersion' = MaxVersion
           /\ rows # {} => MaxVersion \in OnRecord'
<1>1. OnRecord' \subseteq OnRecord
  BY CompactTypes
<1>2. rows # {} => MaxVersion \in OnRecord'
  <2> SUFFICES ASSUME rows # {} PROVE MaxVersion \in OnRecord'
    OBVIOUS
  <2>1. PICK r \in rows : r.v = MaxVersion
    <3>1. PICK r \in rows : TRUE
      OBVIOUS
    <3>2. r.v \in OnRecord /\ r.v \in Nat /\ r.v <= MaxVersion
      BY RecordType DEF OnRecord
    <3>3. MaxVersion \in OnRecord
      BY <3>2, RecordType
    <3> QED
      BY <3>3 DEF OnRecord
  <2>2. PICK q \in rows : Kept(q) /\ r.v <= q.v
    BY StaysFor
  <2>3. q.v \in OnRecord /\ q.v \in Nat
    BY DEF OnRecord, TypeInv, TypeOK
  <2>4. q.v = MaxVersion
    BY <2>1, <2>2, <2>3, RecordType
  <2>5. Merge(q) \in rows' /\ Merge(q).v = q.v
    BY <2>2, MergedFacts DEF Compact
  <2> QED
    BY <2>4, <2>5 DEF OnRecord
<1>3. rows = {} => MaxVersion = 0
  BY RecordType DEF OnRecord
<1> QED
  BY <1>1, <1>2, <1>3, MaxMoves

\* Steps that leave the database alone.
LEMMA CalmTiles ==
    ASSUME TileInv, UNCHANGED <<chunks, rows, undercut>>,
           \A t \in Tasks :
               /\ pc'[t] \in {"first", "commit"} /\ (pc[t] # pc'[t] \/ tail'[t] # tail[t]) =>
                     tail'[t] = MaxVersion
               /\ pc'[t] = "first" => open'[t] = 0
               /\ pc'[t] = "commit" /\ open'[t] = 0 => pc[t] = "commit" /\ open[t] = 0
           , TypeInv
    PROVE  TileInv'
<1> SUFFICES ASSUME ~undercut PROVE Tiles' /\ OnTheWay'
  BY DEF TileInv
<1>1. Tiles /\ OnTheWay
  BY DEF TileInv
<1>2. OnRecord' = OnRecord /\ MaxVersion' = MaxVersion
  BY DEF OnRecord, MaxVersion
<1>3. Tiles'
  BY <1>1, <1>2 DEF Tiles, ChunkShape, ChunkOrder, RowsInside, EndIsMax
<1>4. MaxVersion \in Nat
  BY RecordType
<1>5. OnTheWay'
  BY <1>1, <1>2, <1>4 DEF OnTheWay
<1> QED
  BY <1>3, <1>5

\* Without an open chunk there is no history.
LEMMA NoOpen ==
    ASSUME TypeInv, Tiles, Open = {}
    PROVE  chunks = <<>> /\ rows = {} /\ MaxVersion = 0
<1>1. chunks \in Seq(ChunkType) /\ Len(chunks) \in Nat /\ DOMAIN chunks = 1..Len(chunks)
  <2>1. chunks \in Seq(ChunkType)
    BY DEF TypeInv, TypeOK, ChunkType
  <2> QED
    BY <2>1, LenProperties
<1>2. chunks = <<>>
  <2> SUFFICES ASSUME chunks # <<>> PROVE FALSE
    OBVIOUS
  <2>1. Len(chunks) \in DOMAIN chunks
    BY <1>1, EmptySeq
  <2>2. Len(chunks) \in Open
    BY <1>1, <2>1 DEF Open, Tiles, ChunkShape
  <2> QED
    BY <2>2
<1>3. rows = {}
  BY <1>1, <1>2 DEF Tiles, RowsInside
<1>4. OnRecord = {}
  BY <1>3 DEF OnRecord
<1> QED
  BY <1>2, <1>3, <1>4, RecordType

\* A write that commits knows the open chunk: it adds the version after the last
\* one to the last chunk, and the next chunk once that is full.
LEMMA CommitsNext ==
    ASSUME TypeInv, Tiles, OnTheWay, NEW t \in Tasks, pc[t] = "commit", ~Conflict(t)
    PROVE  /\ tail[t] = MaxVersion /\ MaxVersion \in Nat
           /\ open[t] = Len(chunks) /\ Len(chunks) \in Nat
           /\ OwnChunk(t).end = MaxVersion /\ OwnChunk(t).base <= MaxVersion
           /\ OwnChunk(t).base = IF Own(t) = 1 THEN 0 ELSE chunks[Own(t) - 1].end
           /\ MaxVersion - OwnChunk(t).base < ChunkMax /\ OwnChunk(t).sealed = FALSE
           /\ OwnChunk(t).base \in Nat
           /\ Own(t) = IF open[t] = 0 THEN 1 ELSE open[t]
<1>1. tail[t] = MaxVersion
  BY DEF OnTheWay, Conflict, OnRecord
<1>2. chunks \in Seq(ChunkType) /\ Len(chunks) \in Nat /\ DOMAIN chunks = 1..Len(chunks)
      /\ \A c \in 1..Len(chunks) : chunks[c] \in ChunkType
  <2>1. chunks \in Seq(ChunkType)
    BY DEF TypeInv, TypeOK, ChunkType
  <2> QED
    BY <2>1, LenProperties, ElementOfSeq
<1>3. MaxVersion \in Nat /\ ChunkMax \in Nat \ {0}
  BY RecordType, Sizes
<1>4. CASE open[t] = 0
  <2>1. chunks = <<>> /\ Len(chunks) = 0
    BY <1>4 DEF OnTheWay
  <2>2. MaxVersion = 0
    <3>1. Open = {}
      BY <1>2, <2>1 DEF Open
    <3> QED
      BY <3>1, NoOpen
  <2>3. OwnChunk(t) = [base |-> 0, end |-> 0, state |-> base[t], sealed |-> FALSE] /\ Own(t) = 1
    BY <1>1, <1>4, <2>1, <2>2 DEF OwnChunk, Own, Chunk
  <2> QED
    BY <1>1, <1>3, <1>4, <2>1, <2>2, <2>3
<1>5. CASE open[t] # 0
  <2> DEFINE c == open[t]
             n == Len(chunks)
  <2>1. c \in 1..n /\ n \in Nat /\ n \in 1..n
    BY <1>2, <1>5 DEF TypeInv, ShapeInv
  <2>2. chunks[c] \in ChunkType /\ chunks[n] \in ChunkType
    BY <1>2, <2>1
  <2>3. chunks[n].end = MaxVersion
    BY <2>1, <1>2 DEF Tiles, EndIsMax
  <2>4. OwnChunk(t) = chunks[c] /\ Own(t) = c
    BY <1>5 DEF OwnChunk, Own
  <2>5. c = n
    <3> SUFFICES ASSUME c < n PROVE FALSE
      BY <2>1
    <3>1. chunks[c].end - chunks[c].base = ChunkMax /\ chunks[c].end <= chunks[n].base
          /\ chunks[n].base <= chunks[n].end
      BY <1>2, <2>1 DEF Tiles, ChunkShape, ChunkOrder
    <3>2. chunks[c].end \in Nat /\ chunks[c].base \in Nat /\ chunks[n].base \in Nat
      BY <2>2 DEF ChunkType
    <3>3. Full(t)
      <4> HIDE DEF c, n
      <4>1. tail[t] + 1 - chunks[c].base >= ChunkMax
        BY <1>1, <1>3, <2>3, <3>1, <3>2
      <4> QED
        BY <2>4, <4>1 DEF Full
    <3>4. n \in Open \ {c}
      BY <1>2, <2>1 DEF Tiles, ChunkShape, Open
    <3> QED
      BY <3>3, <3>4 DEF Conflict
  <2>6. /\ chunks[n].base = IF n = 1 THEN 0 ELSE chunks[n - 1].end
        /\ chunks[n].sealed <=> n < Len(chunks)
        /\ chunks[n].end - chunks[n].base < ChunkMax
        /\ chunks[n].base <= chunks[n].end
    BY <1>2, <2>1 DEF Tiles, ChunkShape
  <2>7. chunks[n].sealed = FALSE /\ chunks[n].base \in Nat
    BY <1>2, <2>2, <2>6 DEF ChunkType
  <2>8. OwnChunk(t) = chunks[n] /\ Own(t) = n /\ open[t] = n /\ n # 0
    BY <2>1, <2>4, <2>5
  <2> QED
    BY <1>1, <1>2, <1>3, <2>3, <2>6, <2>7, <2>8
<1> QED
  BY <1>4, <1>5

\* A commit keeps the chunks tiled: it grows the last one, and starts the next when full.
LEMMA CommitTiles ==
    ASSUME TypeInv, OneRow, TileInv, NEW t \in Tasks, Commit(t)
    PROVE  TileInv'
<1> USE DEF memory, read, local, store, marks, ghosts, bounds
<1> SUFFICES ASSUME ~undercut PROVE Tiles' /\ OnTheWay'
  BY DEF TileInv, Commit
<1> DEFINE n == Own(t)
           v == MaxVersion + 1
           own == OwnChunk(t)
           new == [v |-> tail[t] + 1, chunk |-> Own(t), ups |-> Ops(pend[t])]
           extra == IF Full(t) THEN 1 ELSE 0
<1>1. Tiles /\ OnTheWay /\ pc[t] = "commit" /\ ~Conflict(t) /\ AppendVersion(t)
  BY DEF TileInv, Commit
<1>2. /\ tail[t] = MaxVersion /\ MaxVersion \in Nat
      /\ open[t] = Len(chunks) /\ Len(chunks) \in Nat
      /\ own.end = MaxVersion /\ own.base <= MaxVersion
      /\ own.base = IF n = 1 THEN 0 ELSE chunks[n - 1].end
      /\ MaxVersion - own.base < ChunkMax /\ own.sealed = FALSE
      /\ own.base \in Nat
      /\ n = IF open[t] = 0 THEN 1 ELSE open[t]
  BY <1>1, CommitsNext
<1>3. /\ rows' = rows \cup {new}
      /\ own \in ChunkType
      /\ chunks' \in Seq(ChunkType)
      /\ Len(chunks) \in Nat /\ Len(chunks') \in Nat /\ DOMAIN chunks' = 1..Len(chunks')
      /\ Len(chunks') = (IF open[t] = 0 THEN Len(chunks) + 1 ELSE Len(chunks)) + extra
      /\ chunks'[n] = [own EXCEPT !.end = tail[t] + 1, !.sealed = @ \/ Full(t)]
      /\ \A c \in 1..Len(chunks) : c # n => chunks'[c] = chunks[c]
      /\ Full(t) => chunks'[Len(chunks')] = Chunk(tail[t] + 1, NextBase(t))
  BY <1>1, Appended
<1>4. ChunkMax \in Nat \ {0}
  BY Sizes
<1>5. n \in Nat \ {0} /\ extra \in {0, 1} /\ Len(chunks') = n + extra /\ (Full(t) <=> extra = 1)
      /\ (\A c \in 1..n - 1 : c \in DOMAIN chunks) /\ (n = Len(chunks) \/ n = 1)
      /\ (Len(chunks) # 0 => n = Len(chunks))
  <2>1. DOMAIN chunks = 1..Len(chunks)
    BY LenProperties DEF TypeInv, TypeOK
  <2>2. extra \in {0, 1} /\ (Full(t) <=> extra = 1)
    OBVIOUS
  <2>3. n \in Nat \ {0} /\ n = IF open[t] = 0 THEN Len(chunks) + 1 ELSE Len(chunks)
    BY <1>2
  <2> HIDE DEF extra, n
  <2> QED
    BY <1>2, <1>3, <2>1, <2>2, <2>3
<1>6. Full(t) <=> v - own.base >= ChunkMax
  BY <1>2 DEF Full
<1>7. /\ chunks'[n].base = own.base /\ chunks'[n].end = v /\ (chunks'[n].sealed <=> Full(t))
      /\ \A c \in 1..n - 1 : chunks'[c] = chunks[c]
      /\ Full(t) => chunks'[n + 1].base = v /\ chunks'[n + 1].end = v /\ chunks'[n + 1].sealed = FALSE
  <2>1. chunks'[n].base = own.base /\ chunks'[n].end = v /\ (chunks'[n].sealed <=> Full(t))
    <3> HIDE DEF own, n
    <3> QED
      BY <1>2, <1>3 DEF ChunkType
  <2>2. ASSUME NEW c \in 1..n - 1 PROVE chunks'[c] = chunks[c]
    <3>1. c \in DOMAIN chunks /\ c # n /\ DOMAIN chunks = 1..Len(chunks)
      <4>1. DOMAIN chunks = 1..Len(chunks)
        BY LenProperties DEF TypeInv, TypeOK
      <4>2. c \in DOMAIN chunks
        BY <1>5
      <4>3. c # n
        <5> HIDE DEF n
        <5> QED
          BY <1>5
      <4> QED
        BY <4>1, <4>2, <4>3
    <3> QED
      BY <1>3, <3>1
  <2>3. Full(t) => chunks'[n + 1] = Chunk(v, NextBase(t))
    <3> HIDE DEF n
    <3> QED
      BY <1>2, <1>3, <1>5
  <2> HIDE DEF n
  <2> QED
    BY <2>1, <2>2, <2>3 DEF Chunk
<1>8. OnRecord' = OnRecord \cup {v} /\ MaxVersion' = v
  <2>1. OnRecord' = OnRecord \cup {tail[t] + 1}
    BY CommitTypes
  <2>2. v \in Nat /\ MaxVersion < v
    BY <1>2
  <2> QED
    BY <1>2, <2>1, <2>2, MaxMoves
<1>9. /\ \A c \in 1..n - 1 : /\ c \in DOMAIN chunks /\ chunks[c] \in ChunkType /\ c < Len(chunks)
                             /\ chunks[c].base \in Nat /\ chunks[c].end \in Nat /\ chunks[c].end <= own.base
                             /\ chunks[c].base = IF c = 1 THEN 0 ELSE chunks[c - 1].end
                             /\ chunks[c].sealed /\ chunks[c].end - chunks[c].base = ChunkMax
                             /\ c = 1 => chunks[c].base < chunks[c].end
                             /\ chunks[c].base <= chunks[c].end
  <2> SUFFICES ASSUME NEW c \in 1..n - 1
               PROVE /\ c \in DOMAIN chunks /\ chunks[c] \in ChunkType /\ c < Len(chunks)
                     /\ chunks[c].base \in Nat /\ chunks[c].end \in Nat /\ chunks[c].end <= own.base
                     /\ chunks[c].base = IF c = 1 THEN 0 ELSE chunks[c - 1].end
                     /\ chunks[c].sealed /\ chunks[c].end - chunks[c].base = ChunkMax
                     /\ c = 1 => chunks[c].base < chunks[c].end
                     /\ chunks[c].base <= chunks[c].end
    OBVIOUS
  <2>1. c \in DOMAIN chunks /\ DOMAIN chunks = 1..Len(chunks) /\ n = Len(chunks) /\ c < Len(chunks)
    <3>1. DOMAIN chunks = 1..Len(chunks)
      BY LenProperties DEF TypeInv, TypeOK
    <3>2. c \in DOMAIN chunks
      BY <1>5
    <3>3. n = Len(chunks) /\ c < Len(chunks)
      <4>1. n \in Nat \ {0} /\ (n = Len(chunks) \/ n = 1)
        BY <1>5
      <4> HIDE DEF n
      <4> QED
        BY <4>1
    <3> QED
      BY <3>1, <3>2, <3>3
  <2>2. chunks[c] \in ChunkType
    <3>1. chunks \in Seq(ChunkType)
      BY DEF TypeInv, TypeOK, ChunkType
    <3> QED
      BY <2>1, <3>1, ElementOfSeq
  <2>3. own = chunks[n] /\ n \in DOMAIN chunks
    <3>1. open[t] = n /\ open[t] # 0
      BY <1>2, <1>5, <2>1
    <3> QED
      BY <1>2, <1>5, <2>1, <3>1 DEF OwnChunk
  <2>4. chunks[c].end <= own.base
    BY <1>1, <2>1, <2>3 DEF Tiles, ChunkOrder
  <2>5. /\ chunks[c].base = IF c = 1 THEN 0 ELSE chunks[c - 1].end
        /\ chunks[c].sealed /\ chunks[c].end - chunks[c].base = ChunkMax
        /\ c = 1 => chunks[c].base < chunks[c].end
        /\ chunks[c].base <= chunks[c].end
    BY <1>1, <2>1 DEF Tiles, ChunkShape
  <2> QED
    BY <2>1, <2>2, <2>4, <2>5 DEF ChunkType
<1>10. DOMAIN chunks' = 1..n + extra
  BY <1>3, <1>5
<1> HIDE DEF n, v, own, new, extra
<1>11. v = MaxVersion + 1 /\ v \in Nat /\ own.base < v /\ v - own.base <= ChunkMax
  <2> DEFINE m == MaxVersion
             b == own.base
  <2>1. m \in Nat /\ b \in Nat /\ b <= m /\ m - b < ChunkMax /\ v = m + 1
    BY <1>2 DEF v
  <2>2. v \in Nat /\ b < v /\ v - b <= ChunkMax
    <3> HIDE DEF m, b
    <3> QED
      BY <1>4, <2>1
  <2> QED
    BY <2>1, <2>2
<1>12. ChunkShape'
  <2> SUFFICES ASSUME NEW c \in 1..n + extra
               PROVE /\ chunks'[c].base = IF c = 1 THEN 0 ELSE chunks'[c - 1].end
                     /\ chunks'[c].sealed <=> c < n + extra
                     /\ c < n + extra => chunks'[c].end - chunks'[c].base = ChunkMax
                     /\ c = n + extra => chunks'[c].end - chunks'[c].base < ChunkMax
                     /\ chunks'[c].base <= chunks'[c].end
                     /\ c = 1 => chunks'[c].base < chunks'[c].end
    BY <1>5, <1>10 DEF ChunkShape
  <2>1. CASE c \in 1..n - 1
    <3>1. chunks'[c] = chunks[c] /\ (c # 1 => chunks'[c - 1] = chunks[c - 1])
      BY <1>5, <1>7, <2>1
    <3> QED
      BY <1>5, <1>9, <2>1, <3>1
  <2>2. CASE c = n
    <3>1. chunks'[n].base = IF n = 1 THEN 0 ELSE chunks'[n - 1].end
      <4>1. n # 1 => chunks'[n - 1] = chunks[n - 1]
        BY <1>5, <1>7
      <4> QED
        BY <1>2, <1>7, <4>1
    <3>2. chunks'[n].base = own.base /\ chunks'[n].end = v /\ own.base \in Nat /\ v \in Nat
          /\ own.base < v /\ v - own.base <= ChunkMax
      BY <1>2, <1>7, <1>11
    <3>3. chunks'[n].sealed <=> n < n + extra
      BY <1>5, <1>7
    <3>4. n < n + extra => chunks'[n].end - chunks'[n].base = ChunkMax
      BY <1>4, <1>5, <1>6, <3>2
    <3>5. n = n + extra => chunks'[n].end - chunks'[n].base < ChunkMax
      BY <1>4, <1>5, <1>6, <3>2
    <3> QED
      BY <2>2, <3>1, <3>2, <3>3, <3>4, <3>5
  <2>3. CASE c = n + 1
    BY <1>4, <1>5, <1>6, <1>7, <1>11, <2>3
  <2> QED
    BY <1>5, <2>1, <2>2, <2>3
<1>13. ChunkOrder'
  <2> SUFFICES ASSUME NEW c \in 1..n + extra, NEW d \in 1..n + extra, c < d
               PROVE chunks'[c].end <= chunks'[d].base
    BY <1>10 DEF ChunkOrder
  <2>1. c \in 1..n - 1 => chunks'[c] = chunks[c] /\ chunks[c].end \in Nat /\ chunks[c].end <= own.base
    BY <1>7, <1>9
  <2>2. CASE d \in 1..n - 1
    <3>1. c \in DOMAIN chunks /\ d \in DOMAIN chunks /\ c \in 1..n - 1
      BY <1>5, <1>9, <2>2
    <3> QED
      BY <1>1, <1>7, <2>1, <2>2, <3>1 DEF Tiles, ChunkOrder
  <2>3. CASE d = n
    BY <1>5, <1>7, <2>1, <2>3
  <2>4. CASE d = n + 1
    <3>1. Full(t) /\ chunks'[d].base = v
      BY <1>5, <1>7, <2>4
    <3>2. CASE c = n
      BY <1>7, <1>11, <3>1, <3>2
    <3>3. CASE c \in 1..n - 1
      BY <1>2, <1>11, <2>1, <3>1, <3>3
    <3> QED
      BY <1>5, <2>4, <3>2, <3>3
  <2> QED
    BY <1>5, <2>2, <2>3, <2>4
<1>14. RowsInside'
  <2> SUFFICES ASSUME NEW r \in rows'
               PROVE r.chunk \in DOMAIN chunks' /\ chunks'[r.chunk].base < r.v /\ r.v <= chunks'[r.chunk].end
    BY DEF RowsInside
  <2>1. CASE r = new
    <3>1. r.v = v /\ r.chunk = n
      BY <1>2, <2>1 DEF new, v, n
    <3> QED
      BY <1>5, <1>7, <1>10, <1>11, <3>1
  <2>2. CASE r \in rows
    <3>1. r.chunk \in DOMAIN chunks /\ chunks[r.chunk].base < r.v /\ r.v <= chunks[r.chunk].end /\ r.v \in Nat
      BY <1>1, <2>2 DEF Tiles, RowsInside, TypeInv, TypeOK
    <3>2. DOMAIN chunks = 1..Len(chunks)
      BY LenProperties DEF TypeInv, TypeOK
    <3>3. n = Len(chunks) /\ r.chunk \in 1..n
      <4>1. r.chunk \in 1..Len(chunks) /\ Len(chunks) \in Nat
        BY <1>2, <3>1, <3>2
      <4>2. Len(chunks) # 0
        BY <4>1
      <4> QED
        BY <1>5, <4>1, <4>2
    <3>4. CASE r.chunk = n
      <4>1. own = chunks[n]
        BY <1>2, <3>3 DEF own, OwnChunk
      <4>2. r.v <= MaxVersion
        BY <1>2, <3>1, <3>4, <4>1
      <4> QED
        BY <1>2, <1>5, <1>7, <1>10, <1>11, <3>1, <3>4, <4>1, <4>2
    <3>5. CASE r.chunk \in 1..n - 1
      BY <1>5, <1>7, <1>10, <3>1, <3>5
    <3> QED
      BY <1>5, <3>3, <3>4, <3>5
  <2> QED
    BY <1>3, <2>1, <2>2
<1>15. EndIsMax'
  <2>1. CASE extra = 1
    BY <1>5, <1>7, <1>8, <2>1 DEF EndIsMax
  <2>2. CASE extra = 0
    BY <1>5, <1>7, <1>8, <2>2 DEF EndIsMax
  <2> QED
    BY <1>5, <2>1, <2>2
<1>16. OnTheWay'
  <2>1. /\ \A u \in Tasks : u # t => pc'[u] = pc[u] /\ tail'[u] = tail[u] /\ open'[u] = open[u]
        /\ pc'[t] \notin {"first", "commit"}
    <3>1. pc' = [pc EXCEPT ![t] = AfterFlush(t)] /\ tail' = [tail EXCEPT ![t] = 0] /\ open' = [open EXCEPT ![t] = 0]
      BY DEF Commit, EndWrite
    <3>2. AfterFlush(t) \notin {"first", "commit"}
      BY DEF AfterFlush, Idle
    <3>3. pc \in [Tasks -> Places] /\ tail \in [Tasks -> Nat] /\ open \in [Tasks -> Nat]
      BY DEF TypeInv, TypeOK
    <3> QED
      BY <3>1, <3>2, <3>3
  <2>2. ASSUME NEW u \in Tasks, pc'[u] = "commit", open'[u] = 0 PROVE FALSE
    <3>1. u # t /\ pc[u] = "commit" /\ open[u] = 0
      BY <2>1, <2>2
    <3>2. chunks = <<>> /\ open[t] = 0
      BY <1>1, <1>2, <3>1 DEF OnTheWay
    <3> QED
      BY <1>1, <3>1, <3>2 DEF OnTheWay
  <2>3. \A u \in Tasks : pc'[u] \in {"first", "commit"} => tail'[u] \in Nat /\ tail'[u] <= MaxVersion
    BY <1>1, <2>1 DEF OnTheWay, TypeInv, TypeOK
  <2>4. \A u \in Tasks : pc'[u] = "commit" => tail'[u] = MaxVersion' \/ tail'[u] + 1 \in OnRecord'
    <3> SUFFICES ASSUME NEW u \in Tasks, pc'[u] = "commit" PROVE tail'[u] + 1 \in OnRecord'
      OBVIOUS
    <3>1. tail[u] = MaxVersion \/ tail[u] + 1 \in OnRecord
      BY <1>1, <2>1 DEF OnTheWay
    <3>2. tail'[u] = tail[u]
      BY <2>1
    <3> QED
      BY <1>8, <1>11, <3>1, <3>2
  <2>5. \A u \in Tasks : pc'[u] = "first" => open'[u] = 0
    BY <1>1, <2>1 DEF OnTheWay
  <2> QED
    BY <1>2, <1>8, <1>11, <2>2, <2>3, <2>4, <2>5 DEF OnTheWay
<1> QED
  BY <1>12, <1>13, <1>14, <1>15, <1>16 DEF Tiles

\* Steps that leave the database alone keep the chunks tiled.
LEMMA CallersTile ==
    ASSUME TypeInv, TileInv, NEW t \in Tasks,
           \/ Wait(t) \/ Join(t) \/ Apply(t) \/ Restore(t) \/ Answer(t) \/ Leave(t) \/ OnTimer(t)
           \/ StartCapture(t) \/ CaptureAgain(t) \/ Capture(t) \/ FlushNothing(t) \/ Take(t)
           \/ ReadOpen(t) \/ Rebuild(t) \/ CommitConflict(t) \/ WriteFails(t)
    PROVE  TileInv'
<1> USE DEF memory, read, local, store, marks, ghosts, bounds
<1>1. UNCHANGED <<chunks, rows, undercut>>
  BY DEF Wait, Join, Apply, Restore, Answer, Leave, OnTimer, StartCapture, CaptureAgain, Capture,
     FlushNothing, Take, ReadOpen, Rebuild, CommitConflict, WriteFails, Abort, WorkOn
<1>2. pc' = pc \/ \E p \in Places \ {"first", "commit"} : pc' = [pc EXCEPT ![t] = p]
  BY DEF Wait, Join, Apply, Restore, Answer, Leave, OnTimer, StartCapture, CaptureAgain, Capture,
     FlushNothing, Take, ReadOpen, Rebuild, CommitConflict, WriteFails, Abort, Places, Idle,
     AfterCapture, AfterFlush
<1>3. \A u \in Tasks : pc'[u] \in {"first", "commit"} => pc'[u] = pc[u] /\ (u # t \/ pc' = pc)
  BY <1>2 DEF TypeInv, TypeOK
<1>4. pc' = pc => tail' = tail /\ open' = open
  <2> SUFFICES ASSUME pc' = pc PROVE tail' = tail /\ open' = open
    OBVIOUS
  <2>1. pc \in [Tasks -> Places]
    BY DEF TypeInv, TypeOK
  <2>2. \A p : pc' = [pc EXCEPT ![t] = p] => pc[t] = p
    BY <2>1
  <2>3. ~(CommitConflict(t) \/ WriteFails(t))
    <3>1. CommitConflict(t) \/ WriteFails(t) =>
            pc[t] \in Writing /\ (pc' = [pc EXCEPT ![t] = IF t \in room THEN "closing" ELSE "out"])
      BY DEF CommitConflict, WriteFails, Abort, Writing
    <3> QED
      BY <2>2, <3>1 DEF Writing
  <2>4. ~ReadOpen(t)
    <3>1. ReadOpen(t) => pc[t] = "write" /\ (pc' = [pc EXCEPT ![t] = "tail"] \/ pc' = [pc EXCEPT ![t] = "rebuild"])
      BY DEF ReadOpen
    <3> QED
      BY <2>2, <3>1
  <2> QED
    BY <2>3, <2>4 DEF Wait, Join, Apply, Restore, Answer, Leave, OnTimer, StartCapture, CaptureAgain, Capture,
       FlushNothing, Take, Rebuild, DropState
<1>5. \A u \in Tasks : u # t => tail'[u] = tail[u] /\ open'[u] = open[u]
  <2>1. tail \in [Tasks -> Nat] /\ open \in [Tasks -> Nat]
    BY DEF TypeInv, TypeOK
  <2>2. /\ tail' = tail \/ tail' = [tail EXCEPT ![t] = 0]
        /\ open' = open \/ \E n : open' = [open EXCEPT ![t] = n]
    BY DEF Wait, Join, Apply, Restore, Answer, Leave, OnTimer, StartCapture, CaptureAgain, Capture,
       FlushNothing, Take, ReadOpen, Rebuild, CommitConflict, WriteFails, Abort, EndWrite, DropState
  <2> QED
    BY <2>1, <2>2
<1>6. \A u \in Tasks : pc'[u] \in {"first", "commit"} =>
        pc[u] = pc'[u] /\ tail'[u] = tail[u] /\ open'[u] = open[u]
  BY <1>3, <1>4, <1>5
<1>7. CASE undercut
  BY <1>1, <1>7 DEF TileInv
<1>8. CASE ~undercut
  <2>1. \A u \in Tasks : pc'[u] = "first" => open'[u] = 0
    BY <1>6, <1>8 DEF TileInv, OnTheWay
  <2> QED
    BY <1>1, <1>6, <2>1, CalmTiles
<1> QED
  BY <1>7, <1>8

\* A write that reads the last version is about to add the next.
LEMMA ReadMaxTiles ==
    ASSUME TypeInv, TileInv, NEW t \in Tasks, ReadMax(t)
    PROVE  TileInv'
<1> USE DEF memory, read, local, store, marks, ghosts, bounds
<1> SUFFICES ASSUME ~undercut PROVE TileInv'
  BY DEF TileInv, ReadMax
<1>1. /\ UNCHANGED <<chunks, rows, undercut, open>> /\ tail' = [tail EXCEPT ![t] = MaxVersion]
      /\ pc' = [pc EXCEPT ![t] = IF open[t] = 0 THEN "first" ELSE "commit"]
  BY DEF ReadMax
<1>2. pc \in [Tasks -> Places] /\ tail \in [Tasks -> Nat]
  BY DEF TypeInv, TypeOK
<1>3. \A u \in Tasks : pc[u] = "first" => open[u] = 0
  BY DEF TileInv, OnTheWay
<1>4. \A u \in Tasks :
        /\ pc'[u] \in {"first", "commit"} /\ (pc[u] # pc'[u] \/ tail'[u] # tail[u]) => tail'[u] = MaxVersion
        /\ pc'[u] = "first" => open'[u] = 0
        /\ pc'[u] = "commit" /\ open'[u] = 0 => pc[u] = "commit" /\ open[u] = 0
  BY <1>1, <1>2, <1>3
<1> QED
  BY <1>1, <1>4, CalmTiles

\* The first chunk is inserted while there is none, and no other insert is under way.
LEMMA NewChunkTiles ==
    ASSUME TypeInv, TileInv, NEW t \in Tasks, NewChunk(t)
    PROVE  TileInv'
<1> USE DEF memory, read, local, store, marks, ghosts, bounds
<1> SUFFICES ASSUME ~undercut PROVE Tiles' /\ OnTheWay'
  BY DEF TileInv, NewChunk
<1>1. Tiles /\ OnTheWay
  BY DEF TileInv
<1>2. /\ UNCHANGED <<chunks, rows, open, tail>> /\ pc' = [pc EXCEPT ![t] = "commit"] /\ pc[t] = "first"
      /\ Open = {} /\ \A u \in Tasks : ~(pc[u] = "commit" /\ open[u] = 0)
  BY DEF NewChunk
<1>3. chunks = <<>> /\ MaxVersion = 0
  BY <1>1, <1>2, NoOpen
<1>4. OnRecord' = OnRecord /\ MaxVersion' = MaxVersion
  BY <1>2 DEF OnRecord, MaxVersion
<1>5. Tiles'
  BY <1>1, <1>2, <1>4 DEF Tiles, ChunkShape, ChunkOrder, RowsInside, EndIsMax
<1>6. tail[t] = MaxVersion
  <2>1. tail[t] \in Nat /\ tail[t] <= MaxVersion
    BY <1>1, <1>2 DEF OnTheWay, TypeInv, TypeOK
  <2> QED
    BY <1>3, <2>1
<1>7. pc'[t] = "commit" /\ \A u \in Tasks : u # t => pc'[u] = pc[u]
  BY <1>2 DEF TypeInv, TypeOK
<1>8. OnTheWay'
  BY <1>1, <1>2, <1>3, <1>4, <1>6, <1>7 DEF OnTheWay
<1> QED
  BY <1>5, <1>8

\* A compaction that undercuts no write keeps the chunks tiled.
LEMMA CompactTiles ==
    ASSUME TypeInv, OneRow, TileInv, Compact
    PROVE  TileInv'
<1> USE DEF memory, read, local, store, marks, ghosts, bounds
<1> SUFFICES ASSUME ~undercut' PROVE Tiles' /\ OnTheWay'
  BY DEF TileInv
<1>1. /\ ~undercut /\ \A t \in Tasks : pc[t] = "commit" => tail[t] + 1 \notin OnRecord \ OnRecord'
      /\ UNCHANGED <<pc, tail, open, chunks>> /\ rows' = MergedRows
  BY DEF Compact
<1>2. Tiles /\ OnTheWay
  BY <1>1 DEF TileInv
<1>3. OnRecord' \subseteq OnRecord /\ MaxVersion' = MaxVersion
  BY CompactMax
<1>4. RowsInside'
  <2> SUFFICES ASSUME NEW m \in rows'
               PROVE m.chunk \in DOMAIN chunks /\ chunks[m.chunk].base < m.v /\ m.v <= chunks[m.chunk].end
    BY <1>1 DEF RowsInside
  <2>1. PICK r \in rows : m = Merge(r)
    BY <1>1, MergedFacts
  <2>2. m.v = r.v /\ m.chunk = r.chunk
    BY <2>1, MergedFacts
  <2> QED
    BY <1>2, <2>2 DEF Tiles, RowsInside
<1>5. Tiles'
  BY <1>1, <1>2, <1>3, <1>4 DEF Tiles, ChunkShape, ChunkOrder, EndIsMax
<1>6. OnTheWay'
  BY <1>1, <1>2, <1>3 DEF OnTheWay
<1> QED
  BY <1>5, <1>6

\* After a crash no write is under way.
LEMMA CrashTiles ==
    ASSUME TypeInv, TileInv, Crash
    PROVE  TileInv'
<1> USE DEF memory, read, local, store, marks, ghosts, bounds
<1>1. UNCHANGED <<chunks, rows, undercut>> /\ pc' = [t \in Tasks |-> "out"]
  BY DEF Crash
<1> QED
  BY <1>1, CalmTiles

\* Every step keeps TileInv.
LEMMA TileStep ==
    ASSUME TypeInv, OneRow, TileInv, [Next]_vars
    PROVE  TileInv'
<1> USE DEF memory, read, local, store, marks, ghosts, bounds
<1>1. CASE UNCHANGED vars
  BY <1>1 DEF TileInv, Tiles, ChunkShape, ChunkOrder, RowsInside, EndIsMax, OnTheWay, OnRecord, MaxVersion, vars
<1>2. ASSUME NEW t \in Tasks, Progress(t) \/ Request(t) \/ WriteFails(t)
      PROVE  TileInv'
  BY <1>2, CallersTile, ReadMaxTiles, NewChunkTiles, CommitTiles DEF Progress, Request
<1> QED
  BY <1>1, <1>2, CompactTiles, CrashTiles DEF Next

\* TileInv holds at first.
LEMMA TileInit ==
    ASSUME Init
    PROVE  TileInv
<1>1. chunks = <<>> /\ rows = {} /\ \A t \in Tasks : pc[t] = "out"
  BY DEF Init
<1>2. Tiles /\ OnTheWay
  BY <1>1 DEF Tiles, ChunkShape, ChunkOrder, RowsInside, EndIsMax, OnTheWay
<1> QED
  BY <1>2 DEF TileInv

\* TileInv is stronger than ChunksTile: it has the order of all chunks and what is on the way.
LEMMA TilesGiveChunksTile ==
    ASSUME TypeInv, TileInv
    PROVE  ChunksTile
<1> SUFFICES ASSUME ~undercut
             PROVE /\ \A c \in DOMAIN chunks :
                        /\ chunks[c].base = IF c = 1 THEN 0 ELSE chunks[c - 1].end
                        /\ chunks[c].sealed <=> c < Len(chunks)
                        /\ chunks[c].end - chunks[c].base <= ChunkMax - (IF chunks[c].sealed THEN 0 ELSE 1)
                   /\ \A r \in rows : chunks[r.chunk].base < r.v /\ r.v <= chunks[r.chunk].end
                   /\ chunks # <<>> => chunks[Len(chunks)].end = MaxVersion
  BY DEF ChunksTile
<1>1. Tiles
  BY DEF TileInv
<1>2. ASSUME NEW c \in DOMAIN chunks
      PROVE  chunks[c].end - chunks[c].base <= ChunkMax - (IF chunks[c].sealed THEN 0 ELSE 1)
  <2>1. chunks \in Seq(ChunkType) /\ DOMAIN chunks = 1..Len(chunks) /\ Len(chunks) \in Nat
    <3>1. chunks \in Seq(ChunkType)
      BY DEF TypeInv, TypeOK, ChunkType
    <3> QED
      BY <3>1, LenProperties
  <2>2. chunks[c] \in ChunkType
    BY <2>1, ElementOfSeq
  <2>3. chunks[c].end \in Nat /\ chunks[c].base \in Nat /\ ChunkMax \in Nat
    BY <2>2, Sizes DEF ChunkType
  <2>4. /\ chunks[c].sealed <=> c < Len(chunks)
        /\ c < Len(chunks) => chunks[c].end - chunks[c].base = ChunkMax
        /\ c = Len(chunks) => chunks[c].end - chunks[c].base < ChunkMax
    BY <1>1 DEF Tiles, ChunkShape
  <2>5. CASE c < Len(chunks)
    BY <2>3, <2>4, <2>5
  <2>6. CASE c = Len(chunks)
    BY <2>3, <2>4, <2>6
  <2> QED
    BY <2>1, <2>5, <2>6
<1> QED
  BY <1>1, <1>2 DEF Tiles, ChunkShape, RowsInside, EndIsMax

\* The chunks of _write and _roll_over tile the versions, however writes overlap, unless a
\* compaction undercut one of them.
THEOREM ChunksTileVersions == Spec => []ChunksTile
<1>1. Init => TypeInv /\ KeptInv /\ TileInv
  BY TypeInit, KeptInit, TileInit
<1>2. TypeInv /\ KeptInv /\ TileInv /\ [Next]_vars => (TypeInv /\ KeptInv /\ TileInv)'
  BY TypeStep, KeptStep, TileStep DEF KeptInv
<1>3. TypeInv /\ TileInv => ChunksTile
  BY TilesGiveChunksTile
<1> QED
  BY <1>1, <1>2, <1>3, PTL DEF Spec

-----------------------------------------------------------------------------
(* What the rows and the chunks show *)

\* What the rows of the chunks before one hold is in the state it starts from.
RowsBefore(c) == UNION {r.ups : r \in {r \in rows : r.chunk < c}}
StatesHold ==
    \A c \in DOMAIN chunks :
        RowsBefore(c) \subseteq chunks[c].state /\ chunks[c].state \subseteq RowsBefore(c) \cup failed
StatesGrow == \A c, d \in DOMAIN chunks : c < d => chunks[c].state \subseteq chunks[d].state

UpTo(v) == UNION {q.ups : q \in {q \in rows : q.v <= v}}

\* The chunks are a sequence of records.
LEMMA ChunkFacts ==
    ASSUME TypeInv
    PROVE  /\ DOMAIN chunks = 1..Len(chunks) /\ Len(chunks) \in Nat
           /\ \A c \in DOMAIN chunks : /\ chunks[c] \in ChunkType /\ c \in Nat
                                       /\ chunks[c].base \in Nat /\ chunks[c].end \in Nat
                                       /\ chunks[c].state \subseteq Updates
           /\ (chunks = <<>> <=> Len(chunks) = 0)
<1>1. chunks \in Seq(ChunkType)
  BY DEF TypeInv, TypeOK, ChunkType
<1>2. DOMAIN chunks = 1..Len(chunks) /\ Len(chunks) \in Nat
  BY <1>1, LenProperties
<1>3. \A c \in DOMAIN chunks : chunks[c] \in ChunkType
  BY <1>1, <1>2, ElementOfSeq
<1>4. chunks = <<>> <=> Len(chunks) = 0
  BY <1>1, <1>2, EmptySeq
<1> QED
  BY <1>2, <1>3, <1>4 DEF ChunkType

\* A version is read from the chunk it is in or the one that starts with it, and
\* shows what the rows up to it hold.
LEMMA Replay ==
    ASSUME TypeInv, Tiles, StatesHold, NEW v \in Nat, Found(v)
    PROVE  UpTo(v) \subseteq Reconstruct(v) /\ Reconstruct(v) \subseteq UpTo(v) \cup failed
<1> DEFINE c == Max(Spanning(v))
<1>1. c \in Spanning(v)
  BY ReconstructType
<1>2. c \in DOMAIN chunks /\ chunks[c].base <= v /\ v <= chunks[c].end /\ c \in Nat
      /\ chunks[c].base \in Nat /\ chunks[c].end \in Nat
  <2>1. c \in DOMAIN chunks /\ chunks[c].base <= v /\ v <= chunks[c].end
    BY <1>1 DEF Spanning
  <2> HIDE DEF c
  <2> QED
    BY <2>1, ChunkFacts
<1>3. Reconstruct(v) = chunks[c].state \cup UNION {r.ups : r \in {r \in RowsOf(c) : r.v <= v}}
  BY DEF Reconstruct
<1>4. RowsBefore(c) \subseteq chunks[c].state /\ chunks[c].state \subseteq RowsBefore(c) \cup failed
  BY <1>2 DEF StatesHold
<1> HIDE DEF c
<1>5. \A q \in rows : /\ q.v \in Nat /\ q.chunk \in DOMAIN chunks /\ q.chunk \in Nat
                      /\ chunks[q.chunk].base < q.v /\ q.v <= chunks[q.chunk].end
                      /\ chunks[q.chunk].base \in Nat /\ chunks[q.chunk].end \in Nat
  BY ChunkFacts DEF Tiles, RowsInside, TypeInv, TypeOK
<1>6. ASSUME NEW q \in rows, q.v <= v PROVE q.ups \subseteq Reconstruct(v)
  <2>1. CASE q.chunk < c
    BY <1>3, <1>4, <2>1 DEF RowsBefore
  <2>2. CASE q.chunk = c
    BY <1>3, <1>6, <2>2 DEF RowsOf
  <2>3. CASE c < q.chunk
    <3>1. chunks[c].end <= chunks[q.chunk].base
      BY <1>2, <1>5, <2>3 DEF Tiles, ChunkOrder
    <3> QED
      BY <1>2, <1>5, <1>6, <3>1
  <2> QED
    BY <1>2, <1>5, <2>1, <2>2, <2>3
<1>7. RowsBefore(c) \subseteq UpTo(v)
  <2> SUFFICES ASSUME NEW q \in rows, q.chunk < c PROVE q.v <= v
    BY DEF RowsBefore, UpTo
  <2>1. chunks[q.chunk].end <= chunks[c].base
    BY <1>2, <1>5 DEF Tiles, ChunkOrder
  <2> QED
    BY <1>2, <1>5, <2>1
<1>8. UNION {r.ups : r \in {r \in RowsOf(c) : r.v <= v}} \subseteq UpTo(v)
  BY DEF RowsOf, UpTo
<1>9. UpTo(v) \subseteq Reconstruct(v)
  BY <1>6 DEF UpTo
<1> QED
  BY <1>3, <1>4, <1>7, <1>8, <1>9

\* Every version on record and the last one are found.
LEMMA FoundVersions ==
    ASSUME TypeInv, Tiles
    PROVE  /\ \A r \in rows : Found(r.v)
           /\ chunks # <<>> => /\ Found(MaxVersion) /\ Len(chunks) \in DOMAIN chunks
                               /\ Max(Spanning(MaxVersion)) = Len(chunks)
           /\ rows # {} => chunks # <<>>
<1>1. ASSUME NEW r \in rows PROVE Found(r.v)
  <2>1. r.chunk \in DOMAIN chunks /\ chunks[r.chunk].base < r.v /\ r.v <= chunks[r.chunk].end
        /\ chunks[r.chunk].base \in Nat /\ r.v \in Nat
    BY ChunkFacts DEF Tiles, RowsInside, TypeInv, TypeOK
  <2>2. r.chunk \in Spanning(r.v)
    BY <2>1 DEF Spanning
  <2> QED
    BY <2>2 DEF Found
<1>2. ASSUME chunks # <<>>
      PROVE  Found(MaxVersion) /\ Len(chunks) \in DOMAIN chunks /\ Max(Spanning(MaxVersion)) = Len(chunks)
  <2>1. DOMAIN chunks = 1..Len(chunks) /\ Len(chunks) \in Nat /\ Len(chunks) \in DOMAIN chunks
    BY <1>2, ChunkFacts
  <2>2. chunks[Len(chunks)].base <= chunks[Len(chunks)].end /\ chunks[Len(chunks)].end = MaxVersion
    BY <1>2, <2>1 DEF Tiles, ChunkShape, EndIsMax
  <2>3. MaxVersion \in Nat
    BY RecordType
  <2>4. Len(chunks) \in Spanning(MaxVersion)
    BY <2>1, <2>2, <2>3 DEF Spanning
  <2>5. Found(MaxVersion)
    BY <2>4 DEF Found
  <2>6. Max(Spanning(MaxVersion)) \in Spanning(MaxVersion) /\ Len(chunks) <= Max(Spanning(MaxVersion))
    BY <2>3, <2>4, <2>5, ReconstructType
  <2>7. Max(Spanning(MaxVersion)) \in 1..Len(chunks)
    BY <2>1, <2>6 DEF Spanning
  <2> QED
    BY <2>1, <2>5, <2>6, <2>7
<1>3. rows # {} => chunks # <<>>
  BY DEF Tiles, RowsInside
<1> QED
  BY <1>1, <1>2, <1>3

\* The last version shows all that is stored, and the state of its chunk.
LEMMA ReplayLast ==
    ASSUME TypeInv, Tiles, StatesHold, chunks # <<>>
    PROVE  /\ Found(MaxVersion)
           /\ Stored \subseteq Reconstruct(MaxVersion) /\ Reconstruct(MaxVersion) \subseteq Stored \cup failed
           /\ chunks[Len(chunks)].state \subseteq Reconstruct(MaxVersion)
<1>1. MaxVersion \in Nat /\ \A r \in rows : r.v <= MaxVersion
  BY RecordType DEF OnRecord
<1>2. UpTo(MaxVersion) = Stored
  BY <1>1 DEF UpTo, Stored
<1>3. Found(MaxVersion) /\ Max(Spanning(MaxVersion)) = Len(chunks)
  BY FoundVersions
<1>4. chunks[Len(chunks)].state \subseteq Reconstruct(MaxVersion)
  BY <1>3 DEF Reconstruct
<1> QED
  BY <1>1, <1>2, <1>3, <1>4, Replay

\* A later version shows all that an earlier one shows.
VersionsGrow ==
    \A r, q \in rows : r.v <= q.v => Reconstruct(r.v) \subseteq Reconstruct(q.v)

\* Chunks whose states grow show growing versions.
LEMMA ReplayGrows ==
    ASSUME TypeInv, Tiles, StatesHold, StatesGrow
    PROVE  VersionsGrow
<1> SUFFICES ASSUME NEW r \in rows, NEW q \in rows, r.v <= q.v
             PROVE  Reconstruct(r.v) \subseteq Reconstruct(q.v)
  BY DEF VersionsGrow
<1> DEFINE c == Max(Spanning(r.v))
           d == Max(Spanning(q.v))
<1>1. Found(r.v) /\ Found(q.v) /\ r.v \in Nat /\ q.v \in Nat
  BY FoundVersions DEF TypeInv, TypeOK
<1>2. c \in Spanning(r.v) /\ d \in Spanning(q.v) /\ \A e \in Spanning(q.v) : e <= d
  BY <1>1, ReconstructType
<1>3. /\ Reconstruct(r.v) = chunks[c].state \cup UNION {p.ups : p \in {p \in RowsOf(c) : p.v <= r.v}}
      /\ chunks[d].state \subseteq Reconstruct(q.v)
  BY DEF Reconstruct
<1> HIDE DEF c, d
<1>4. /\ c \in DOMAIN chunks /\ d \in DOMAIN chunks /\ c \in Nat /\ d \in Nat
      /\ chunks[c].base <= r.v /\ r.v <= chunks[c].end
      /\ chunks[d].base <= q.v /\ q.v <= chunks[d].end
      /\ chunks[c].base \in Nat /\ chunks[c].end \in Nat
      /\ chunks[d].base \in Nat /\ chunks[d].end \in Nat
  BY <1>2, ChunkFacts DEF Spanning
<1>5. c <= d
  <2> SUFFICES ASSUME d < c PROVE FALSE
    BY <1>4
  <2>1. chunks[d].end <= chunks[c].base
    BY <1>4 DEF Tiles, ChunkOrder
  <2>2. q.v = r.v
    BY <1>1, <1>4, <2>1
  <2>3. c \in Spanning(q.v)
    BY <1>4, <2>2 DEF Spanning
  <2> QED
    BY <1>2, <1>4, <2>3
<1>6. chunks[c].state \subseteq chunks[d].state
  BY <1>4, <1>5 DEF StatesGrow
<1>7. UNION {p.ups : p \in {p \in RowsOf(c) : p.v <= r.v}} \subseteq UpTo(q.v)
  <2> SUFFICES ASSUME NEW p \in rows, p.v <= r.v PROVE p.v <= q.v
    BY DEF RowsOf, UpTo
  <2>1. p.v \in Nat
    BY DEF TypeInv, TypeOK
  <2> QED
    BY <1>1, <2>1
<1>8. UpTo(q.v) \subseteq Reconstruct(q.v)
  BY <1>1, Replay
<1> QED
  BY <1>3, <1>6, <1>7, <1>8

\* A compaction moves no update from a chunk to another.
LEMMA ChunksKeep ==
    ASSUME TypeInv, OneRow, Compact
    PROVE  \A c \in Nat : RowsBefore(c)' = RowsBefore(c)
<1> SUFFICES ASSUME NEW c \in Nat PROVE RowsBefore(c)' = RowsBefore(c)
  OBVIOUS
<1>1. rows' = MergedRows
  BY DEF Compact
<1>2. ASSUME NEW r \in rows, r.chunk < c, NEW u \in r.ups
      PROVE  \E m \in rows' : m.chunk < c /\ u \in m.ups
  <2>1. PICK q \in rows : Kept(q) /\ q.chunk = r.chunk /\ r.ups \subseteq Merge(q).ups
    BY StaysFor
  <2>2. Merge(q) \in rows' /\ Merge(q).chunk = q.chunk
    BY <1>1, <2>1, MergedFacts
  <2> QED
    BY <1>2, <2>1, <2>2
<1>3. ASSUME NEW m \in rows', m.chunk < c, NEW u \in m.ups
      PROVE  \E r \in rows : r.chunk < c /\ u \in r.ups
  <2>1. PICK q \in rows : m = Merge(q)
    BY <1>1, MergedFacts
  <2>2. m.chunk = q.chunk
    BY <2>1, MergedFacts
  <2> QED
    BY <1>3, <2>1, <2>2, TakenOver
<1> QED
  BY <1>2, <1>3 DEF RowsBefore

-----------------------------------------------------------------------------
(* What has been captured *)

\* An update is captured before anything is done with it; without a crash every
\* update was, or is about to be.
Seen ==
    /\ last # 0 => last \in captured
    /\ \A t \in Restorers : pc[t] \in Writing \cup {"flush", "answer"} => mine[t] \in captured
    /\ crashes = 0 =>
         \A u \in Updates : u \in captured \/ \E t \in Tasks : pc[t] \in {"capture", "hash"} /\ mine[t] = u

\* A capture leaves its update captured.
LEMMA CaptureSeen ==
    ASSUME TypeInv, Seen, NEW t \in Tasks, CaptureAgain(t) \/ Capture(t)
    PROVE  Seen'
<1> USE DEF memory, read, local, store, marks, ghosts, bounds
<1>1. /\ pc[t] = "hash" /\ made' = made /\ crashes' = crashes /\ pc \in [Tasks -> Places] /\ mine \in [Tasks -> Nat]
      /\ mine' = [mine EXCEPT ![t] = IF t \in Restorers THEN @ ELSE 0]
      /\ \E p \in {"flush", "in", "out"} : pc' = [pc EXCEPT ![t] = p]
  BY DEF CaptureAgain, Capture, Brought, AfterCapture, Idle, TypeInv, TypeOK
<1>2. captured \subseteq captured' /\ mine[t] \in captured' /\ (last' # 0 => last' \in captured')
  <2>1. mine[t] \in Updates
    BY <1>1 DEF TypeInv, ShapeInv
  <2>2. mine[t] # 0
    BY <2>1 DEF TypeInv, TypeOK, Updates
  <2>3. CASE CaptureAgain(t)
    BY <2>2, <2>3 DEF CaptureAgain, Seen
  <2>4. CASE Capture(t)
    BY <2>4 DEF Capture
  <2> QED
    BY <2>3, <2>4
<1>3. Updates' = Updates
  BY <1>1 DEF Updates
<1>4. \A u \in Tasks : u # t => pc'[u] = pc[u] /\ mine'[u] = mine[u]
  BY <1>1
<1>5. \A u \in Restorers : u = t => mine'[u] = mine[u]
  BY <1>1
<1>6. \A r \in Restorers : pc'[r] \in Writing \cup {"flush", "answer"} => mine'[r] \in captured'
  BY <1>2, <1>4, <1>5 DEF Seen, Tasks
<1>7. crashes' = 0 =>
         \A u \in Updates' : u \in captured' \/ \E r \in Tasks : pc'[r] \in {"capture", "hash"} /\ mine'[r] = u
  <2> SUFFICES ASSUME crashes = 0, NEW u \in Updates, u \notin captured'
               PROVE  \E r \in Tasks : pc'[r] \in {"capture", "hash"} /\ mine'[r] = u
    BY <1>1, <1>3
  <2>1. PICK r \in Tasks : pc[r] \in {"capture", "hash"} /\ mine[r] = u
    BY <1>2 DEF Seen
  <2> QED
    BY <1>2, <1>4, <2>1
<1> QED
  BY <1>2, <1>6, <1>7 DEF Seen

\* A new update is about to be captured.
LEMMA RequestSeen ==
    ASSUME TypeInv, Seen, NEW t \in Tasks, Apply(t) \/ Restore(t)
    PROVE  Seen'
<1> USE DEF memory, read, local, store, marks, ghosts, bounds
<1>1. /\ pc[t] \in {"in", "out"} /\ UNCHANGED <<last, captured, crashes>> /\ pc \in [Tasks -> Places]
      /\ mine \in [Tasks -> Nat] /\ made \in Nat /\ pc' = [pc EXCEPT ![t] = "capture"]
  BY DEF Apply, Restore, TypeInv, TypeOK
<1>2. \/ made' = made + 1 /\ mine' = [mine EXCEPT ![t] = made + 1]
      \/ made' = made /\ \E u \in Nat : mine' = [mine EXCEPT ![t] = u]
  <2>1. \A u \in 1..made : u \in Nat
    BY <1>1
  <2> QED
    BY <2>1 DEF Apply, Restore
<1>3. \A u \in Tasks : u # t => pc'[u] = pc[u] /\ mine'[u] = mine[u]
  BY <1>1, <1>2
<1>4. pc'[t] = "capture"
  BY <1>1
<1>5. \A r \in Restorers : pc'[r] \in Writing \cup {"flush", "answer"} => mine'[r] \in captured'
  BY <1>1, <1>3, <1>4 DEF Seen, Tasks, Writing
<1>6. ASSUME crashes = 0, NEW u \in Updates', u \notin captured
      PROVE  \E r \in Tasks : pc'[r] \in {"capture", "hash"} /\ mine'[r] = u
  <2>1. CASE u \in Updates
    <3>1. PICK r \in Tasks : pc[r] \in {"capture", "hash"} /\ mine[r] = u
      BY <1>6, <2>1 DEF Seen
    <3> QED
      BY <1>1, <1>3, <3>1
  <2>2. CASE u \notin Updates
    <3>1. made' = made + 1 /\ u = made + 1
      BY <1>1, <1>2, <1>6, <2>2 DEF Updates
    <3>2. mine'[t] = u
      BY <1>1, <1>2, <3>1
    <3> QED
      BY <1>4, <3>2
  <2> QED
    BY <2>1, <2>2
<1> QED
  BY <1>1, <1>5, <1>6 DEF Seen

\* No other step takes an update from a task that is about to capture it.
LEMMA OthersSeen ==
    ASSUME TypeInv, Seen, NEW t \in Tasks,
           \/ Wait(t) \/ Join(t) \/ Answer(t) \/ Leave(t) \/ OnTimer(t) \/ StartCapture(t)
           \/ FlushNothing(t) \/ Take(t) \/ ReadOpen(t) \/ Rebuild(t) \/ ReadMax(t) \/ NewChunk(t)
           \/ Commit(t) \/ CommitConflict(t) \/ WriteFails(t)
    PROVE  Seen'
<1> USE DEF memory, read, local, store, marks, ghosts, bounds
<1>1. UNCHANGED <<made, mine, captured, crashes>> /\ last' \in {0, last}
  BY DEF Wait, Join, Answer, Leave, OnTimer, StartCapture, FlushNothing, Take, ReadOpen, Rebuild, ReadMax,
     NewChunk, Commit, CommitConflict, WriteFails, Abort, DropState, WorkOn
<1>2. pc' = pc \/ \E p \in Places : /\ pc' = [pc EXCEPT ![t] = p]
                                    /\ pc[t] \in {"capture", "hash"} => p \in {"capture", "hash"}
                                    /\ t \in Restorers /\ p \in Writing \cup {"flush", "answer"} =>
                                         pc[t] \in Writing \cup {"flush", "answer"}
  <2>1. CASE Wait(t) \/ Join(t) \/ Answer(t) \/ StartCapture(t)
    BY <2>1 DEF Wait, Join, Answer, StartCapture, Places, Writing
  <2>2. CASE Leave(t) \/ OnTimer(t)
    BY <2>2, KindsDistinct DEF Leave, OnTimer, Places, Writing
  <2>3. CASE FlushNothing(t) \/ Take(t) \/ ReadOpen(t) \/ Rebuild(t) \/ ReadMax(t) \/ NewChunk(t)
    BY <2>3 DEF FlushNothing, Take, ReadOpen, Rebuild, ReadMax, NewChunk, AfterFlush, Idle, Places, Writing
  <2>4. CASE Commit(t) \/ CommitConflict(t) \/ WriteFails(t)
    BY <2>4 DEF Commit, CommitConflict, WriteFails, Abort, AfterFlush, Idle, Places, Writing
  <2> QED
    BY <2>1, <2>2, <2>3, <2>4
<1>3. pc \in [Tasks -> Places]
  BY DEF TypeInv, TypeOK
<1>4. /\ \A u \in Tasks : pc[u] \in {"capture", "hash"} => pc'[u] \in {"capture", "hash"}
      /\ \A u \in Restorers : pc'[u] \in Writing \cup {"flush", "answer"} =>
                                pc[u] \in Writing \cup {"flush", "answer"}
  BY <1>2, <1>3 DEF Tasks
<1>5. Updates' = Updates
  BY <1>1 DEF Updates
<1> QED
  BY <1>1, <1>4, <1>5 DEF Seen

\* Every step keeps Seen.
LEMMA SeenStep ==
    ASSUME TypeInv, Seen, [Next]_vars
    PROVE  Seen'
<1> USE DEF memory, read, local, store, marks, ghosts, bounds
<1>1. CASE UNCHANGED vars
  BY <1>1 DEF Seen, Updates, vars
<1>2. ASSUME NEW t \in Tasks, Progress(t) \/ Request(t) \/ WriteFails(t)
      PROVE  Seen'
  BY <1>2, CaptureSeen, RequestSeen, OthersSeen DEF Progress, Request
<1>3. CASE Compact
  BY <1>3 DEF Compact, Seen, Updates
<1>4. CASE Crash
  <2>1. last' = 0 /\ captured' = captured /\ crashes' # 0 /\ pc' = [t \in Tasks |-> "out"]
    BY <1>4 DEF Crash, TypeInv, TypeOK
  <2> QED
    BY <2>1 DEF Seen, Tasks, Writing
<1> QED
  BY <1>1, <1>2, <1>3, <1>4 DEF Next

\* Seen holds at first.
LEMMA SeenInit ==
    ASSUME Init
    PROVE  Seen
BY DEF Init, Seen, Tasks, Writing, Updates

-----------------------------------------------------------------------------
(* One write at a time *)

\* One write at a time, which knows the chunk and the version it writes after.
OneWriter ==
    /\ ~undercut
    /\ \A t, u \in Tasks : pc[t] \in Writing /\ pc[u] \in Writing => t = u
    /\ \A t \in Tasks : pc[t] \in {"first", "commit"} => tail[t] = MaxVersion
    /\ \A t \in Tasks : pc[t] \in {"rebuild", "tail", "first", "commit"} =>
          open[t] = Len(chunks) /\ (open[t] # 0 => end[t] = MaxVersion)

\* A CRDT holds what is stored and what it takes, all states before, and nothing
\* else but updates of writes that raised.
Holds(ops, more) ==
    /\ Stored \cup more \subseteq ops /\ ops \subseteq Stored \cup more \cup failed
    /\ \A c \in DOMAIN chunks : chunks[c].state \subseteq ops
Working == {"tail", "first", "commit"}
Replicas ==
    /\ StatesHold /\ StatesGrow
    /\ \A t \in Tasks : pc[t] \in Working => replica \in {0, rep[t]}
    /\ \A t \in Tasks : pc[t] \in {"tail", "first"} => Holds(heap[rep[t]], {})
    /\ \A t \in Tasks : pc[t] = "commit" => Holds(heap[rep[t]], Ops(pend[t]))
    /\ \A t \in Tasks : pc[t] \in {"first", "commit"} /\ open[t] = 0 =>
          base[t] \subseteq failed /\ base[t] \subseteq heap[rep[t]]
    /\ (\A t \in Tasks : pc[t] \notin Working) /\ replica # 0 => Holds(heap[replica], {})

\* The text of a restore is on its way, then stored.
OnItsWay ==
    /\ \A t \in Restorers : pc[t] \in Writing =>
          mine[t] \in Ops(pend[t]) \cup Stored \cup failed \cup forgotten
    /\ \A t \in Restorers : pc[t] = "answer" => mine[t] \in Stored \cup failed \cup forgotten
AloneInv == ~overlapped => OneWriter /\ Replicas /\ (~bypassed => OnItsWay)

\* Steps that leave the writes, the CRDTs and the database alone.
LEMMA CalmAlone ==
    ASSUME AloneInv,
           UNCHANGED <<chunks, rows, undercut, failed, forgotten, overlapped, bypassed, open, end, tail, rep,
                       base, heap, replica, pend>>,
           \A u \in Tasks : pc[u] \in Writing \/ pc'[u] \in Writing => pc'[u] = pc[u],
           \A u \in Restorers : pc'[u] \in Writing \cup {"answer"} => pc'[u] = pc[u] /\ mine'[u] = mine[u]
    PROVE  AloneInv'
<1> SUFFICES ASSUME ~overlapped PROVE OneWriter' /\ Replicas' /\ (~bypassed => OnItsWay')
  BY DEF AloneInv
<1>1. OneWriter /\ Replicas /\ (~bypassed => OnItsWay)
  BY DEF AloneInv
<1>2. MaxVersion' = MaxVersion /\ Stored' = Stored
  BY DEF MaxVersion, OnRecord, Stored
<1>3. \A u \in Tasks : \A p \in Writing : pc'[u] = p <=> pc[u] = p
  OBVIOUS
<1>4. \A u \in Tasks : /\ pc'[u] \in Writing <=> pc[u] \in Writing
                       /\ pc'[u] \in {"first", "commit"} <=> pc[u] \in {"first", "commit"}
                       /\ pc'[u] \in {"rebuild", "tail", "first", "commit"} <=>
                            pc[u] \in {"rebuild", "tail", "first", "commit"}
                       /\ pc'[u] \in Working <=> pc[u] \in Working
                       /\ pc'[u] \in {"tail", "first"} <=> pc[u] \in {"tail", "first"}
                       /\ pc'[u] = "commit" <=> pc[u] = "commit"
  BY <1>3 DEF Writing, Working
<1>5. OneWriter'
  BY <1>1, <1>2, <1>4 DEF OneWriter
<1>6. \A ops, more : Holds(ops, more)' <=> Holds(ops, more)
  BY <1>2 DEF Holds
<1>7. StatesHold' /\ StatesGrow'
  BY <1>1 DEF Replicas, StatesHold, StatesGrow, RowsBefore
<1>8. Replicas'
  BY <1>1, <1>2, <1>4, <1>7 DEF Replicas, Holds, Ops
<1>9. ~bypassed => OnItsWay'
  BY <1>1, <1>2 DEF OnItsWay, Ops
<1> QED
  BY <1>5, <1>8, <1>9

\* Callers and captures leave a write alone.
LEMMA CallersAlone ==
    ASSUME TypeInv, AloneInv, NEW t \in Tasks,
           \/ Wait(t) \/ Join(t) \/ Apply(t) \/ Restore(t) \/ Answer(t) \/ Leave(t) \/ OnTimer(t)
           \/ StartCapture(t) \/ CaptureAgain(t) \/ Capture(t)
    PROVE  AloneInv'
<1> USE DEF memory, read, local, store, marks, ghosts, bounds
<1>1. UNCHANGED <<chunks, rows, undercut, failed, forgotten, overlapped, bypassed, open, end, tail, rep,
                  base, heap, replica, pend>>
  BY DEF Wait, Join, Apply, Restore, Answer, Leave, OnTimer, StartCapture, CaptureAgain, Capture
<1>2. (pc' = pc /\ mine' = mine) \/ \E p \in Places \ (Writing \cup {"answer"}) :
                         pc' = [pc EXCEPT ![t] = p] /\ pc[t] \notin Writing
  BY DEF Wait, Join, Apply, Restore, Answer, Leave, OnTimer, StartCapture, CaptureAgain, Capture, Writing,
     Places, Idle, AfterCapture
<1>3. \A u \in Tasks : u # t => mine'[u] = mine[u]
  <2>1. mine \in [Tasks -> Nat]
    BY DEF TypeInv, TypeOK
  <2>2. mine' = mine \/ \E n : mine' = [mine EXCEPT ![t] = n]
    BY DEF Wait, Join, Apply, Restore, Answer, Leave, OnTimer, StartCapture, CaptureAgain, Capture, Brought
  <2> QED
    BY <2>1, <2>2
<1>4. pc \in [Tasks -> Places] /\ Restorers \subseteq Tasks
  BY DEF TypeInv, TypeOK, Tasks
<1>5. \A u \in Tasks : pc[u] \in Writing \/ pc'[u] \in Writing => pc'[u] = pc[u]
  BY <1>2, <1>4
<1>6. \A u \in Restorers : pc'[u] \in Writing \cup {"answer"} => pc'[u] = pc[u] /\ mine'[u] = mine[u]
  BY <1>2, <1>3, <1>4
<1> QED
  BY <1>1, <1>5, <1>6, CalmAlone

\* When no other lock guards a write, none runs beside a task that enters a lock.
LEMMA NoneWriting ==
    ASSUME TypeInv, NEW t \in Tasks, Enter(t), ~WritesElsewhere(t)
    PROVE  \A u \in Tasks : pc[u] \notin Writing
BY DEF Enter, Free, WritesElsewhere, Writing

\* A flush that finds nothing may drop the replica, never the CRDT of a write; and if no
\* write was running, what a restore brought is stored.
LEMMA FlushNothingAlone ==
    ASSUME TypeInv, KeptInv, Seen, AloneInv, NEW t \in Tasks, FlushNothing(t)
    PROVE  AloneInv'
<1> USE DEF memory, read, local, store, marks, ghosts, bounds
<1> SUFFICES ASSUME ~overlapped PROVE OneWriter' /\ Replicas' /\ (~bypassed' => OnItsWay')
  BY DEF AloneInv, FlushNothing
<1>1. OneWriter /\ Replicas /\ (~bypassed => OnItsWay)
  BY DEF AloneInv
<1>2. /\ UNCHANGED <<chunks, rows, undercut, failed, pend, open, end, tail, rep, base, mine>>
      /\ pc' = [pc EXCEPT ![t] = AfterFlush(t)] /\ pc[t] = "flush"
      /\ bypassed' = (bypassed \/ WritesElsewhere(t)) /\ forgotten \subseteq forgotten'
      /\ replica' \in {0, replica} /\ (heap' = heap \/ heap' = InUse(heap))
  BY DEF FlushNothing, DropState
<1>3. pc \in [Tasks -> Places] /\ Restorers \subseteq Tasks
  BY DEF TypeInv, TypeOK, Tasks
<1>4. pc'[t] \notin Writing /\ (pc'[t] = "answer" => t \in Restorers) /\ \A u \in Tasks : u # t => pc'[u] = pc[u]
  BY <1>2, <1>3 DEF AfterFlush, Idle, Writing
<1>5. \A u \in Tasks : /\ pc'[u] \in Writing <=> pc[u] \in Writing
                       /\ pc'[u] \in {"first", "commit"} <=> pc[u] \in {"first", "commit"}
                       /\ pc'[u] \in {"rebuild", "tail", "first", "commit"} <=>
                            pc[u] \in {"rebuild", "tail", "first", "commit"}
                       /\ pc'[u] \in Working <=> pc[u] \in Working
                       /\ pc'[u] \in {"tail", "first"} <=> pc[u] \in {"tail", "first"}
                       /\ pc'[u] = "commit" <=> pc[u] = "commit"
  BY <1>2, <1>4 DEF Writing, Working
<1>6. MaxVersion' = MaxVersion /\ Stored' = Stored
  BY <1>2 DEF MaxVersion, OnRecord, Stored
<1>7. OneWriter'
  BY <1>1, <1>2, <1>5, <1>6 DEF OneWriter
<1>8. StatesHold' /\ StatesGrow'
  BY <1>1, <1>2 DEF Replicas, StatesHold, StatesGrow, RowsBefore
<1>9. /\ \A u \in Tasks : rep[u] \in CRDTs => heap'[rep[u]] = heap[rep[u]]
      /\ replica' \in CRDTs => heap'[replica'] = heap[replica']
  BY <1>2 DEF InUse
<1>10. 0 \notin CRDTs /\ replica \in {0} \cup CRDTs /\ \A u \in Tasks : pc[u] \in Working => rep[u] \in CRDTs
  <2>1. \A u \in Tasks : pc[u] \in Working => rep[u] # 0 /\ rep[u] \in {0} \cup CRDTs
    BY DEF TypeInv, TypeOK, ShapeInv, Working
  <2> QED
    BY <2>1 DEF TypeInv, TypeOK, CRDTs
<1>11. Replicas'
  <2>1. \A u \in Tasks : pc'[u] \in Working => replica' \in {0, rep'[u]}
    BY <1>1, <1>2, <1>5 DEF Replicas
  <2>2. \A u \in Tasks : pc'[u] \in {"tail", "first"} => Holds(heap[rep[u]], {})'
    <3> SUFFICES ASSUME NEW u \in Tasks, pc'[u] \in {"tail", "first"} PROVE Holds(heap[rep[u]], {})'
      OBVIOUS
    <3>1. pc[u] \in {"tail", "first"} /\ pc[u] \in Working
      BY <1>5 DEF Working
    <3>2. Holds(heap[rep[u]], {})
      BY <1>1, <3>1 DEF Replicas
    <3>3. rep'[u] = rep[u] /\ heap'[rep[u]] = heap[rep[u]]
      BY <1>2, <1>9, <1>10, <3>1
    <3> QED
      BY <1>2, <1>6, <3>2, <3>3 DEF Holds
  <2>3. \A u \in Tasks : pc'[u] = "commit" => Holds(heap[rep[u]], Ops(pend[u]))'
    <3> SUFFICES ASSUME NEW u \in Tasks, pc'[u] = "commit" PROVE Holds(heap[rep[u]], Ops(pend[u]))'
      OBVIOUS
    <3>1. pc[u] = "commit" /\ pc[u] \in Working
      BY <1>5 DEF Working
    <3>2. Holds(heap[rep[u]], Ops(pend[u]))
      BY <1>1, <3>1 DEF Replicas
    <3>3. rep'[u] = rep[u] /\ heap'[rep[u]] = heap[rep[u]]
      BY <1>2, <1>9, <1>10, <3>1
    <3>4. Ops(pend[u])' = Ops(pend[u])
      BY <1>2 DEF Ops
    <3> QED
      BY <1>2, <1>6, <3>2, <3>3, <3>4 DEF Holds
  <2>4. \A u \in Tasks : pc'[u] \in {"first", "commit"} /\ open'[u] = 0 =>
          base'[u] \subseteq failed' /\ base'[u] \subseteq heap'[rep'[u]]
    BY <1>1, <1>2, <1>5, <1>9, <1>10 DEF Replicas, Working
  <2>5. (\A u \in Tasks : pc'[u] \notin Working) /\ replica' # 0 => Holds(heap[replica], {})'
    <3> SUFFICES ASSUME \A u \in Tasks : pc'[u] \notin Working, replica' # 0 PROVE Holds(heap[replica], {})'
      OBVIOUS
    <3>1. Holds(heap[replica], {}) /\ heap'[replica'] = heap[replica]
      BY <1>1, <1>2, <1>5, <1>9, <1>10 DEF Replicas
    <3> QED
      BY <1>2, <1>6, <3>1 DEF Holds
  <2> QED
    BY <1>8, <2>1, <2>2, <2>3, <2>4, <2>5 DEF Replicas
<1>12. ASSUME ~bypassed' PROVE OnItsWay'
  <2>1. OnItsWay /\ ~WritesElsewhere(t) /\ ~bypassed
    BY <1>1, <1>2, <1>12
  <2>2. \A u \in Tasks : pc[u] \notin Writing
    BY <2>1, NoneWriting DEF FlushNothing
  <2>3. captured \subseteq Stored \cup failed \cup forgotten
    <3>1. Pending = {}
      BY <2>2 DEF KeptInv, InHand, Pending, Ops, FlushNothing
    <3> QED
      BY <3>1 DEF KeptInv, CapturedKept
  <2>4. t \in Restorers => mine[t] \in Stored \cup failed \cup forgotten
    BY <1>2, <2>3 DEF Seen
  <2> QED
    BY <1>2, <1>3, <1>4, <1>5, <1>6, <2>1, <2>2, <2>4 DEF OnItsWay
<1> QED
  BY <1>7, <1>11, <1>12

\* A flush that takes the buffer becomes the only writer.
LEMMA TakeAlone ==
    ASSUME TypeInv, KeptInv, Seen, AloneInv, NEW t \in Tasks, Take(t)
    PROVE  AloneInv'
<1> USE DEF memory, read, local, store, marks, ghosts, bounds
<1> SUFFICES ASSUME ~overlapped' PROVE OneWriter' /\ Replicas' /\ (~bypassed' => OnItsWay')
  BY DEF AloneInv
<1>1. /\ UNCHANGED <<chunks, rows, undercut, failed, open, end, tail, rep, base, mine, replica, heap, bypassed,
                     forgotten>>
      /\ pc' = [pc EXCEPT ![t] = "write"] /\ pc[t] = "flush"
      /\ pend' = [pend EXCEPT ![t] = buffer]
      /\ ~overlapped /\ ~WritesElsewhere(t)
  BY DEF Take
<1>2. OneWriter /\ Replicas /\ (~bypassed => OnItsWay)
  BY <1>1 DEF AloneInv
<1>3. pc \in [Tasks -> Places] /\ Restorers \subseteq Tasks /\ pend \in [Tasks -> Seq(Updates)]
  BY DEF TypeInv, TypeOK, Tasks
<1>4. \A u \in Tasks : pc[u] \notin Writing
  BY <1>1, NoneWriting DEF Take
<1>5. pc'[t] = "write" /\ \A u \in Tasks : u # t => pc'[u] = pc[u]
  BY <1>1, <1>3
<1>6. \A u \in Tasks : pc'[u] \notin {"rebuild", "tail", "first", "commit"} /\ (pc'[u] \in Writing => u = t)
  BY <1>4, <1>5 DEF Writing
<1>7. MaxVersion' = MaxVersion /\ Stored' = Stored
  BY <1>1 DEF MaxVersion, OnRecord, Stored
<1>8. OneWriter'
  BY <1>1, <1>2, <1>6 DEF OneWriter
<1>9. StatesHold' /\ StatesGrow'
  BY <1>1, <1>2 DEF Replicas, StatesHold, StatesGrow, RowsBefore
<1>10. Replicas'
  <2>1. replica # 0 => Holds(heap[replica], {})
    BY <1>2, <1>4 DEF Replicas, Working, Writing
  <2>2. replica' # 0 => Holds(heap[replica], {})'
    BY <1>1, <1>7, <2>1 DEF Holds
  <2> QED
    BY <1>6, <1>9, <2>2 DEF Replicas, Working
<1>11. ASSUME ~bypassed' PROVE OnItsWay'
  <2>1. OnItsWay
    BY <1>1, <1>2, <1>11
  <2>2. captured \subseteq Ops(buffer) \cup Stored \cup failed \cup forgotten
    <3>1. Pending = Ops(buffer)
      BY <1>4 DEF KeptInv, InHand, Pending, Ops
    <3> QED
      BY <3>1 DEF KeptInv, CapturedKept
  <2>3. t \in Restorers => mine[t] \in Ops(buffer) \cup Stored \cup failed \cup forgotten
    BY <1>1, <2>2 DEF Seen
  <2>4. Ops(pend[t])' = Ops(buffer)
    BY <1>1, <1>3 DEF Ops
  <2>5. \A u \in Restorers : pc'[u] = "answer" => pc[u] = "answer"
    BY <1>3, <1>5
  <2> QED
    BY <1>1, <1>3, <1>6, <1>7, <2>1, <2>3, <2>4, <2>5 DEF OnItsWay
<1> QED
  BY <1>8, <1>10, <1>11

\* What the step of the only write has to leave behind.
LEMMA OnlyWriter ==
    ASSUME TypeInv, OneWriter, Replicas, ~bypassed => OnItsWay,
           NEW t \in Tasks, pc[t] \in Writing, NEW p \in Places, pc' = [pc EXCEPT ![t] = p],
           UNCHANGED <<mine, bypassed>>, ~undercut',
           Stored \cup failed \cup forgotten \subseteq Stored' \cup failed' \cup forgotten',
           p \in {"first", "commit"} => tail'[t] = MaxVersion',
           p \in {"rebuild", "tail", "first", "commit"} =>
              open'[t] = Len(chunks') /\ (open'[t] # 0 => end'[t] = MaxVersion'),
           StatesHold', StatesGrow',
           p \in Working => replica' \in {0, rep'[t]},
           p \in {"tail", "first"} => Holds(heap[rep[t]], {})',
           p = "commit" => Holds(heap[rep[t]], Ops(pend[t]))',
           p \in {"first", "commit"} /\ open'[t] = 0 => base'[t] \subseteq failed' /\ base'[t] \subseteq heap'[rep'[t]],
           p \notin Working /\ replica' # 0 => Holds(heap[replica], {})',
           t \in Restorers /\ ~bypassed =>
              /\ p \in Writing => mine[t] \in Ops(pend[t])' \cup Stored' \cup failed' \cup forgotten'
              /\ p = "answer" => mine[t] \in Stored' \cup failed' \cup forgotten'
    PROVE  AloneInv'
<1>1. pc \in [Tasks -> Places] /\ Restorers \subseteq Tasks
  BY DEF TypeInv, TypeOK, Tasks
<1>2. pc'[t] = p /\ \A u \in Tasks : u # t => pc'[u] = pc[u] /\ pc[u] \notin Writing
  BY <1>1 DEF OneWriter
<1>3. \A u \in Tasks : pc'[u] \in Writing => u = t
  BY <1>2
<1>4. \A u \in Tasks : pc'[u] \in {"rebuild", "tail", "first", "commit"} \cup Working => u = t
  BY <1>3 DEF Writing, Working
<1>5. OneWriter'
  BY <1>2, <1>3, <1>4 DEF OneWriter
<1>6. Replicas'
  <2>1. \A u \in Tasks : pc'[u] \in {"tail", "first"} => Holds(heap[rep[u]], {})'
    BY <1>2, <1>4
  <2>2. \A u \in Tasks : pc'[u] = "commit" => Holds(heap[rep[u]], Ops(pend[u]))'
    BY <1>2, <1>4
  <2>3. \A u \in Tasks : pc'[u] \in Working => replica' \in {0, rep'[u]}
    BY <1>2, <1>4
  <2>4. \A u \in Tasks : pc'[u] \in {"first", "commit"} /\ open'[u] = 0 =>
          base'[u] \subseteq failed' /\ base'[u] \subseteq heap'[rep'[u]]
    BY <1>2, <1>4
  <2>5. (\A u \in Tasks : pc'[u] \notin Working) /\ replica' # 0 => Holds(heap[replica], {})'
    BY <1>2
  <2> QED
    BY <2>1, <2>2, <2>3, <2>4, <2>5 DEF Replicas
<1>7. ASSUME ~bypassed' PROVE OnItsWay'
  <2>1. OnItsWay /\ ~bypassed /\ mine' = mine
    BY <1>7
  <2>2. ASSUME NEW u \in Restorers, pc'[u] \in Writing
        PROVE  mine'[u] \in Ops(pend[u])' \cup Stored' \cup failed' \cup forgotten'
    BY <1>1, <1>2, <1>3, <2>1, <2>2
  <2>3. ASSUME NEW u \in Restorers, pc'[u] = "answer"
        PROVE  mine'[u] \in Stored' \cup failed' \cup forgotten'
    BY <1>1, <1>2, <2>1, <2>3 DEF OnItsWay
  <2> QED
    BY <2>2, <2>3 DEF OnItsWay
<1> QED
  BY <1>5, <1>6, <1>7 DEF AloneInv

\* Only the last chunk is open.
LEMMA OpenIsLast ==
    ASSUME TypeInv, Tiles
    PROVE  /\ Max({0} \cup Open) = Len(chunks) /\ Len(chunks) \in Nat
           /\ Open = {} <=> chunks = <<>>
           /\ Open # {} => Max(Open) = Len(chunks) /\ chunks[Len(chunks)].end = MaxVersion
<1>1. /\ Max({0} \cup Open) \in {0} \cup DOMAIN chunks
      /\ Open # {} => Max(Open) \in Open /\ Max({0} \cup Open) \in Open
      /\ Open \subseteq DOMAIN chunks /\ DOMAIN chunks = 1..Len(chunks) /\ Len(chunks) \in Nat
  BY OpenChunk
<1>2. \A c \in Open : c = Len(chunks)
  BY <1>1 DEF Open, Tiles, ChunkShape
<1>3. Open = {} => chunks = <<>> /\ Len(chunks) = 0
  BY NoOpen, ChunkFacts
<1>4. chunks = <<>> => Open = {}
  BY <1>1, ChunkFacts
<1>5. Open = {} => {0} \cup Open = {0} /\ Max({0} \cup Open) = 0
  BY <1>1, <1>3
<1>6. Open # {} => chunks[Len(chunks)].end = MaxVersion
  BY <1>4 DEF Tiles, EndIsMax
<1> QED
  BY <1>1, <1>2, <1>3, <1>4, <1>5, <1>6

\* A write reads the last chunk, and has a replica that holds what is stored.
LEMMA ReadOpenAlone ==
    ASSUME TypeInv, TileInv, AloneInv, NEW t \in Tasks, ReadOpen(t)
    PROVE  AloneInv'
<1> USE DEF memory, read, local, store, marks, ghosts, bounds
<1> SUFFICES ASSUME ~overlapped PROVE AloneInv'
  BY DEF AloneInv, ReadOpen
<1>1. OneWriter /\ Replicas /\ (~bypassed => OnItsWay) /\ Tiles
  BY DEF AloneInv, TileInv, OneWriter
<1>2. /\ UNCHANGED <<chunks, rows, undercut, failed, forgotten, overlapped, bypassed, mine, pend>>
      /\ open' = [open EXCEPT ![t] = Max({0} \cup Open)] /\ pc[t] = "write"
      /\ end' = [end EXCEPT ![t] = IF Open = {} THEN 0 ELSE chunks[Max(Open)].end]
  BY DEF ReadOpen
<1>3. /\ open \in [Tasks -> Nat] /\ end \in [Tasks -> Nat] /\ rep \in [Tasks -> {0} \cup CRDTs]
      /\ heap \in [CRDTs -> SUBSET Updates] /\ pc \in [Tasks -> Places] /\ Restorers \subseteq Tasks
  BY DEF TypeInv, TypeOK, Tasks
<1>4. open'[t] = Len(chunks') /\ (open'[t] # 0 => end'[t] = MaxVersion')
  <2>1. MaxVersion' = MaxVersion
    BY <1>2 DEF MaxVersion, OnRecord
  <2> QED
    BY <1>1, <1>2, <1>3, <2>1, OpenIsLast, ChunkFacts
<1>5. Stored' = Stored /\ StatesHold' /\ StatesGrow'
  BY <1>1, <1>2 DEF Replicas, StatesHold, StatesGrow, RowsBefore, Stored
<1>6. \A u \in Tasks : pc[u] \notin Working
  BY <1>1, <1>2 DEF OneWriter, Working, Writing
<1>7. Ops(pend[t])' = Ops(pend[t])
  BY <1>2 DEF Ops
<1>8. ~bypassed /\ t \in Restorers => mine[t] \in Ops(pend[t])' \cup Stored' \cup failed' \cup forgotten'
  BY <1>1, <1>2, <1>5, <1>7 DEF OnItsWay, Writing
<1>9. CASE replica # 0
  <2>1. pc' = [pc EXCEPT ![t] = "tail"] /\ rep'[t] = replica /\ UNCHANGED <<replica, heap>>
    BY <1>3, <1>9 DEF ReadOpen
  <2>2. Holds(heap[replica], {})
    BY <1>1, <1>6, <1>9 DEF Replicas
  <2>3. Holds(heap[rep[t]], {})'
    BY <1>2, <1>5, <2>1, <2>2 DEF Holds
  <2>4. "tail" \in Places /\ "tail" \in Writing /\ "tail" \in Working /\ pc[t] \in Writing
    BY <1>2 DEF Places, Writing, Working
  <2> QED
    BY <1>1, <1>2, <1>4, <1>5, <1>8, <2>1, <2>3, <2>4, OnlyWriter DEF OneWriter
<1>10. CASE replica = 0 /\ Open = {}
  <2>1. pc' = [pc EXCEPT ![t] = "tail"] /\ WorkOn(t, NewCRDT, {})
    BY <1>10 DEF ReadOpen
  <2>2. NewCRDT \in CRDTs
    BY <1>2, NewCRDTType DEF TypeInv, ShapeInv
  <2>3. rep'[t] = NewCRDT /\ replica' = NewCRDT /\ heap'[NewCRDT] = {}
    BY <1>3, <2>1, <2>2 DEF WorkOn, InUse
  <2>4. chunks = <<>> /\ rows = {} /\ DOMAIN chunks = {}
    BY <1>1, <1>10, NoOpen, ChunkFacts
  <2>5. Holds(heap[rep[t]], {})'
    BY <1>2, <2>3, <2>4 DEF Holds, Stored
  <2>6. "tail" \in Places /\ "tail" \in Writing /\ "tail" \in Working /\ pc[t] \in Writing
    BY <1>2 DEF Places, Writing, Working
  <2> QED
    BY <1>1, <1>2, <1>4, <1>5, <1>8, <2>1, <2>3, <2>5, <2>6, OnlyWriter DEF OneWriter
<1>11. CASE replica = 0 /\ Open # {}
  <2>1. pc' = [pc EXCEPT ![t] = "rebuild"] /\ replica' = 0
    BY <1>11 DEF ReadOpen
  <2>2. "rebuild" \in Places /\ "rebuild" \in Writing /\ "rebuild" \notin Working /\ pc[t] \in Writing
    BY <1>2 DEF Places, Writing, Working
  <2> QED
    BY <1>1, <1>2, <1>4, <1>5, <1>8, <2>1, <2>2, OnlyWriter DEF OneWriter
<1> QED
  BY <1>9, <1>10, <1>11

\* A replica rebuilt at the end of the open chunk holds what is stored.
LEMMA RebuildAlone ==
    ASSUME TypeInv, TileInv, AloneInv, NEW t \in Tasks, Rebuild(t)
    PROVE  AloneInv'
<1> USE DEF memory, read, local, store, marks, ghosts, bounds
<1> SUFFICES ASSUME ~overlapped PROVE AloneInv'
  BY DEF AloneInv, Rebuild
<1>1. OneWriter /\ Replicas /\ (~bypassed => OnItsWay) /\ Tiles
  BY DEF AloneInv, TileInv, OneWriter
<1>2. /\ UNCHANGED <<chunks, rows, undercut, failed, forgotten, overlapped, bypassed, mine, pend, open, end>>
      /\ pc[t] = "rebuild" /\ pc' = [pc EXCEPT ![t] = "tail"] /\ Found(end[t])
      /\ WorkOn(t, NewCRDT, Rebuilt(t))
  BY DEF Rebuild
<1>3. /\ rep \in [Tasks -> {0} \cup CRDTs] /\ heap \in [CRDTs -> SUBSET Updates] /\ Restorers \subseteq Tasks
  BY DEF TypeInv, TypeOK, Tasks
<1>4. Stored' = Stored /\ StatesHold' /\ StatesGrow' /\ StatesHold /\ StatesGrow /\ MaxVersion' = MaxVersion
  BY <1>1, <1>2 DEF Replicas, StatesHold, StatesGrow, RowsBefore, Stored, MaxVersion, OnRecord
<1>5. open[t] = Len(chunks) /\ (open[t] # 0 => end[t] = MaxVersion)
  BY <1>1, <1>2 DEF OneWriter
<1>6. chunks # <<>> /\ end[t] = MaxVersion
  <2>1. chunks # <<>>
    BY <1>2, ChunkFacts DEF Found, Spanning
  <2> QED
    BY <1>5, <2>1, ChunkFacts
<1>7. NewCRDT \in CRDTs
  BY <1>2, NewCRDTType DEF TypeInv, ShapeInv
<1>8. rep'[t] = NewCRDT /\ replica' = NewCRDT /\ heap'[NewCRDT] = Reconstruct(MaxVersion)
  BY <1>2, <1>3, <1>6, <1>7 DEF WorkOn, InUse, Rebuilt
<1>9. Holds(Reconstruct(MaxVersion), {})
  <2>1. /\ Stored \subseteq Reconstruct(MaxVersion) /\ Reconstruct(MaxVersion) \subseteq Stored \cup failed
        /\ chunks[Len(chunks)].state \subseteq Reconstruct(MaxVersion)
    BY <1>1, <1>4, <1>6, ReplayLast
  <2>2. \A c \in DOMAIN chunks : chunks[c].state \subseteq chunks[Len(chunks)].state
    <3>1. \A c \in DOMAIN chunks : c = Len(chunks) \/ (c < Len(chunks) /\ Len(chunks) \in DOMAIN chunks)
      BY ChunkFacts
    <3> QED
      BY <1>4, <3>1 DEF StatesGrow
  <2> QED
    BY <2>1, <2>2 DEF Holds
<1>10. Holds(heap[rep[t]], {})'
  BY <1>2, <1>4, <1>8, <1>9 DEF Holds
<1>11. Ops(pend[t])' = Ops(pend[t])
  BY <1>2 DEF Ops
<1>12. ~bypassed /\ t \in Restorers => mine[t] \in Ops(pend[t])' \cup Stored' \cup failed' \cup forgotten'
  BY <1>1, <1>2, <1>4, <1>11 DEF OnItsWay, Writing
<1>13. "tail" \in Places /\ "tail" \in Writing /\ "tail" \in Working /\ pc[t] \in Writing
  BY <1>2 DEF Places, Writing, Working
<1> QED
  BY <1>1, <1>2, <1>4, <1>5, <1>8, <1>10, <1>12, <1>13, OnlyWriter DEF OneWriter

\* A write that gives its updates to the replica holds them too; the first chunk begins
\* before them.
LEMMA ReadMaxAlone ==
    ASSUME TypeInv, TileInv, AloneInv, NEW t \in Tasks, ReadMax(t) \/ NewChunk(t)
    PROVE  AloneInv'
<1> USE DEF memory, read, local, store, marks, ghosts, bounds
<1> SUFFICES ASSUME ~overlapped PROVE AloneInv'
  BY DEF AloneInv, ReadMax, NewChunk
<1>1. OneWriter /\ Replicas /\ (~bypassed => OnItsWay) /\ Tiles /\ OnTheWay
  BY DEF AloneInv, TileInv, OneWriter
<1>2. /\ UNCHANGED <<chunks, rows, undercut, failed, forgotten, overlapped, bypassed, mine, pend, open, end,
                     replica, rep>>
      /\ pc[t] \in {"tail", "first"}
  BY DEF ReadMax, NewChunk
<1>3. /\ rep \in [Tasks -> {0} \cup CRDTs] /\ heap \in [CRDTs -> SUBSET Updates] /\ Restorers \subseteq Tasks
      /\ base \in [Tasks -> SUBSET Updates] /\ tail \in [Tasks -> Nat]
  BY DEF TypeInv, TypeOK, Tasks
<1>4. Stored' = Stored /\ StatesHold' /\ StatesGrow' /\ MaxVersion' = MaxVersion
  BY <1>1, <1>2 DEF Replicas, StatesHold, StatesGrow, RowsBefore, Stored, MaxVersion, OnRecord
<1>5. open[t] = Len(chunks) /\ (open[t] # 0 => end[t] = MaxVersion)
  BY <1>1, <1>2 DEF OneWriter
<1>6. rep[t] \in CRDTs /\ replica \in {0, rep[t]} /\ Holds(heap[rep[t]], {})
  BY <1>1, <1>2, <1>3 DEF Replicas, TypeInv, ShapeInv, Working
<1>7. Ops(pend[t])' = Ops(pend[t])
  BY <1>2 DEF Ops
<1>8. ~bypassed /\ t \in Restorers => mine[t] \in Ops(pend[t])' \cup Stored' \cup failed' \cup forgotten'
  BY <1>1, <1>2, <1>4, <1>7 DEF OnItsWay, Writing
<1>9. /\ {"first", "commit"} \subseteq Places /\ {"first", "commit"} \subseteq Writing
      /\ {"first", "commit"} \subseteq Working /\ pc[t] \in Writing
  BY <1>2 DEF Places, Writing, Working
<1>10. heap' = Updated(t) => Holds(heap[rep[t]], Ops(pend[t]))' /\ heap[rep[t]] \subseteq heap'[rep'[t]]
  <2> SUFFICES ASSUME heap' = Updated(t)
               PROVE Holds(heap[rep[t]], Ops(pend[t]))' /\ heap[rep[t]] \subseteq heap'[rep'[t]]
    OBVIOUS
  <2>1. heap'[rep'[t]] = heap[rep[t]] \cup Ops(pend[t])
    BY <1>2, <1>3, <1>6 DEF Updated
  <2> QED
    BY <1>2, <1>4, <1>6, <1>7, <2>1 DEF Holds
<1>11. CASE ReadMax(t) /\ open[t] = 0
  <2>1. /\ tail'[t] = MaxVersion' /\ base'[t] = heap[rep[t]] /\ heap' = heap
        /\ pc' = [pc EXCEPT ![t] = "first"]
    BY <1>3, <1>4, <1>11 DEF ReadMax
  <2>2. Stored = {}
    <3>1. rows = {}
      BY <1>1, <1>5, <1>11, ChunkFacts DEF Tiles, RowsInside
    <3> QED
      BY <3>1 DEF Stored
  <2>3. base'[t] \subseteq failed' /\ base'[t] \subseteq heap'[rep'[t]]
    BY <1>2, <1>6, <2>1, <2>2 DEF Holds
  <2>4. Holds(heap[rep[t]], {})'
    BY <1>2, <1>4, <1>6, <2>1 DEF Holds
  <2> QED
    BY <1>1, <1>2, <1>4, <1>5, <1>6, <1>8, <1>9, <2>1, <2>3, <2>4, OnlyWriter DEF OneWriter
<1>12. CASE ReadMax(t) /\ open[t] # 0
  <2>1. tail'[t] = MaxVersion' /\ heap' = Updated(t) /\ pc' = [pc EXCEPT ![t] = "commit"]
    BY <1>3, <1>4, <1>12 DEF ReadMax
  <2>2. open'[t] # 0
    BY <1>2, <1>12
  <2> QED
    BY <1>1, <1>2, <1>4, <1>5, <1>6, <1>8, <1>9, <1>10, <2>1, <2>2, OnlyWriter DEF OneWriter
<1>13. CASE NewChunk(t)
  <2>1. /\ heap' = Updated(t) /\ pc' = [pc EXCEPT ![t] = "commit"] /\ pc[t] = "first"
        /\ UNCHANGED <<tail, base>>
    BY <1>13 DEF NewChunk
  <2>2. tail'[t] = MaxVersion'
    BY <1>1, <1>4, <2>1 DEF OneWriter
  <2>3. base'[t] \subseteq failed' /\ base'[t] \subseteq heap'[rep'[t]]
    <3>1. open[t] = 0 /\ base[t] \subseteq failed /\ base[t] \subseteq heap[rep[t]]
      BY <1>1, <2>1 DEF OnTheWay, Replicas
    <3> QED
      BY <1>2, <1>10, <2>1, <3>1
  <2> QED
    BY <1>1, <1>2, <1>4, <1>5, <1>6, <1>8, <1>9, <1>10, <2>1, <2>2, <2>3, OnlyWriter DEF OneWriter
<1> QED
  BY <1>11, <1>12, <1>13

\* The replica keeps the updates of a write that raised: they are failed now.
LEMMA AbortAlone ==
    ASSUME TypeInv, AloneInv, NEW t \in Tasks, CommitConflict(t) \/ WriteFails(t)
    PROVE  AloneInv'
<1> USE DEF memory, read, local, store, marks, ghosts, bounds
<1> SUFFICES ASSUME ~overlapped PROVE AloneInv'
  BY DEF AloneInv, CommitConflict, WriteFails, Abort
<1>1. OneWriter /\ Replicas /\ (~bypassed => OnItsWay)
  BY DEF AloneInv
<1>2. /\ UNCHANGED <<chunks, rows, undercut, forgotten, overlapped, bypassed, mine, replica>>
      /\ pc[t] \in Writing /\ failed' = failed \cup Ops(pend[t]) /\ heap' = InUse(heap)
  BY DEF CommitConflict, WriteFails, Abort, Writing
<1>3. PICK p \in {"closing", "out"} : pc' = [pc EXCEPT ![t] = p]
  BY DEF CommitConflict, WriteFails, Abort
<1>4. /\ rep \in [Tasks -> {0} \cup CRDTs] /\ heap \in [CRDTs -> SUBSET Updates] /\ Restorers \subseteq Tasks
      /\ replica \in {0} \cup CRDTs
  BY DEF TypeInv, TypeOK, Tasks
<1>5. Stored' = Stored /\ StatesHold' /\ StatesGrow' /\ MaxVersion' = MaxVersion
  BY <1>1, <1>2 DEF Replicas, StatesHold, StatesGrow, RowsBefore, Stored, MaxVersion, OnRecord
<1>6. p \in Places /\ p \notin Writing /\ p \notin Working /\ p # "answer"
      /\ p \notin {"rebuild", "tail", "first", "commit"}
  BY <1>3 DEF Places, Writing, Working
<1>7. replica' # 0 => Holds(heap[replica], {})'
  <2> SUFFICES ASSUME replica # 0 PROVE Holds(heap[replica], {})'
    BY <1>2
  <2>1. heap'[replica'] = heap[replica]
    BY <1>2, <1>4 DEF InUse
  <2>2. Holds(heap[replica], {}) \/ Holds(heap[replica], Ops(pend[t]))
    <3>1. \A u \in Tasks : u # t => pc[u] \notin Working
      BY <1>1, <1>2 DEF OneWriter, Working, Writing
    <3>2. CASE pc[t] \notin Working
      BY <1>1, <3>1, <3>2 DEF Replicas
    <3>3. CASE pc[t] \in {"tail", "first"}
      BY <1>1, <3>3 DEF Replicas, Working
    <3>4. CASE pc[t] = "commit"
      BY <1>1, <3>4 DEF Replicas, Working
    <3> QED
      BY <3>2, <3>3, <3>4 DEF Working
  <2> QED
    BY <1>2, <1>5, <2>1, <2>2 DEF Holds
<1> QED
  BY <1>1, <1>2, <1>3, <1>5, <1>6, <1>7, OnlyWriter DEF OneWriter

\* A compaction cannot undercut the only writer, and moves nothing between chunks.
LEMMA CompactAlone ==
    ASSUME TypeInv, OneRow, TileInv, AloneInv, Compact
    PROVE  AloneInv'
<1> USE DEF memory, read, local, store, marks, ghosts, bounds
<1> SUFFICES ASSUME ~overlapped PROVE OneWriter' /\ Replicas' /\ (~bypassed => OnItsWay')
  BY DEF AloneInv, Compact
<1>1. OneWriter /\ Replicas /\ (~bypassed => OnItsWay)
  BY DEF AloneInv
<1>2. /\ UNCHANGED <<pc, mine, pend, open, end, tail, rep, base, heap, replica, chunks, failed, forgotten,
                     overlapped, bypassed>>
      /\ undercut' = (undercut \/ \E t \in Tasks : pc[t] = "commit" /\ tail[t] + 1 \in OnRecord \ OnRecord')
  BY DEF Compact
<1>3. Stored' = Stored /\ MaxVersion' = MaxVersion
  BY CompactKeeps, CompactMax
<1>4. ~undercut'
  <2>1. ASSUME NEW t \in Tasks, pc[t] = "commit", tail[t] + 1 \in OnRecord PROVE FALSE
    <3>1. tail[t] = MaxVersion
      BY <1>1, <2>1 DEF OneWriter
    <3> QED
      BY <2>1, <3>1, RecordType
  <2> QED
    BY <1>1, <1>2, <2>1 DEF OneWriter
<1>5. OneWriter'
  BY <1>1, <1>2, <1>3, <1>4 DEF OneWriter
<1>6. StatesHold' /\ StatesGrow'
  <2>1. \A c \in DOMAIN chunks : RowsBefore(c)' = RowsBefore(c)
    BY ChunksKeep, ChunkFacts
  <2> QED
    BY <1>1, <1>2, <2>1 DEF Replicas, StatesHold, StatesGrow
<1>7. Replicas'
  BY <1>1, <1>2, <1>3, <1>6 DEF Replicas, Holds, Ops
<1>8. ~bypassed => OnItsWay'
  BY <1>1, <1>2, <1>3 DEF OnItsWay, Ops
<1> QED
  BY <1>5, <1>7, <1>8

\* After a crash nobody writes, and the chunks are as they were.
LEMMA CrashAlone ==
    ASSUME TypeInv, AloneInv, Crash
    PROVE  AloneInv'
<1> USE DEF memory, read, local, store, marks, ghosts, bounds
<1> SUFFICES ASSUME ~overlapped PROVE OneWriter' /\ Replicas' /\ OnItsWay'
  BY DEF AloneInv, Crash
<1>1. OneWriter /\ Replicas
  BY DEF AloneInv
<1>2. /\ pc' = [t \in Tasks |-> "out"] /\ replica' = 0 /\ UNCHANGED <<chunks, rows, undercut>>
      /\ failed \subseteq failed'
  BY DEF Crash
<1>3. \A t \in Tasks : pc'[t] = "out"
  BY <1>2
<1>4. OneWriter'
  BY <1>1, <1>2, <1>3 DEF OneWriter, Writing
<1>5. StatesHold' /\ StatesGrow'
  BY <1>1, <1>2 DEF Replicas, StatesHold, StatesGrow, RowsBefore
<1>6. Replicas'
  BY <1>2, <1>3, <1>5 DEF Replicas, Working
<1>7. OnItsWay'
  BY <1>3 DEF OnItsWay, Writing, Tasks
<1> QED
  BY <1>4, <1>6, <1>7

\* A commit leaves the states of the chunks as they are; the one it starts holds
\* all that the replica of the write holds.
LEMMA CommitStates ==
    ASSUME TypeInv, TileInv, OneWriter, Replicas, NEW t \in Tasks, Commit(t)
    PROVE  /\ Stored' = Stored \cup Ops(pend[t])
           /\ Stored' \subseteq heap[rep[t]] /\ heap[rep[t]] \subseteq Stored' \cup failed
           /\ StatesHold' /\ StatesGrow'
           /\ \A c \in DOMAIN chunks' : chunks'[c].state \subseteq heap[rep[t]]
<1> DEFINE n == Own(t)
           new == [v |-> tail[t] + 1, chunk |-> Own(t), ups |-> Ops(pend[t])]
           extra == IF Full(t) THEN 1 ELSE 0
           all == heap[rep[t]]
<1>1. Tiles /\ OnTheWay /\ pc[t] = "commit" /\ ~Conflict(t) /\ AppendVersion(t) /\ failed' = failed
  BY DEF TileInv, Commit, OneWriter, marks
<1>2. open[t] = Len(chunks) /\ Len(chunks) \in Nat /\ n = IF open[t] = 0 THEN 1 ELSE open[t]
  BY <1>1, CommitsNext
<1>3. /\ rows' = rows \cup {new}
      /\ OwnChunk(t) \in ChunkType
      /\ Len(chunks') \in Nat /\ DOMAIN chunks' = 1..Len(chunks')
      /\ Len(chunks') = (IF open[t] = 0 THEN Len(chunks) + 1 ELSE Len(chunks)) + extra
      /\ chunks'[n] = [OwnChunk(t) EXCEPT !.end = tail[t] + 1, !.sealed = @ \/ Full(t)]
      /\ \A c \in 1..Len(chunks) : c # n => chunks'[c] = chunks[c]
      /\ Full(t) => chunks'[Len(chunks')] = Chunk(tail[t] + 1, NextBase(t))
  BY <1>1, Appended
<1>4. extra \in {0, 1} /\ (Full(t) <=> extra = 1)
  OBVIOUS
<1>5. DOMAIN chunks = 1..Len(chunks)
  BY ChunkFacts
<1>6. Stored' = Stored \cup Ops(pend[t])
  <2>1. rows' = rows \cup {new} /\ new.ups = Ops(pend[t])
    BY <1>3
  <2> HIDE DEF new
  <2> QED
    BY <2>1 DEF Stored
<1>7. Holds(all, Ops(pend[t]))
  BY <1>1 DEF Replicas
<1>8. /\ chunks'[n].state = OwnChunk(t).state
      /\ Full(t) => chunks'[Len(chunks')].state = all
  <2> DEFINE own == OwnChunk(t)
             v == tail[t] + 1
  <2>1. own \in ChunkType /\ chunks'[n] = [own EXCEPT !.end = v, !.sealed = @ \/ Full(t)]
    BY <1>3
  <2>2. Full(t) => chunks'[Len(chunks')] = Chunk(v, all)
    BY <1>3 DEF NextBase
  <2> HIDE DEF own, v, n, all
  <2>3. chunks'[n].state = own.state
    BY <2>1 DEF ChunkType
  <2>4. Full(t) => chunks'[Len(chunks')].state = all
    BY <2>2 DEF Chunk
  <2> QED
    BY <2>3, <2>4 DEF own
<1> HIDE DEF extra, all
<1>9. n \in Nat \ {0} /\ Len(chunks') = n + extra
  <2> HIDE DEF n
  <2> QED
    BY <1>2, <1>3, <1>4
<1>10. rows # {} => n \in DOMAIN chunks
  <2>1. rows # {} => Len(chunks) # 0
    BY <1>1, <1>5 DEF Tiles, RowsInside
  <2> DEFINE k == Len(chunks)
  <2>2. k \in Nat /\ n = (IF k = 0 THEN 1 ELSE k) /\ DOMAIN chunks = 1..k /\ (rows # {} => k # 0)
    BY <1>2, <1>5, <2>1
  <2> HIDE DEF n, k
  <2> QED
    BY <2>2
<1>11. \A r \in rows : r.chunk \in Nat /\ r.chunk <= n
  <2>1. \A r \in rows : r.chunk \in 1..Len(chunks) /\ open[t] = n
    BY <1>1, <1>2, <1>5 DEF Tiles, RowsInside
  <2> HIDE DEF n
  <2> QED
    BY <1>2, <2>1
<1>12. new.chunk = n /\ new.ups = Ops(pend[t])
  OBVIOUS
<1>13. OwnChunk(t).state \subseteq all /\ RowsBefore(n) \subseteq OwnChunk(t).state
       /\ OwnChunk(t).state \subseteq RowsBefore(n) \cup failed
       /\ \A c \in DOMAIN chunks : c < n => chunks[c].state \subseteq OwnChunk(t).state
  <2>1. CASE open[t] = 0
    <3>1. OwnChunk(t).state = base[t]
      BY <2>1 DEF OwnChunk, Chunk
    <3>2. base[t] \subseteq failed /\ base[t] \subseteq all
      BY <1>1, <2>1 DEF Replicas, all
    <3>3. rows = {} /\ DOMAIN chunks = {}
      BY <1>1, <1>2, <1>5, <2>1 DEF Tiles, RowsInside
    <3> QED
      BY <3>1, <3>2, <3>3 DEF RowsBefore
  <2>2. CASE open[t] # 0
    <3>1. OwnChunk(t) = chunks[n] /\ n \in DOMAIN chunks
      BY <1>2, <1>5, <2>2 DEF OwnChunk, Own
    <3> QED
      BY <1>7, <3>1 DEF Replicas, StatesHold, StatesGrow, Holds
  <2> QED
    BY <2>1, <2>2
<1> HIDE DEF n, new
<1>14. \A c \in Nat : c <= n => RowsBefore(c)' = RowsBefore(c)
  <2> SUFFICES ASSUME NEW c \in Nat, c <= n
               PROVE {r \in rows' : r.chunk < c} = {r \in rows : r.chunk < c}
    BY DEF RowsBefore
  <2>1. ~(new.chunk < c)
    BY <1>9, <1>12
  <2> QED
    BY <1>3, <2>1
<1>15. UNION {r.ups : r \in {r \in rows' : r.chunk < n + 1}} = Stored'
  <2>1. \A r \in rows' : r.chunk < n + 1
    BY <1>3, <1>9, <1>11, <1>12
  <2>2. {r \in rows' : r.chunk < n + 1} = rows'
    BY <2>1
  <2> QED
    BY <2>2 DEF Stored
<1>16. Stored' \subseteq all /\ all \subseteq Stored' \cup failed
  BY <1>6, <1>7 DEF Holds
<1>17. \A c \in 1..n - 1 : c \in DOMAIN chunks /\ chunks'[c].state = chunks[c].state
  <2>1. \A c \in 1..n - 1 : c \in 1..Len(chunks) /\ c # n
    <3>1. n = IF Len(chunks) = 0 THEN 1 ELSE Len(chunks)
      BY <1>2
    <3> QED
      BY <1>2, <1>9, <3>1
  <2> QED
    BY <1>3, <1>5, <2>1
<1>18. \A c \in DOMAIN chunks' : c \in 1..n - 1 \/ c = n \/ (c = n + 1 /\ Full(t))
  BY <1>3, <1>4, <1>9
<1>19. Full(t) => chunks'[n + 1].state = all
  BY <1>4, <1>8, <1>9
<1>20. StatesHold'
  <2> SUFFICES ASSUME NEW c \in DOMAIN chunks'
               PROVE  /\ RowsBefore(c)' \subseteq chunks'[c].state
                      /\ chunks'[c].state \subseteq RowsBefore(c)' \cup failed
    BY <1>1 DEF StatesHold
  <2>1. CASE c \in 1..n - 1
    BY <1>9, <1>14, <1>17, <2>1 DEF Replicas, StatesHold
  <2>2. CASE c = n
    BY <1>8, <1>9, <1>13, <1>14, <2>2
  <2>3. CASE c = n + 1 /\ Full(t)
    BY <1>15, <1>16, <1>19, <2>3 DEF RowsBefore
  <2> QED
    BY <1>18, <2>1, <2>2, <2>3
<1>21. ASSUME NEW c \in DOMAIN chunks' PROVE chunks'[c].state \subseteq all
  <2>1. CASE c \in 1..n - 1
    BY <1>7, <1>17, <2>1 DEF Holds
  <2>2. CASE c = n
    BY <1>8, <1>13, <2>2
  <2>3. CASE c = n + 1 /\ Full(t)
    BY <1>19, <2>3
  <2> QED
    BY <1>18, <2>1, <2>2, <2>3
<1>22. StatesGrow'
  <2> SUFFICES ASSUME NEW c \in DOMAIN chunks', NEW d \in DOMAIN chunks', c < d
               PROVE  chunks'[c].state \subseteq chunks'[d].state
    BY DEF StatesGrow
  <2>1. CASE d \in 1..n - 1
    <3>1. c \in 1..n - 1
      BY <1>9, <1>18, <2>1
    <3> QED
      BY <1>17, <2>1, <3>1 DEF Replicas, StatesGrow
  <2>2. CASE d = n
    <3>1. c \in 1..n - 1
      BY <1>9, <1>18, <2>2
    <3> QED
      BY <1>8, <1>9, <1>13, <1>17, <2>2, <3>1
  <2>3. CASE d = n + 1 /\ Full(t)
    BY <1>19, <1>21, <2>3
  <2> QED
    BY <1>18, <2>1, <2>2, <2>3
<1> QED
  BY <1>6, <1>16, <1>20, <1>21, <1>22 DEF all

\* A commit stores what the replica holds.
LEMMA CommitAlone ==
    ASSUME TypeInv, OneRow, TileInv, AloneInv, NEW t \in Tasks, Commit(t)
    PROVE  AloneInv'
<1> USE DEF memory, read, local, store, marks, ghosts, bounds
<1> SUFFICES ASSUME ~overlapped PROVE AloneInv'
  BY DEF AloneInv, Commit
<1>1. OneWriter /\ Replicas /\ (~bypassed => OnItsWay)
  BY DEF AloneInv
<1>2. /\ UNCHANGED <<undercut, overlapped, bypassed, mine, failed>> /\ forgotten \subseteq forgotten'
      /\ pc[t] = "commit" /\ pc' = [pc EXCEPT ![t] = AfterFlush(t)]
      /\ heap' = InUse(heap) /\ replica' \in {0, replica}
  BY DEF Commit, DropState
<1>3. AfterFlush(t) \in {"answer", "in", "out"} /\ AfterFlush(t) \in Places
  BY DEF AfterFlush, Idle, Places
<1>4. /\ AfterFlush(t) \notin Writing /\ AfterFlush(t) \notin Working
      /\ AfterFlush(t) \notin {"rebuild", "tail", "first", "commit"} /\ pc[t] \in Writing
  BY <1>2, <1>3 DEF Writing, Working
<1>5. /\ Stored' = Stored \cup Ops(pend[t])
      /\ Stored' \subseteq heap[rep[t]] /\ heap[rep[t]] \subseteq Stored' \cup failed
      /\ StatesHold' /\ StatesGrow'
      /\ \A c \in DOMAIN chunks' : chunks'[c].state \subseteq heap[rep[t]]
  BY <1>1, CommitStates
<1>6. replica' # 0 => Holds(heap[replica], {})'
  <2> SUFFICES ASSUME replica' # 0 PROVE Holds(heap[replica], {})'
    OBVIOUS
  <2>1. replica' = rep[t] /\ replica' \in CRDTs
    <3>1. replica \in {0, rep[t]} /\ replica \in {0} \cup CRDTs
      BY <1>1, <1>2 DEF Replicas, Working, TypeInv, TypeOK
    <3> QED
      BY <1>2, <3>1
  <2>2. heap'[replica'] = heap[rep[t]]
    BY <1>2, <2>1 DEF InUse
  <2> QED
    BY <1>2, <1>5, <2>2 DEF Holds
<1>7. t \in Restorers /\ ~bypassed => mine[t] \in Stored' \cup failed' \cup forgotten'
  BY <1>1, <1>2, <1>4, <1>5 DEF OnItsWay
<1> QED
  BY <1>1, <1>2, <1>3, <1>4, <1>5, <1>6, <1>7, OnlyWriter DEF OneWriter

\* Every step keeps AloneInv.
LEMMA AloneStep ==
    ASSUME TypeInv, KeptInv, TileInv, Seen, AloneInv, [Next]_vars
    PROVE  AloneInv'
<1>1. CASE UNCHANGED vars
  <2> USE DEF vars, memory, read, local, store, marks, ghosts, bounds
  <2>1. UNCHANGED <<chunks, rows, undercut, failed, forgotten, overlapped, bypassed, open, end, tail, rep,
                    base, heap, replica, pend>> /\ pc' = pc /\ mine' = mine
    BY <1>1
  <2> QED
    BY <2>1, CalmAlone
<1>2. ASSUME NEW t \in Tasks, Progress(t) \/ Request(t) \/ WriteFails(t)
      PROVE  AloneInv'
  BY <1>2, CallersAlone, FlushNothingAlone, TakeAlone, ReadOpenAlone, RebuildAlone, ReadMaxAlone, AbortAlone,
     CommitAlone DEF Progress, Request, KeptInv
<1> QED
  BY <1>1, <1>2, CompactAlone, CrashAlone DEF Next, KeptInv

\* AloneInv holds at first.
LEMMA AloneInit ==
    ASSUME Init
    PROVE  AloneInv
<1>1. /\ \A t \in Tasks : pc[t] = "out"
      /\ chunks = <<>> /\ rows = {} /\ undercut = FALSE /\ replica = 0
  BY DEF Init
<1>2. OneWriter
  BY <1>1 DEF OneWriter, Writing
<1>3. StatesHold /\ StatesGrow
  BY <1>1 DEF StatesHold, StatesGrow
<1>4. Replicas
  BY <1>1, <1>3 DEF Replicas, Working
<1>5. OnItsWay
  BY <1>1 DEF OnItsWay, Writing, Tasks
<1> QED
  BY <1>2, <1>4, <1>5 DEF AloneInv

\* The inductive invariant, and what the properties need of it.
Inv == TypeInv /\ KeptInv /\ TileInv /\ Seen /\ AloneInv

\* The invariant of the module holds of every behaviour.
THEOREM InvHolds == Spec => []Inv
<1>1. Init => Inv
  BY TypeInit, KeptInit, TileInit, SeenInit, AloneInit DEF Inv
<1>2. Inv /\ [Next]_vars => Inv'
  BY TypeStep, KeptStep, TileStep, SeenStep, AloneStep DEF Inv, KeptInv
<1> QED
  BY <1>1, <1>2, PTL DEF Spec

\* Inv is stronger than ReplaysRows.
LEMMA RowsReplayed ==
    ASSUME Inv
    PROVE  ReplaysRows
<1> SUFFICES ASSUME ~overlapped, NEW r \in rows
             PROVE  /\ Found(r.v) /\ UpTo(r.v) \subseteq Reconstruct(r.v)
                    /\ Reconstruct(r.v) \subseteq UpTo(r.v) \cup failed
  BY DEF ReplaysRows, UpTo
<1>1. TypeInv /\ Tiles /\ StatesHold
  BY DEF Inv, AloneInv, TileInv, OneWriter, Replicas
<1>2. r.v \in Nat
  BY <1>1 DEF TypeInv, TypeOK
<1> QED
  BY <1>1, <1>2, FoundVersions, Replay

\* Inv is stronger than CatchesUp.
LEMMA HistoryCatchesUp ==
    ASSUME Inv
    PROVE  CatchesUp
<1> SUFFICES ASSUME ~overlapped, Quiet, failed \cup forgotten = {}, crashes = 0, made > 0
             PROVE  Found(MaxVersion) /\ Shown(Reconstruct(MaxVersion)) = 1..made
  BY DEF CatchesUp
<1>1. TypeInv /\ Tiles /\ StatesHold /\ Seen /\ CapturedKept
  BY DEF Inv, AloneInv, TileInv, OneWriter, Replicas, KeptInv
<1>2. Updates \subseteq captured
  BY <1>1 DEF Seen, Quiet
<1>3. captured \subseteq Stored
  BY <1>1 DEF CapturedKept, Quiet
<1>4. made \in Nat /\ Updates # {}
  <2>1. made \in Nat
    BY <1>1 DEF TypeInv, TypeOK
  <2>2. 1 \in Updates
    BY <2>1 DEF Updates
  <2> QED
    BY <2>1, <2>2
<1>5. chunks # <<>>
  <2>1. rows # {}
    BY <1>2, <1>3, <1>4 DEF Stored
  <2> QED
    BY <1>1, <2>1, FoundVersions
<1>6. Found(MaxVersion) /\ Stored \subseteq Reconstruct(MaxVersion)
  BY <1>1, <1>5, ReplayLast
<1>7. Reconstruct(MaxVersion) \subseteq Updates
  BY <1>1, <1>6, RecordType, ReconstructType
<1>8. Reconstruct(MaxVersion) = 1..made
  BY <1>2, <1>3, <1>6, <1>7 DEF Updates
<1>9. \A u \in 1..made : 1..u \subseteq 1..made
  BY <1>4
<1> QED
  BY <1>6, <1>8, <1>9 DEF Shown

\* reconstruct_doc shows of every version what the rows up to it hold, whatever chunk it
\* reads, as long as no two writes ran at once.
THEOREM ReplaysAllRows == Spec => []ReplaysRows
<1>1. Inv => ReplaysRows
  BY RowsReplayed
<1> QED
  BY <1>1, InvHolds, PTL

\* Once nothing is on its way, the latest version shows the text of the document, under the
\* same condition and if nothing was lost.
THEOREM CatchesUpWithText == Spec => []CatchesUp
<1>1. Inv => CatchesUp
  BY HistoryCatchesUp
<1> QED
  BY <1>1, InvHolds, PTL

\* The version that a restore answers with shows its update.
LEMMA AnswerShowsText ==
    ASSUME Inv, NEW t \in Restorers, Answer(t), ~overlapped, ~bypassed
    PROVE  mine[t] \in failed \cup forgotten \cup Reconstruct(answer'[t])
<1>1. TypeInv /\ Tiles /\ StatesHold /\ OnItsWay
  BY DEF Inv, AloneInv, TileInv, OneWriter, Replicas
<1>2. answer'[t] = MaxVersion /\ pc[t] = "answer"
  BY <1>1 DEF Answer, TypeInv, TypeOK, Tasks
<1>3. mine[t] \in Stored \cup failed \cup forgotten
  BY <1>1, <1>2 DEF OnItsWay
<1>4. CASE mine[t] \in Stored
  <2>1. rows # {}
    BY <1>4 DEF Stored
  <2>2. chunks # <<>>
    BY <1>1, <2>1, FoundVersions
  <2> QED
    BY <1>1, <1>2, <1>4, <2>2, ReplayLast
<1> QED
  BY <1>3, <1>4

\* restore_document answers with a version that has its text, unless that was lost before,
\* as long as no two writes ran at once and no flush went by a write.
THEOREM RestoreAnswersWithText == Spec => RestoreAnswered
<1>1. Inv /\ [Next]_vars =>
        [\A t \in Restorers : Answer(t) /\ ~overlapped /\ ~bypassed =>
           mine[t] \in failed \cup forgotten \cup Reconstruct(answer'[t])]_vars
  BY AnswerShowsText
<1> QED
  BY <1>1, InvHolds, PTL DEF Spec, RestoreAnswered

-----------------------------------------------------------------------------
(* The record of versions *)

\* The latest version on record is the greatest one.
LEMMA LatestVersion ==
    ASSUME TypeInv
    PROVE  Record!Latest = MaxVersion /\ DOMAIN Versions = OnRecord
<1>1. DOMAIN Versions = OnRecord
  BY DEF Versions
<1>2. /\ OnRecord \in SUBSET Nat /\ MaxVersion \in Nat /\ (\A v \in OnRecord : v <= MaxVersion)
      /\ MaxVersion \in {0} \cup OnRecord
  BY RecordType
<1>3. CASE OnRecord = {}
  BY <1>1, <1>2, <1>3 DEF Record!Latest
<1>4. CASE OnRecord # {}
  <2>1. MaxVersion \in OnRecord
    <3>1. PICK v \in OnRecord : TRUE
      BY <1>4
    <3>2. v \in Nat /\ v <= MaxVersion
      BY <1>2, <3>1
    <3> QED
      BY <1>2, <3>1, <3>2
  <2>2. \A n \in OnRecord : (\A m \in OnRecord : m <= n) => n = MaxVersion
    BY <1>2, <2>1
  <2>3. Record!Latest = CHOOSE n \in OnRecord : \A m \in OnRecord : m <= n
    BY <1>1, <1>4 DEF Record!Latest
  <2> QED
    BY <1>1, <1>2, <2>1, <2>2, <2>3
<1> QED
  BY <1>3, <1>4

\* A commit changes nothing of the versions before it.
LEMMA CommitShows ==
    ASSUME TypeInv, TileInv, OneWriter, NEW t \in Tasks, Commit(t), NEW v \in OnRecord
    PROVE  Reconstruct(v)' = Reconstruct(v)
<1> DEFINE n == Own(t)
           new == [v |-> tail[t] + 1, chunk |-> Own(t), ups |-> Ops(pend[t])]
<1>1. Tiles /\ OnTheWay /\ pc[t] = "commit" /\ ~Conflict(t) /\ AppendVersion(t)
  BY DEF TileInv, Commit, OneWriter
<1>2. /\ tail[t] = MaxVersion /\ MaxVersion \in Nat /\ v \in Nat /\ v <= MaxVersion
      /\ open[t] = Len(chunks) /\ Len(chunks) \in Nat /\ n = IF open[t] = 0 THEN 1 ELSE open[t]
      /\ OwnChunk(t).end = MaxVersion
  BY <1>1, CommitsNext, RecordType
<1>3. /\ rows' = rows \cup {new} /\ OwnChunk(t) \in ChunkType
      /\ DOMAIN chunks' = 1..Len(chunks')
      /\ Len(chunks') = (IF open[t] = 0 THEN Len(chunks) + 1 ELSE Len(chunks)) + (IF Full(t) THEN 1 ELSE 0)
      /\ chunks'[n] = [OwnChunk(t) EXCEPT !.end = tail[t] + 1, !.sealed = @ \/ Full(t)]
      /\ \A c \in 1..Len(chunks) : c # n => chunks'[c] = chunks[c]
      /\ Full(t) => chunks'[Len(chunks')] = Chunk(tail[t] + 1, NextBase(t))
  BY <1>1, Appended
<1>4. n = Len(chunks) /\ n \in DOMAIN chunks /\ DOMAIN chunks = 1..n /\ n \in Nat
      /\ OwnChunk(t) = chunks[n] /\ Len(chunks') = n + (IF Full(t) THEN 1 ELSE 0)
  <2>1. chunks # <<>>
    <3>1. rows # {}
      BY DEF OnRecord
    <3> QED
      BY <1>1, <3>1, FoundVersions
  <2>2. open[t] # 0 /\ open[t] = n /\ n = Len(chunks)
    BY <1>2, <2>1, ChunkFacts
  <2>3. OwnChunk(t) = chunks[n]
    BY <2>2 DEF OwnChunk
  <2>4. DOMAIN chunks = 1..n /\ n \in Nat /\ n \in DOMAIN chunks
    BY <1>2, <2>2, ChunkFacts
  <2> QED
    BY <1>3, <2>2, <2>3, <2>4
<1>5. /\ \A c \in DOMAIN chunks : /\ chunks'[c].base = chunks[c].base /\ chunks'[c].state = chunks[c].state
                                  /\ c # n => chunks'[c].end = chunks[c].end
      /\ chunks'[n].end = MaxVersion + 1 /\ chunks[n].end = MaxVersion
      /\ Full(t) => chunks'[n + 1].base = MaxVersion + 1
      /\ \A c \in DOMAIN chunks' : c \in DOMAIN chunks \/ (c = n + 1 /\ Full(t))
      /\ DOMAIN chunks \subseteq DOMAIN chunks'
  <2> DEFINE own == OwnChunk(t)
             m == tail[t] + 1
  <2>1. own \in ChunkType /\ chunks'[n] = [own EXCEPT !.end = m, !.sealed = @ \/ Full(t)] /\ own = chunks[n]
        /\ m = MaxVersion + 1
    BY <1>2, <1>3, <1>4
  <2> HIDE DEF own, m
  <2>2. chunks'[n].base = chunks[n].base /\ chunks'[n].state = chunks[n].state /\ chunks'[n].end = m
    BY <2>1 DEF ChunkType
  <2> HIDE DEF n
  <2>3. \A c \in DOMAIN chunks : c # n => chunks'[c] = chunks[c]
    BY <1>3, <1>4
  <2>4. Full(t) => chunks'[n + 1].base = m
    BY <1>3, <1>4 DEF Chunk, m
  <2>5. chunks[n].end = MaxVersion
    BY <1>2, <1>4
  <2>6. /\ \A c \in DOMAIN chunks' : c \in DOMAIN chunks \/ (c = n + 1 /\ Full(t))
        /\ DOMAIN chunks \subseteq DOMAIN chunks'
    <3> DEFINE k == Len(chunks')
    <3>1. DOMAIN chunks' = 1..k /\ k = n + (IF Full(t) THEN 1 ELSE 0) /\ DOMAIN chunks = 1..n /\ n \in Nat
      BY <1>3, <1>4
    <3> HIDE DEF k
    <3> QED
      BY <3>1
  <2> QED
    BY <1>4, <2>1, <2>2, <2>3, <2>4, <2>5, <2>6
<1> HIDE DEF n
<1>6. Spanning(v)' = Spanning(v)
  <2>1. \A c \in DOMAIN chunks : v <= chunks'[c].end <=> v <= chunks[c].end
    BY <1>2, <1>5
  <2>2. Full(t) => ~(chunks'[n + 1].base <= v)
    BY <1>2, <1>5
  <2> QED
    BY <1>5, <2>1, <2>2 DEF Spanning
<1> DEFINE c == Max(Spanning(v))
<1>7. c \in DOMAIN chunks
  <2>1. \E r \in rows : r.v = v
    BY DEF OnRecord
  <2>2. Found(v)
    BY <1>1, <2>1, FoundVersions
  <2> QED
    BY <1>2, <2>2, ReconstructType DEF Spanning
<1>8. new.v = MaxVersion + 1 /\ ~(new.v <= v)
  <2>1. new.v = MaxVersion + 1
    BY <1>2
  <2> QED
    BY <1>2, <2>1
<1> HIDE DEF new
<1>9. \A d : {r \in {r \in rows' : r.chunk = d} : r.v <= v} = {r \in {r \in rows : r.chunk = d} : r.v <= v}
  BY <1>3, <1>8
<1>10. Reconstruct(v)' = chunks'[Max(Spanning(v)')].state
                          \cup UNION {r.ups : r \in {r \in {r \in rows' : r.chunk = Max(Spanning(v)')} : r.v <= v}}
  BY DEF Reconstruct, RowsOf
<1>11. Reconstruct(v) = chunks[c].state \cup UNION {r.ups : r \in {r \in {r \in rows : r.chunk = c} : r.v <= v}}
  BY DEF Reconstruct, RowsOf
<1> QED
  BY <1>5, <1>6, <1>7, <1>9, <1>10, <1>11

\* A compaction changes nothing of the versions that stay.
LEMMA CompactShows ==
    ASSUME TypeInv, OneRow, Tiles, Compact, NEW v \in OnRecord'
    PROVE  Reconstruct(v)' = Reconstruct(v)
<1>1. rows' = MergedRows /\ chunks' = chunks
  BY DEF Compact, memory, local
<1>2. PICK w \in rows : Kept(w) /\ w.v = v
  BY <1>1, MergedFacts DEF OnRecord
<1>3. Spanning(v)' = Spanning(v)
  BY <1>1 DEF Spanning
<1> DEFINE c == Max(Spanning(v))
<1>4. c \in Spanning(v) /\ v \in Nat
  BY <1>2, FoundVersions, ReconstructType DEF TypeInv, TypeOK
<1>5. c \in DOMAIN chunks /\ chunks[c].base <= v /\ v <= chunks[c].end
  BY <1>4 DEF Spanning
<1>6. Reconstruct(v) = chunks[c].state \cup UNION {r.ups : r \in {r \in {r \in rows : r.chunk = c} : r.v <= v}}
  BY DEF Reconstruct, RowsOf
<1>7. Reconstruct(v)' = chunks'[Max(Spanning(v)')].state
                          \cup UNION {r.ups : r \in {r \in {r \in rows' : r.chunk = Max(Spanning(v)')} : r.v <= v}}
  BY DEF Reconstruct, RowsOf
<1>8. Reconstruct(v)' = chunks[c].state \cup UNION {r.ups : r \in {r \in {r \in rows' : r.chunk = c} : r.v <= v}}
  BY <1>1, <1>3, <1>7
<1> HIDE DEF c
<1>9. ASSUME NEW r \in rows, r.chunk = c, r.v <= v PROVE w.chunk = c
  <2>1. /\ w.chunk \in DOMAIN chunks /\ v <= chunks[w.chunk].end /\ chunks[w.chunk].base < v
        /\ chunks[c].base < r.v /\ r.v \in Nat
    BY <1>2, <1>9 DEF Tiles, RowsInside, TypeInv, TypeOK
  <2>2. /\ chunks[c].base \in Nat /\ chunks[c].end \in Nat /\ chunks[w.chunk].base \in Nat
        /\ chunks[w.chunk].end \in Nat /\ c \in Nat /\ w.chunk \in Nat
    BY <1>5, <2>1, ChunkFacts
  <2>3. ~(w.chunk < c)
    <3>1. w.chunk < c => chunks[w.chunk].end <= chunks[c].base
      BY <1>5, <2>1 DEF Tiles, ChunkOrder
    <3> QED
      BY <1>4, <1>9, <2>1, <2>2, <3>1
  <2>4. ~(c < w.chunk)
    <3>1. c < w.chunk => chunks[c].end <= chunks[w.chunk].base
      BY <1>5, <2>1 DEF Tiles, ChunkOrder
    <3> QED
      BY <1>4, <1>5, <2>1, <2>2, <3>1
  <2> QED
    BY <2>2, <2>3, <2>4
<1>10. ASSUME NEW r \in rows, r.chunk = c, r.v <= v, NEW u \in r.ups
       PROVE  \E m \in rows' : m.chunk = c /\ m.v <= v /\ u \in m.ups
  <2>1. w.chunk = r.chunk /\ Kept(w) /\ r.v <= w.v
    BY <1>2, <1>9, <1>10
  <2>2. PICK q \in rows : Kept(q) /\ q.chunk = r.chunk /\ r.ups \subseteq Merge(q).ups /\ q.v <= w.v
    BY <2>1, StaysFor
  <2>3. Merge(q) \in rows' /\ Merge(q).chunk = c /\ Merge(q).v <= v
    BY <1>1, <1>2, <1>10, <2>2, MergedFacts
  <2> QED
    BY <1>10, <2>2, <2>3
<1>11. ASSUME NEW m \in rows', m.chunk = c, m.v <= v, NEW u \in m.ups
       PROVE  \E r \in rows : r.chunk = c /\ r.v <= v /\ u \in r.ups
  <2>1. PICK q \in rows : m = Merge(q)
    BY <1>1, MergedFacts
  <2>2. m.chunk = q.chunk /\ m.v = q.v
    BY <2>1, MergedFacts
  <2>3. PICK r \in rows : r.chunk = q.chunk /\ r.v <= q.v /\ u \in r.ups
    BY <1>11, <2>1, TakenOver
  <2>4. r.v \in Nat /\ q.v \in Nat
    BY DEF TypeInv, TypeOK
  <2> QED
    BY <1>4, <1>11, <2>2, <2>3, <2>4
<1> QED
  BY <1>6, <1>8, <1>10, <1>11

\* A commit adds a version, a compaction withdraws some, and other steps change none.
LEMMA RecordStep ==
    ASSUME Inv, VersionsGrow', [Next]_vars, ~overlapped'
    PROVE  [Record!Next]_Versions
<1>1. ~overlapped
  <2>1. overlapped => overlapped'
    <3> USE DEF vars, memory, read, local, store, marks, ghosts, bounds
    <3>1. CASE UNCHANGED vars
      BY <3>1
    <3>2. ASSUME NEW t \in Tasks, Progress(t) \/ Request(t) \/ WriteFails(t)
          PROVE  overlapped => overlapped'
      BY <3>2 DEF Progress, Request, Wait, Join, Apply, Restore, Answer, Leave, OnTimer, StartCapture,
         CaptureAgain, Capture, FlushNothing, Take, ReadOpen, Rebuild, ReadMax, NewChunk, Commit,
         CommitConflict, WriteFails, Abort
    <3>3. CASE Compact \/ Crash
      BY <3>3 DEF Compact, Crash
    <3> QED
      BY <3>1, <3>2, <3>3 DEF Next
  <2> QED
    BY <2>1
<1>2. TypeInv /\ OneRow /\ TileInv /\ Tiles /\ OneWriter
  BY <1>1 DEF Inv, KeptInv, AloneInv, TileInv, OneWriter
<1>3. UNCHANGED <<chunks, rows>> => Versions' = Versions
  BY DEF Versions, OnRecord, Reconstruct, Spanning, RowsOf
<1>4. Record!Latest = MaxVersion /\ DOMAIN Versions = OnRecord
  BY <1>2, LatestVersion
<1>5. /\ DOMAIN Versions' = OnRecord' /\ \A v \in OnRecord' : Versions'[v] = Reconstruct(v)'
      /\ \A v \in OnRecord : Versions[v] = Reconstruct(v)
  BY DEF Versions
<1>6. ASSUME NEW t \in Tasks, Commit(t) PROVE Record!Add
  <2>1. PICK w \in Nat : w = MaxVersion + 1
    BY <1>2, RecordType
  <2>2. OnRecord' = OnRecord \cup {w}
    <3>1. tail[t] = MaxVersion
      BY <1>2, <1>6 DEF OneWriter, Commit
    <3> QED
      BY <1>2, <1>6, <2>1, <3>1, CommitTypes
  <2>3. ASSUME NEW v \in OnRecord PROVE Versions'[v] = Versions[v] /\ Versions[v] \subseteq Versions'[w]
    <3>1. Versions'[v] = Versions[v]
      BY <1>2, <1>5, <1>6, <2>2, CommitShows
    <3>2. PICK r \in rows' : r.v = v
      BY <2>2 DEF OnRecord
    <3>3. PICK q \in rows' : q.v = w
      BY <2>2 DEF OnRecord
    <3>4. v <= w
      BY <1>2, <2>1, RecordType
    <3>5. Reconstruct(r.v)' \subseteq Reconstruct(q.v)'
      BY <3>2, <3>3, <3>4 DEF VersionsGrow
    <3>6. Reconstruct(v)' \subseteq Reconstruct(w)'
      BY <3>2, <3>3, <3>5
    <3> QED
      BY <1>5, <2>2, <3>1, <3>6
  <2> QED
    BY <1>4, <1>5, <2>1, <2>2, <2>3 DEF Record!Add
<1>7. CASE Compact
  <2>1. OnRecord' \subseteq OnRecord /\ (rows # {} => MaxVersion \in OnRecord')
    BY <1>2, <1>7, CompactMax
  <2>2. rows # {}
    <3>1. Cardinality({}) = 0 /\ CompactMin \in Nat \ {0}
      BY FS_EmptySet, Sizes
    <3> QED
      BY <1>7, <3>1 DEF Compact
  <2>3. \A v \in OnRecord' : Versions'[v] = Versions[v]
    BY <1>2, <1>5, <1>7, <2>1, CompactShows
  <2>4. Record!Withdraw
    BY <1>4, <1>5, <2>1, <2>2, <2>3 DEF Record!Withdraw
  <2> QED
    BY <2>4 DEF Record!Next
<1>8. CASE UNCHANGED vars
  BY <1>3, <1>8 DEF vars, store
<1>9. ASSUME NEW t \in Tasks, Progress(t) \/ Request(t) \/ WriteFails(t), ~Commit(t)
      PROVE  UNCHANGED <<chunks, rows>>
  BY <1>9 DEF Progress, Request, Wait, Join, Apply, Restore, Answer, Leave, OnTimer, StartCapture,
     CaptureAgain, Capture, FlushNothing, Take, ReadOpen, Rebuild, ReadMax, NewChunk,
     CommitConflict, WriteFails, Abort, store
<1>10. CASE Crash
  BY <1>3, <1>10 DEF Crash, store
<1> QED
  BY <1>3, <1>6, <1>7, <1>8, <1>9, <1>10 DEF Next, Record!Next

\* HistoryCapture implements VersionHistory, as long as no two writes run at once.
THEOREM VersionsKeepPromise == Spec => ImplementsVersionHistory
<1>1. Init => Record!Init
  <2> SUFFICES ASSUME Init PROVE Record!Init
    OBVIOUS
  <2>1. OnRecord = {}
    BY DEF Init, OnRecord
  <2> QED
    BY <2>1 DEF Record!Init, Versions
<1>2. Inv => (~overlapped => VersionsGrow)
  BY ReplayGrows DEF Inv, AloneInv, TileInv, OneWriter, Replicas
<1>3. Inv /\ (~overlapped => VersionsGrow)' /\ [Next]_vars => [Record!Next \/ overlapped']_Versions
  BY RecordStep
<1> QED
  BY <1>1, <1>2, <1>3, InvHolds, PTL DEF Spec, ImplementsVersionHistory
===============================================================================
