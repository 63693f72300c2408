-------------------------- MODULE CompileQueueProofs --------------------------
(***************************************************************************)
(* Theorems about CompileQueue, for every value of its constants: types,   *)
(* outputs, the end that streams are told, and the caps.  The invariant is *)
(* Inv; each property has a strengthening by what a request, a job or a    *)
(* stream holds between two of its steps.                                  *)
(***************************************************************************)
EXTENDS CompileQueue, FiniteSetTheorems, TLAPS

-----------------------------------------------------------------------------
(* What a request, a cancel, a stream and a job know of their compile *)

Working == {"flag", "authorize", "start", "announce", "compile", "persist", "finish", "tell"}

\* A request that is about to commit holds a row of its own, which nobody has
\* seen; who has seen a row, saw a committed one.
Refs ==
    /\ \A t \in Requests : req[t].at = "commit" =>
         /\ req[t].id \in 1..created /\ row[req[t].id] = "none"
         /\ owner[req[t].id] = [project |-> req[t].project, user |-> req[t].user]
    /\ \A t, u \in Requests :
         req[t].at = "commit" /\ req[u].at = "commit" /\ req[t].id = req[u].id => t = u
    /\ \A t \in Cancels : cancel[t].at # "idle" => cancel[t].id \in Compiles /\ row[cancel[t].id] # "none"
    /\ \A w \in Watchers : watch[w].at # "idle" => watch[w].id \in Compiles /\ row[watch[w].id] # "none"
    /\ \A c \in Compiles : c > created => job[c] = "none" /\ row[c] = "none"
    /\ \A c \in Compiles : job[c] \in Working => row[c] # "none"
    /\ \A c \in Compiles : job[c] \in {"persist", "finish", "tell"} => result[c] \in Terminal

\* A compile has rows of outputs only after its job settled it, what the sweep
\* deletes has rows and no bytes, and a success that is about to be recorded or
\* told has its outputs.
OutputsKnown ==
    /\ \A c \in listed \cup sweep : job[c] \in {"tell", "over"}
    /\ sweep \subseteq listed /\ sweep \cap stored = {}
    /\ \A c \in Compiles : job[c] = "finish" /\ result[c] = "success" => c \in stored
    /\ \A c \in Compiles : job[c] = "tell" /\ result[c] = "success" => c \in listed \cup pruned

\* A status that a stream or a job holds is the row's, unless it was overwritten.
EndKnown ==
    /\ \A w \in Watchers :
         /\ watch[w].at = "subscribed" => watch[w].shown \notin Terminal
         /\ watch[w].at = "ended" => watch[w].shown \in Terminal
         /\ watch[w].at = "read" /\ watch[w].shown \in Terminal =>
              watch[w].shown = row[watch[w].id] \/ watch[w].id \in overwritten
    /\ \A c \in Compiles : job[c] = "tell" => result[c] = row[c] \/ c \in overwritten

\* A request that has counted still finds room, as long as nobody raced it.
RoomLeft ==
    ~raced => \A t \in Requests :
        /\ req[t].at \in {"countUser", "create", "commit"} =>
             Cardinality(ActiveOf(req[t].project) \ overwritten) < PerProject
        /\ req[t].at \in {"create", "commit"} =>
             Cardinality(ActiveBy(req[t].user) \ overwritten) < PerUser

TypeInv == TypeOK /\ Refs
OutputsInv == SuccessHasOutputs /\ OutputsWhole /\ OutputsKnown
EndInv == ToldTheEnd /\ EndKnown
CapInv == Capped /\ RoomLeft
Inv == TypeInv /\ OutputsInv /\ EndInv /\ CapInv

-----------------------------------------------------------------------------
(* Types *)

ReqTypes ==
    [Requests -> [at : {"idle", "find", "count", "countUser", "create", "commit"},
                  project : Projects \cup {"-"}, user : Users \cup {"-"}, id : Compiles \cup {0}]]
CancelTypes ==
    [Cancels -> [at : {"idle", "flag", "update", "publish", "commit"},
                 id : Compiles \cup {0}, seen : {"none"} \cup Active]]
WatchTypes ==
    [Watchers -> [at : {"idle", "read", "subscribed", "ended"}, id : Compiles \cup {0},
                  shown : Statuses]]

\* A request that moves on, gets its row or is answered keeps its type.
LEMMA ReqMoves ==
    ASSUME req \in ReqTypes, NEW t \in Requests
    PROVE  /\ \A p \in {"count", "countUser", "create"} : Goto(t, p) => req' \in ReqTypes
           /\ Answer(t) => req' \in ReqTypes
           /\ \A c \in Compiles : 
                [req EXCEPT ![t] = [@ EXCEPT !.at = "commit", !.id = c]] \in ReqTypes
<1> USE DEF ReqTypes
<1>1. \A p \in {"count", "countUser", "create"} : Goto(t, p) => req' \in ReqTypes
  BY DEF Goto
<1>2. Answer(t) => req' \in ReqTypes
  BY DEF Answer
<1>3. ASSUME NEW c \in Compiles
      PROVE  [req EXCEPT ![t] = [@ EXCEPT !.at = "commit", !.id = c]] \in ReqTypes
  OBVIOUS
<1> QED
  BY <1>1, <1>2, <1>3

\* So does a cancel.
LEMMA CancelMoves ==
    ASSUME cancel \in CancelTypes, NEW t \in Cancels
    PROVE  /\ \A p \in {"update", "publish", "commit"} : [cancel EXCEPT ![t].at = p] \in CancelTypes
           /\ Done(t) => cancel' \in CancelTypes
  BY DEF CancelTypes, Done, Active

\* An event changes the streams that have subscribed to it, and nothing else of
\* them but what they show and whether they have ended.
LEMMA PublishEffect ==
    ASSUME watch \in WatchTypes, missed \subseteq Watchers, NEW c, NEW status \in Statuses,
           Publish(c, status)
    PROVE  /\ watch' \in WatchTypes /\ missed' \subseteq Watchers
           /\ \A w \in Watchers :
                \/ watch'[w] = watch[w]
                \/ /\ watch[w].at = "subscribed" /\ watch[w].id = c
                   /\ watch'[w].id = c /\ watch'[w].shown = status
                   /\ watch'[w].at = IF status \in Terminal THEN "ended" ELSE "subscribed"
  BY DEF WatchTypes, Publish

\* What has no helper of its own.
RestTypes ==
    /\ created \in Compiles \cup {0}
    /\ owner \in [Compiles -> [project : Projects \cup {"-"}, user : Users \cup {"-"}]]
    /\ flag \cup tripped \subseteq Compiles
    /\ stored \cup listed \cup sweep \subseteq Compiles
    /\ raced \in BOOLEAN
    /\ lost \cup pruned \cup torn \subseteq Compiles
    /\ faults \in 0..MaxFaults
RowTypes == row \in [Compiles -> Statuses] /\ overwritten \subseteq Compiles
JobTypes == job \in [Compiles -> JobPlaces] /\ result \in [Compiles -> {"none"} \cup Terminal]

\* TypeOK, by what its parts are about.
LEMMA TypeParts ==
    TypeOK <=> /\ req \in ReqTypes /\ cancel \in CancelTypes
               /\ watch \in WatchTypes /\ missed \subseteq Watchers
               /\ RestTypes /\ RowTypes /\ JobTypes
  BY DEF TypeOK, ReqTypes, CancelTypes, WatchTypes, RestTypes, RowTypes, JobTypes

\* A fault is counted below the bound.
LEMMA FaultBound == ASSUME RestTypes, Fault PROVE faults' \in 0..MaxFaults
  BY BoundsNatural DEF RestTypes, Fault

\* A write keeps the types of the rows, and changes no other row.
LEMMA WriteEffect ==
    ASSUME RowTypes, NEW c \in Compiles, NEW status \in Statuses, Write(c, status)
    PROVE  /\ RowTypes' /\ row'[c] = status /\ \A d \in Compiles : d # c => row'[d] = row[d]
           /\ overwritten \subseteq overwritten'
           /\ row[c] \in Terminal => row[c] = status \/ c \in overwritten'
           /\ overwritten' \subseteq overwritten \cup {c}
  BY DEF RowTypes, Write

\* A job that goes on or ends keeps its types, and no other job moves.
LEMMA JobMoves ==
    ASSUME JobTypes, NEW c \in Compiles
    PROVE  /\ \A p \in JobPlaces : Step(c, p) /\ UNCHANGED result => JobTypes'
           /\ \A p \in JobPlaces, s \in Terminal : Step(c, p) /\ result' = [result EXCEPT ![c] = s] => JobTypes'
           /\ \A s \in Terminal : SettleWith(c, s) => JobTypes'
           /\ End(c) => JobTypes'
           /\ \A p \in JobPlaces : Step(c, p) => job'[c] = p /\ \A d \in Compiles : d # c => job'[d] = job[d]
  BY DEF JobTypes, Step, SettleWith, End, JobPlaces

\* Every step keeps the types.
LEMMA TypeStep == ASSUME TypeInv, [Next]_vars PROVE TypeOK'
<1> DEFINE T == /\ req \in ReqTypes /\ cancel \in CancelTypes
                /\ watch \in WatchTypes /\ missed \subseteq Watchers
                /\ RestTypes /\ RowTypes /\ JobTypes
<1>0. T
  BY TypeParts DEF TypeInv
<1> SUFFICES T'
  BY TypeParts, PTL
<1>1. ASSUME NEW t \in Requests, Ask(t) PROVE T'
  BY <1>0, <1>1 DEF Ask, worker, bytes, ghosts, ReqTypes, RestTypes, RowTypes, JobTypes
<1>2. ASSUME NEW t \in Requests, FindActive(t) \/ CountProject(t) \/ CountUser(t) PROVE T'
  BY <1>0, <1>2, ReqMoves
     DEF FindActive, CountProject, CountUser, worker, bytes, ghosts, RestTypes, RowTypes, JobTypes
<1>3. ASSUME NEW t \in Requests, Enqueue(t) PROVE T'
  <2>1. created + 1 \in Compiles
    BY <1>0, <1>3, BoundsNatural DEF Enqueue, Compiles, RestTypes
  <2>2. req[t].project \in Projects \cup {"-"} /\ req[t].user \in Users \cup {"-"}
    BY <1>0 DEF ReqTypes
  <2>3. req' \in ReqTypes
    BY <1>0, <1>3, <2>1, ReqMoves DEF Enqueue
  <2>4. JobTypes'
    BY <1>0, <1>3, <2>1 DEF Enqueue, JobTypes, JobPlaces
  <2> QED
    BY <1>0, <1>3, <2>1, <2>2, <2>3, <2>4 DEF Enqueue, bytes, ghosts, RestTypes, RowTypes
<1>4. ASSUME NEW t \in Requests, CommitRequest(t) PROVE T'
  BY <1>0, <1>4, ReqMoves
     DEF CommitRequest, worker, bytes, RestTypes, RowTypes, JobTypes, Statuses, Active
<1>5. ASSUME NEW t \in Requests, RequestFails(t) PROVE T'
  <2>1. req[t].at = "commit"
    BY <1>5 DEF RequestFails
  <2>2. req[t].id \in 1..created
    BY <2>1 DEF TypeInv, Refs
  <2>3. req[t].id \in Compiles
    BY <1>0, <2>2, BoundsNatural DEF Compiles, RestTypes
  <2> QED
    BY <1>0, <1>5, <2>3, ReqMoves, FaultBound
       DEF RequestFails, worker, bytes, RestTypes, RowTypes, JobTypes
<1>6. ASSUME NEW t \in Cancels, ReadStatus(t) PROVE T'
  BY <1>0, <1>6 DEF ReadStatus, CancelTypes, api, worker, bytes, ghosts, RestTypes, RowTypes, JobTypes
<1>7. ASSUME NEW t \in Cancels, RequestCancel(t) PROVE T'
  <2>1. cancel[t].id \in Compiles
    BY <1>7 DEF RequestCancel, TypeInv, Refs
  <2>2. cancel' \in CancelTypes
    BY <1>0, <1>7, CancelMoves DEF RequestCancel
  <2> QED
    BY <1>0, <1>7, <2>1, <2>2 DEF RequestCancel, api, worker, bytes, ghosts, RestTypes, RowTypes, JobTypes
<1>8. ASSUME NEW t \in Cancels, UpdateCancelled(t) PROVE T'
  BY <1>0, <1>8, CancelMoves
     DEF UpdateCancelled, api, worker, bytes, ghosts, RestTypes, RowTypes, JobTypes
<1>9. ASSUME NEW t \in Cancels, PublishCancelled(t) PROVE T'
  BY <1>0, <1>9, CancelMoves, PublishEffect DEF Statuses, Terminal, PublishCancelled, api, worker,
     bytes, RestTypes, RowTypes, JobTypes
<1>10. ASSUME NEW t \in Cancels, CommitCancelled(t) PROVE T'
  BY <1>10, <1>0, CancelMoves, WriteEffect DEF CommitCancelled, TypeInv, Refs, Statuses, Terminal, api,
     worker, bytes, RestTypes, JobTypes
<1>11. ASSUME NEW t \in Cancels, CancelFails(t) PROVE T'
  BY <1>0, <1>11, CancelMoves, FaultBound
     DEF CancelFails, api, worker, bytes, ghosts, RestTypes, RowTypes, JobTypes
<1>12. ASSUME NEW w \in Watchers, Snapshot(w) PROVE T'
  BY <1>0, <1>12 DEF Snapshot, WatchTypes, api, worker, bytes, RestTypes, RowTypes, JobTypes
<1>13. ASSUME NEW w \in Watchers, Subscribe(w) \/ Disconnect(w) PROVE T'
  BY SMTT(30), <1>0, <1>13
     DEF Subscribe, Disconnect, WatchTypes, Statuses, api, worker, bytes, ghosts, RestTypes, RowTypes, JobTypes
<1>14. ASSUME NEW c \in Compiles, PickUp(c) PROVE T'
  BY <1>0, <1>14, JobMoves DEF PickUp, End, JobPlaces, api, bytes, RestTypes, RowTypes
<1>15. ASSUME NEW c \in Compiles, CheckFlag(c) \/ Authorize(c) PROVE T'
  BY <1>0, <1>15, JobMoves
     DEF CheckFlag, Authorize, JobPlaces, Terminal, api, bytes, ghosts, RestTypes, RowTypes
<1>16. ASSUME NEW c \in Compiles, Start(c) PROVE T'
  BY <1>0, <1>16, WriteEffect, JobMoves DEF Statuses, Active, Start, JobPlaces, api, bytes, RestTypes
<1>17. ASSUME NEW c \in Compiles, AnnounceRunning(c) PROVE T'
  BY <1>0, <1>17, PublishEffect, JobMoves DEF Statuses, Active, AnnounceRunning, JobPlaces, api, bytes,
     RestTypes, RowTypes
<1>18. ASSUME NEW c \in Compiles, Trip(c) \/ ExpireFlag(c) PROVE T'
  BY <1>0, <1>18 DEF Trip, ExpireFlag, api, worker, bytes, ghosts, RestTypes, RowTypes, JobTypes
<1>19. ASSUME NEW c \in Compiles, Compile(c) PROVE T'
  BY <1>19, <1>0, JobMoves DEF Compile, Terminal, JobPlaces, api, bytes, ghosts, RestTypes, RowTypes
<1>20. ASSUME NEW c \in Compiles, Persist(c) PROVE T'
  BY <1>0, <1>20, JobMoves DEF Persist, JobPlaces, api, ghosts, RestTypes, RowTypes
<1>21. ASSUME NEW c \in Compiles, PersistFails(c) PROVE T'
  BY <1>0, <1>21, JobMoves, FaultBound
     DEF PersistFails, PersistError, Terminal, api, ghosts, RestTypes, RowTypes
<1>22. ASSUME NEW c \in Compiles, Finish(c) PROVE T'
  BY <1>22, <1>0, WriteEffect, JobMoves DEF Finish, TypeInv, Refs, Statuses, Recorded, JobPlaces, api,
     RestTypes
<1>23. ASSUME NEW c \in Compiles, Tell(c) PROVE T'
  BY <1>23, <1>0, PublishEffect, JobMoves DEF Tell, TypeInv, Refs, Statuses, End, api, bytes, RestTypes,
     RowTypes
<1>24. ASSUME NEW c \in Compiles, Die(c) PROVE T'
  BY <1>0, <1>24, JobMoves, FaultBound DEF Die, End, api, bytes, RestTypes, RowTypes
<1>25. CASE SweepObjects
  BY <1>0, <1>25 DEF SweepObjects, api, worker, ghosts, RestTypes, RowTypes, JobTypes
<1>26. CASE SweepRows \/ SweepDies
  BY <1>0, <1>26, FaultBound DEF SweepRows, SweepDies, api, worker, RestTypes, RowTypes, JobTypes
<1>27. CASE UNCHANGED vars
  BY <1>0, <1>27 DEF vars, api, worker, bytes, ghosts, RestTypes, RowTypes, JobTypes
<1> QED
  BY <1>1, <1>2, <1>3, <1>4, <1>5, <1>6, <1>7, <1>8, <1>9, <1>10, <1>11, <1>12, <1>13, <1>14,
     <1>15, <1>16, <1>17, <1>18, <1>19, <1>20, <1>21, <1>22, <1>23, <1>24, <1>25, <1>26, <1>27
     DEF Next, Request, Cancel, Job

-----------------------------------------------------------------------------
(* Rows and those who refer to them *)

\* No step takes a row back.
LEMMA RowsStay ==
    ASSUME TypeInv, [Next]_vars
    PROVE  \A c \in Compiles : row[c] # "none" => row'[c] # "none"
<1> DEFINE G == \A c \in Compiles : row[c] # "none" => row'[c] # "none"
<1>0. RowTypes
  BY TypeParts DEF TypeInv
<1>1. ASSUME NEW t \in Requests, CommitRequest(t) PROVE G
  BY <1>0, <1>1 DEF CommitRequest, RowTypes
<1>2. ASSUME NEW t \in Cancels, CommitCancelled(t) PROVE G
  BY <1>0, <1>2 DEF CommitCancelled, Write, RowTypes
<1>3. ASSUME NEW c \in Compiles, Start(c) PROVE G
  BY <1>0, <1>3 DEF Start, Write, RowTypes
<1>4. ASSUME NEW c \in Compiles, Finish(c) PROVE G
  BY <1>4, <1>0 DEF Finish, TypeInv, Refs, Terminal, Write, RowTypes
<1>5. CASE UNCHANGED row
  BY <1>5
<1> QED
  BY <1>1, <1>2, <1>3, <1>4, <1>5 DEF Next, Request, Cancel, Job, vars, Ask, FindActive, CountProject,
     CountUser, Enqueue, RequestFails, ReadStatus, RequestCancel, UpdateCancelled, PublishCancelled,
     CancelFails, Snapshot, Subscribe, Disconnect, PickUp, CheckFlag, Authorize, AnnounceRunning,
     Trip, ExpireFlag, Compile, Persist, PersistFails, Tell, Die, SweepObjects, SweepRows, SweepDies

\* Requests, and the rows they are about to commit.
ReqRefs ==
    /\ \A t \in Requests : req[t].at = "commit" =>
         /\ req[t].id \in 1..created /\ row[req[t].id] = "none"
         /\ owner[req[t].id] = [project |-> req[t].project, user |-> req[t].user]
    /\ \A t, u \in Requests :
         req[t].at = "commit" /\ req[u].at = "commit" /\ req[t].id = req[u].id => t = u

\* Those who have seen a row.
SeenRefs ==
    /\ \A t \in Cancels : cancel[t].at # "idle" => cancel[t].id \in Compiles /\ row[cancel[t].id] # "none"
    /\ \A w \in Watchers : watch[w].at # "idle" => watch[w].id \in Compiles /\ row[watch[w].id] # "none"

\* Jobs.
JobRefs ==
    /\ \A c \in Compiles : c > created => job[c] = "none" /\ row[c] = "none"
    /\ \A c \in Compiles : job[c] \in Working => row[c] # "none"
    /\ \A c \in Compiles : job[c] \in {"persist", "finish", "tell"} => result[c] \in Terminal

\* Refs, in three parts.
LEMMA RefsParts == Refs <=> ReqRefs /\ SeenRefs /\ JobRefs
  BY DEF Refs, ReqRefs, SeenRefs, JobRefs

\* Nobody else gets at the row that a request is about to commit.
LEMMA ReqRefsStep == ASSUME TypeInv, [Next]_vars PROVE ReqRefs'
<1>0. /\ ReqRefs /\ SeenRefs /\ JobRefs
      /\ req \in ReqTypes /\ RowTypes /\ created \in Nat /\ created <= MaxCompiles
  BY TypeParts, RefsParts, BoundsNatural DEF TypeInv, RestTypes, Compiles
<1>9. \A t \in Requests : req[t].at = "commit" => req[t].id \in Compiles /\ req[t].id <= created
  <2>1. \A n \in 1..created : n \in Compiles /\ n <= created
    BY <1>0, BoundsNatural DEF Compiles
  <2> QED
    BY <1>0, <2>1 DEF ReqRefs
<1>1. ASSUME NEW t \in Requests, Ask(t) \/ FindActive(t) \/ CountProject(t) \/ CountUser(t) PROVE ReqRefs'
  BY <1>1, <1>0 DEF Ask, FindActive, CountProject, CountUser, Goto, Answer, ReqTypes, ReqRefs
<1>2. ASSUME NEW t \in Requests, Enqueue(t) PROVE ReqRefs'
  BY <1>0, <1>2, BoundsNatural, TypeParts, <1>9 DEF Enqueue, Compiles, ReqTypes, JobRefs, TypeInv,
     RestTypes, ReqRefs
<1>3. ASSUME NEW t \in Requests, CommitRequest(t) PROVE ReqRefs'
  BY <1>3, <1>0, <1>9 DEF CommitRequest, Answer, ReqTypes, ReqRefs, RowTypes
<1>4. ASSUME NEW t \in Requests, RequestFails(t) PROVE ReqRefs'
  BY <1>4, <1>0 DEF RequestFails, Answer, ReqTypes, ReqRefs
<1>5. ASSUME NEW c \in Compiles, row[c] # "none", NEW status, Write(c, status), UNCHANGED api
      PROVE  ReqRefs'
  BY <1>0, <1>5, <1>9 DEF ReqRefs, Write, RowTypes, api
<1>6. ASSUME NEW t \in Cancels, CommitCancelled(t) PROVE ReqRefs'
  BY <1>0, <1>6, <1>5 DEF CommitCancelled, SeenRefs
<1>7. ASSUME NEW c \in Compiles, Start(c) \/ Finish(c) PROVE ReqRefs'
  BY <1>0, <1>7, <1>5 DEF Start, Finish, JobRefs, Working
<1>8. CASE UNCHANGED <<api, row>>
  BY <1>0, <1>8 DEF ReqRefs, api
<1> QED
  BY <1>1, <1>2, <1>3, <1>4, <1>6, <1>7, <1>8
     DEF Next, Request, Cancel, Job, vars, api, worker, bytes, ghosts, ReadStatus,
     RequestCancel, UpdateCancelled, PublishCancelled, CancelFails, Snapshot, Subscribe,
     Disconnect, PickUp, CheckFlag, Authorize, AnnounceRunning, Trip, ExpireFlag, Compile,
     Persist, PersistFails, Tell, Die, SweepObjects, SweepRows, SweepDies

\* Cancels and streams get their compile from a committed row, and keep it.
LEMMA SeenRefsStep == ASSUME TypeInv, [Next]_vars PROVE SeenRefs'
<1>0. /\ SeenRefs /\ cancel \in CancelTypes /\ watch \in WatchTypes /\ missed \subseteq Watchers /\ RowTypes
      /\ \A c \in Compiles : row[c] # "none" => row'[c] # "none"
  BY TypeParts, RefsParts, RowsStay DEF TypeInv
<1>1. ASSUME NEW t \in Cancels
      PROVE  \/ cancel'[t].at = "idle"
             \/ cancel[t].at # "idle" /\ cancel'[t].id = cancel[t].id
             \/ cancel'[t].id \in Compiles /\ row[cancel'[t].id] # "none"
  <2>1. ASSUME NEW u \in Cancels, ReadStatus(u)
        PROVE  cancel'[t] = cancel[t] \/ (cancel'[t].id \in Compiles /\ row[cancel'[t].id] # "none")
    BY <2>1, <1>0 DEF ReadStatus, Active, CancelTypes
  <2>2. ASSUME NEW u \in Cancels,
               RequestCancel(u) \/ UpdateCancelled(u) \/ PublishCancelled(u) \/ CommitCancelled(u) \/ CancelFails(u)
        PROVE  \/ cancel'[t] = cancel[t] \/ cancel'[t].at = "idle"
               \/ cancel[t].at # "idle" /\ cancel'[t].id = cancel[t].id
    BY <1>0, <2>2 DEF RequestCancel, UpdateCancelled, PublishCancelled, CommitCancelled, CancelFails,
       Done, CancelTypes
  <2>3. CASE UNCHANGED cancel
    BY <2>3
  <2> QED
    BY <2>1, <2>2, <2>3
     DEF Next, Request, Cancel, Job, vars, api, worker, bytes, ghosts, Ask, FindActive,
     CountProject, CountUser, Enqueue, CommitRequest, RequestFails, Snapshot, Subscribe,
     Disconnect, PickUp, CheckFlag, Authorize, Start, AnnounceRunning, Trip, ExpireFlag,
     Compile, Persist, PersistFails, Finish, Tell, Die, SweepObjects, SweepRows, SweepDies
<1>2. ASSUME NEW w \in Watchers
      PROVE  \/ watch'[w].at = "idle"
             \/ watch[w].at # "idle" /\ watch'[w].id = watch[w].id
             \/ watch'[w].id \in Compiles /\ row[watch'[w].id] # "none"
  <2>1. ASSUME NEW c, NEW status \in Statuses, Publish(c, status)
        PROVE  watch'[w] = watch[w] \/ (watch[w].at # "idle" /\ watch'[w].id = watch[w].id)
    BY <1>0, <2>1, PublishEffect
  <2>2. ASSUME NEW t \in Cancels, PublishCancelled(t)
        PROVE  watch'[w] = watch[w] \/ (watch[w].at # "idle" /\ watch'[w].id = watch[w].id)
    BY <2>1, <2>2 DEF PublishCancelled, Statuses, Terminal
  <2>3. ASSUME NEW c \in Compiles, AnnounceRunning(c) \/ Tell(c)
        PROVE  watch'[w] = watch[w] \/ (watch[w].at # "idle" /\ watch'[w].id = watch[w].id)
    BY RefsParts, <2>1, <2>3 DEF TypeInv, JobRefs, Statuses, AnnounceRunning, Tell, Active
  <2>4. ASSUME NEW v \in Watchers, Snapshot(v) \/ Subscribe(v) \/ Disconnect(v)
        PROVE  \/ watch'[w] = watch[w] \/ watch'[w].at = "idle"
               \/ watch[w].at # "idle" /\ watch'[w].id = watch[w].id
               \/ watch'[w].id \in Compiles /\ row[watch'[w].id] # "none"
    BY <1>0, <2>4 DEF Snapshot, Subscribe, Disconnect, WatchTypes
  <2>5. CASE UNCHANGED watch
    BY <2>5
  <2> QED
    BY <2>2, <2>3, <2>4, <2>5
     DEF Next, Request, Cancel, Job, vars, api, worker, bytes, ghosts, Ask, FindActive,
     CountProject, CountUser, Enqueue, CommitRequest, RequestFails, ReadStatus,
     RequestCancel, UpdateCancelled, CommitCancelled, CancelFails, PickUp, CheckFlag,
     Authorize, Start, Trip, ExpireFlag, Compile, Persist, PersistFails, Finish, Die,
     SweepObjects, SweepRows, SweepDies
<1>3. ASSUME NEW t \in Cancels, cancel'[t].at # "idle"
      PROVE  cancel'[t].id \in Compiles /\ row'[cancel'[t].id] # "none"
  BY <1>0, <1>1, <1>3 DEF SeenRefs
<1>4. ASSUME NEW w \in Watchers, watch'[w].at # "idle"
      PROVE  watch'[w].id \in Compiles /\ row'[watch'[w].id] # "none"
  BY <1>0, <1>2, <1>4 DEF SeenRefs
<1> QED
  BY <1>3, <1>4 DEF SeenRefs

\* A job begins with its row, works on a committed one, and knows its result in
\* time.
LEMMA JobRefsStep == ASSUME TypeInv, [Next]_vars PROVE JobRefs'
<1>0. /\ ReqRefs /\ SeenRefs /\ JobRefs /\ RowTypes /\ JobTypes /\ created \in Nat /\ created <= MaxCompiles
      /\ \A c \in Compiles : row[c] # "none" => row'[c] # "none"
  BY TypeParts, RefsParts, RowsStay, BoundsNatural DEF TypeInv, RestTypes, Compiles
<1>1. ASSUME NEW t \in Requests, Enqueue(t) PROVE JobRefs'
  BY <1>0, <1>1 DEF Enqueue, JobRefs, JobTypes, Compiles, Working
<1>2. ASSUME NEW c \in Compiles, job[c] # "none", UNCHANGED created,
             \A d \in Compiles : d # c => row'[d] = row[d] /\ job'[d] = job[d] /\ result'[d] = result[d],
             job'[c] \in Working => row'[c] # "none",
             job'[c] \in {"persist", "finish", "tell"} => result'[c] \in Terminal
      PROVE  JobRefs'
  BY <1>0, <1>2 DEF JobRefs, Compiles
<1>3. ASSUME NEW c \in Compiles, PickUp(c) PROVE JobRefs'
  BY <1>0, <1>2, <1>3 DEF PickUp, Step, End, JobTypes, Active, Working, api
<1>4. ASSUME NEW c \in Compiles, CheckFlag(c) \/ Authorize(c) \/ AnnounceRunning(c) PROVE JobRefs'
  BY <1>0, <1>2, <1>4
     DEF CheckFlag, Authorize, AnnounceRunning, Step, SettleWith, JobTypes, JobRefs, Working, Terminal, api
<1>5. ASSUME NEW c \in Compiles, Compile(c) \/ Persist(c) \/ PersistFails(c) PROVE JobRefs'
  BY <1>0, <1>2, <1>5
     DEF Compile, Persist, PersistFails, PersistError, Step, SettleWith, JobTypes, JobRefs, Working, Terminal, api
<1>6. ASSUME NEW c \in Compiles, Start(c) \/ Finish(c) PROVE JobRefs'
  BY <1>0, <1>2, <1>6 DEF Start, Finish, Write, Step, JobTypes, RowTypes, JobRefs, Working, Terminal, api
<1>7. ASSUME NEW c \in Compiles, Tell(c) \/ Die(c) PROVE JobRefs'
  BY <1>0, <1>2, <1>7 DEF Tell, Die, End, Step, JobTypes, JobRefs, Working, api
<1>8. ASSUME NEW t \in Requests, CommitRequest(t) PROVE JobRefs'
  <2>1. req[t].id \in 1..created
    BY <1>0, <1>8 DEF CommitRequest, ReqRefs
  <2> QED
    BY <1>0, <1>8, <2>1 DEF CommitRequest, JobRefs, RowTypes, Compiles, worker
<1>9. ASSUME NEW t \in Cancels, CommitCancelled(t) PROVE JobRefs'
  BY <1>0, <1>9 DEF CommitCancelled, SeenRefs, Write, JobRefs, RowTypes, Compiles, worker, api
<1>10. CASE UNCHANGED <<created, row, job, result>>
  BY <1>0, <1>10 DEF JobRefs
<1> QED
  BY <1>1, <1>3, <1>4, <1>5, <1>6, <1>7, <1>8, <1>9, <1>10
     DEF Next, Request, Cancel, Job, vars, api, worker, bytes, ghosts, Ask, FindActive,
     CountProject, CountUser, RequestFails, ReadStatus, RequestCancel, UpdateCancelled,
     PublishCancelled, CancelFails, Snapshot, Subscribe, Disconnect, Trip, ExpireFlag,
     SweepObjects, SweepRows, SweepDies

\* The types, and what the parts know of their compile, are inductive.
LEMMA TypeInvStep == ASSUME TypeInv, [Next]_vars PROVE TypeInv'
  BY TypeStep, ReqRefsStep, SeenRefsStep, JobRefsStep DEF Refs, ReqRefs, SeenRefs, JobRefs, TypeInv

-----------------------------------------------------------------------------
(* Outputs *)

\* Rows of outputs are not lost but to the sweep.
LEMMA OutputsStay ==
    ASSUME [Next]_vars
    PROVE  listed \cup pruned \subseteq listed' \cup pruned'
<1>1. ASSUME NEW c \in Compiles, Finish(c) PROVE listed \cup pruned \subseteq listed' \cup pruned'
  BY <1>1 DEF Finish, Recorded
<1>2. CASE SweepRows
  BY <1>2 DEF SweepRows
<1>3. CASE UNCHANGED <<listed, pruned>>
  BY <1>3
<1> QED
  BY <1>1, <1>2, <1>3
     DEF Next, Request, Cancel, Job, vars, api, worker, bytes, ghosts, Ask, FindActive,
     CountProject, CountUser, Enqueue, CommitRequest, RequestFails, ReadStatus,
     RequestCancel, UpdateCancelled, PublishCancelled, CommitCancelled, CancelFails,
     Snapshot, Subscribe, Disconnect, PickUp, CheckFlag, Authorize, Start,
     AnnounceRunning, Trip, ExpireFlag, Compile, Persist, PersistFails, Tell, Die,
     SweepObjects, SweepDies

\* The rows, the bytes, the sweep and the job keep together.
LEMMA OutputsMove ==
    ASSUME TypeInv, OutputsWhole, OutputsKnown, [Next]_vars
    PROVE  OutputsWhole' /\ OutputsKnown'
<1> DEFINE O == OutputsWhole /\ OutputsKnown
<1>0. /\ O /\ JobTypes /\ stored \cup listed \cup sweep \subseteq Compiles
  BY TypeParts DEF TypeInv, RestTypes
<1>1. ASSUME NEW c \in Compiles, PickUp(c) \/ CheckFlag(c) \/ Authorize(c) \/ Start(c) \/ AnnounceRunning(c)
      PROVE  O'
  BY <1>0, <1>1 DEF PickUp, Step, End, JobTypes, bytes, CheckFlag, Authorize, SettleWith, ghosts, Start,
     AnnounceRunning, OutputsWhole, OutputsKnown
<1>2. ASSUME NEW c \in Compiles, Compile(c) PROVE O'
  BY <1>0, <1>2 DEF Compile, Step, JobTypes, OutputsWhole, OutputsKnown, bytes, ghosts
<1>3. ASSUME NEW c \in Compiles, Persist(c) \/ PersistFails(c) PROVE O'
  BY <1>0, <1>3 DEF Persist, PersistFails, PersistError, SettleWith, Step, JobTypes, OutputsWhole,
     OutputsKnown, ghosts
<1>4. ASSUME NEW c \in Compiles, Finish(c) PROVE O'
  BY <1>0, <1>4 DEF Finish, Recorded, Step, JobTypes, OutputsWhole, OutputsKnown
<1>5. ASSUME NEW c \in Compiles, Tell(c) \/ Die(c) PROVE O'
  BY <1>0, <1>5 DEF Tell, Die, End, Step, JobTypes, bytes, OutputsWhole, OutputsKnown
<1>6. ASSUME NEW t \in Requests, Enqueue(t) PROVE O'
  <2>1. PICK c \in Compiles : c = created + 1 /\ job[c] = "none" /\ job' = [job EXCEPT ![c] = "waiting"]
    <3>1. created \in Nat /\ created + 1 <= MaxCompiles /\ MaxCompiles \in Nat
      BY <1>6, TypeParts, BoundsNatural DEF Enqueue, TypeInv, RestTypes, Compiles
    <3>2. created + 1 \in Compiles /\ created + 1 > created
      BY <3>1 DEF Compiles
    <3> QED
      BY <1>6, <3>2, RefsParts DEF Enqueue, TypeInv, JobRefs
  <2>2. /\ UNCHANGED bytes /\ UNCHANGED ghosts /\ UNCHANGED result /\ job'[c] = "waiting"
        /\ \A d \in Compiles : d # c => job'[d] = job[d]
    BY <1>0, <1>6, <2>1 DEF Enqueue, JobTypes
  <2> QED
    BY <1>0, <2>1, <2>2 DEF OutputsWhole, OutputsKnown, bytes, ghosts
<1>7. CASE SweepObjects
  BY <1>0, <1>7 DEF SweepObjects, worker, ghosts, OutputsWhole, OutputsKnown
<1>8. CASE SweepRows \/ SweepDies
  BY <1>0, <1>8 DEF SweepRows, SweepDies, worker, OutputsWhole, OutputsKnown
<1>9. ASSUME NEW t \in Requests, RequestFails(t) PROVE O'
  BY <1>0, <1>9 DEF RequestFails, worker, bytes, OutputsWhole, OutputsKnown
<1>10. CASE UNCHANGED <<job, result, stored, listed, sweep, pruned, torn, lost>>
  BY <1>0, <1>10 DEF OutputsWhole, OutputsKnown
<1> QED
  BY <1>1, <1>2, <1>3, <1>4, <1>5, <1>6, <1>7, <1>8, <1>9, <1>10
     DEF Next, Request, Cancel, Job, vars, api, worker, bytes, ghosts, Ask, FindActive,
     CountProject, CountUser, CommitRequest, ReadStatus, RequestCancel, UpdateCancelled,
     PublishCancelled, CommitCancelled, CancelFails, Snapshot, Subscribe, Disconnect,
     Trip, ExpireFlag

\* A success is committed with its rows, and told after that.
LEMMA SuccessMove ==
    ASSUME TypeInv, OutputsKnown, SuccessHasOutputs, [Next]_vars
    PROVE  SuccessHasOutputs'
<1>0. /\ RowTypes /\ watch \in WatchTypes /\ missed \subseteq Watchers
      /\ listed \cup pruned \subseteq listed' \cup pruned'
  BY TypeParts, OutputsStay DEF TypeInv
<1>1. ASSUME NEW d \in Compiles
      PROVE  row'[d] = "success" => row[d] = "success" \/ d \in listed'
  <2>1. ASSUME NEW t \in Requests, CommitRequest(t) PROVE row'[d] = "success" => row[d] = "success"
    BY <1>0, <2>1 DEF CommitRequest, RowTypes
  <2>2. ASSUME NEW t \in Cancels, CommitCancelled(t) PROVE row'[d] = "success" => row[d] = "success"
    BY <1>0, <2>2 DEF CommitCancelled, Write, RowTypes
  <2>3. ASSUME NEW c \in Compiles, Start(c) PROVE row'[d] = "success" => row[d] = "success"
    BY <1>0, <2>3 DEF Start, Write, RowTypes
  <2>4. ASSUME NEW c \in Compiles, Finish(c) PROVE row'[d] = "success" => row[d] = "success" \/ d \in listed'
    BY <2>4, <1>0 DEF Finish, OutputsKnown, Recorded, Write, RowTypes
  <2>5. CASE UNCHANGED row
    BY <2>5
  <2> QED
    BY <2>1, <2>2, <2>3, <2>4, <2>5
     DEF Next, Request, Cancel, Job, vars, api, worker, bytes, ghosts, Ask, FindActive,
     CountProject, CountUser, Enqueue, RequestFails, ReadStatus, RequestCancel,
     UpdateCancelled, PublishCancelled, CancelFails, Snapshot, Subscribe, Disconnect,
     PickUp, CheckFlag, Authorize, AnnounceRunning, Trip, ExpireFlag, Compile, Persist,
     PersistFails, Tell, Die, SweepObjects, SweepRows, SweepDies
<1>2. ASSUME NEW w \in Watchers, watch'[w].shown = "success"
      PROVE  watch'[w].id \in listed \cup pruned
  <2>1. CASE watch'[w] = watch[w]
    BY <1>2, <2>1 DEF SuccessHasOutputs
  <2>2. ASSUME NEW c, NEW status \in Statuses, Publish(c, status), status = "success" => c \in listed \cup pruned
        PROVE  watch'[w].id \in listed \cup pruned
    BY <1>0, <1>2, <2>1, <2>2, PublishEffect
  <2>3. ASSUME NEW t \in Cancels, PublishCancelled(t) PROVE watch'[w].id \in listed \cup pruned
    BY <2>2, <2>3 DEF PublishCancelled, Statuses, Terminal
  <2>4. ASSUME NEW c \in Compiles, AnnounceRunning(c) PROVE watch'[w].id \in listed \cup pruned
    BY <2>2, <2>4 DEF AnnounceRunning, Statuses, Active
  <2>5. ASSUME NEW c \in Compiles, Tell(c) PROVE watch'[w].id \in listed \cup pruned
    BY <2>5, RefsParts, <2>2 DEF Tell, TypeInv, JobRefs, Statuses, OutputsKnown
  <2>6. ASSUME NEW v \in Watchers, Snapshot(v) PROVE watch'[w].id \in listed \cup pruned
    BY <2>6, <1>0, <2>1, <1>2 DEF Snapshot, WatchTypes, SuccessHasOutputs
  <2>7. ASSUME NEW v \in Watchers, Subscribe(v) \/ Disconnect(v) PROVE watch'[w].id \in listed \cup pruned
    BY <1>0, <1>2, <2>7, <2>1 DEF Subscribe, Disconnect, WatchTypes, SuccessHasOutputs
  <2> QED
    BY <2>1, <2>3, <2>4, <2>5, <2>6, <2>7
     DEF Next, Request, Cancel, Job, vars, api, worker, bytes, ghosts, Ask, FindActive,
     CountProject, CountUser, Enqueue, CommitRequest, RequestFails, ReadStatus,
     RequestCancel, UpdateCancelled, CommitCancelled, CancelFails, PickUp, CheckFlag,
     Authorize, Start, Trip, ExpireFlag, Compile, Persist, PersistFails, Finish, Die,
     SweepObjects, SweepRows, SweepDies
<1>3. ASSUME NEW d \in Compiles, row'[d] = "success" PROVE d \in listed' \cup pruned'
  BY <1>0, <1>1, <1>3 DEF SuccessHasOutputs
<1>4. ASSUME NEW w \in Watchers, watch'[w].shown = "success" PROVE watch'[w].id \in listed' \cup pruned'
  BY <1>0, <1>2, <1>4
<1> QED
  BY <1>3, <1>4 DEF SuccessHasOutputs

-----------------------------------------------------------------------------
(* The end, as the streams are told *)

\* A settled row stays as it is, or is counted as overwritten.
LEMMA SettledStays ==
    ASSUME TypeInv, [Next]_vars
    PROVE  /\ overwritten \subseteq overwritten'
           /\ \A c \in Compiles : row[c] \in Terminal => row'[c] = row[c] \/ c \in overwritten'
<1> DEFINE G == /\ overwritten \subseteq overwritten'
                /\ \A c \in Compiles : row[c] \in Terminal => row'[c] = row[c] \/ c \in overwritten'
<1>0. RowTypes
  BY TypeParts DEF TypeInv
<1>1. ASSUME NEW c \in Compiles, NEW status, Write(c, status) PROVE G
  BY <1>0, <1>1 DEF Write, RowTypes
<1>2. ASSUME NEW t \in Requests, CommitRequest(t) PROVE G
  BY <1>2, <1>0 DEF CommitRequest, TypeInv, Refs, RowTypes, Terminal
<1>3. ASSUME NEW t \in Cancels, CommitCancelled(t) PROVE G
  BY <1>3, <1>1 DEF CommitCancelled, TypeInv, Refs
<1>4. ASSUME NEW c \in Compiles, Start(c) \/ Finish(c) PROVE G
  BY <1>1, <1>4 DEF Start, Finish
<1>5. CASE UNCHANGED <<row, overwritten>>
  BY <1>5
<1> QED
  BY <1>2, <1>3, <1>4, <1>5
     DEF Next, Request, Cancel, Job, vars, api, worker, bytes, ghosts, Ask, FindActive,
     CountProject, CountUser, Enqueue, RequestFails, ReadStatus, RequestCancel,
     UpdateCancelled, PublishCancelled, CancelFails, Snapshot, Subscribe, Disconnect,
     PickUp, CheckFlag, Authorize, AnnounceRunning, Trip, ExpireFlag, Compile, Persist,
     PersistFails, Tell, Die, SweepObjects, SweepRows, SweepDies

\* A cancel that was announced is committed, unless it fails.
LEMMA AnnouncedStays ==
    ASSUME TypeInv, [Next]_vars, NEW c \in Compiles, Announced(c) \/ faults > 0
    PROVE  Announced(c)' \/ row'[c] = "cancelled" \/ faults' > 0
<1> DEFINE G == Announced(c)' \/ row'[c] = "cancelled" \/ faults' > 0
<1>0. cancel \in CancelTypes /\ RowTypes /\ faults \in Nat
  BY TypeParts, BoundsNatural DEF TypeInv, RestTypes
<1>1. CASE Fault
  BY <1>0, <1>1 DEF Fault
<1>2. CASE UNCHANGED <<cancel, faults>>
  BY <1>2 DEF Announced
<1>3. ASSUME NEW t \in Cancels, ReadStatus(t) \/ RequestCancel(t) \/ UpdateCancelled(t) \/ PublishCancelled(t)
      PROVE  G
  BY <1>0, <1>3 DEF ReadStatus, RequestCancel, UpdateCancelled, PublishCancelled, Done, CancelTypes,
     Announced
<1>4. ASSUME NEW t \in Cancels, CommitCancelled(t) PROVE G
  BY <1>0, <1>4 DEF CommitCancelled, Write, RowTypes, Done, CancelTypes, Announced
<1>5. ASSUME NEW t \in Cancels, CancelFails(t) PROVE G
  BY <1>1, <1>5 DEF CancelFails
<1>6. ASSUME NEW t \in Requests, RequestFails(t) PROVE G
  BY <1>1, <1>6 DEF RequestFails
<1>7. ASSUME NEW d \in Compiles, PersistFails(d) \/ Die(d) PROVE G
  BY <1>1, <1>7 DEF PersistFails, Die
<1>8. CASE SweepDies
  BY <1>1, <1>8 DEF SweepDies
<1> QED
  BY <1>2, <1>3, <1>4, <1>5, <1>6, <1>7, <1>8
     DEF Next, Request, Cancel, Job, vars, api, worker, bytes, ghosts, Ask, FindActive,
     CountProject, CountUser, Enqueue, CommitRequest, Snapshot, Subscribe, Disconnect,
     PickUp, CheckFlag, Authorize, Start, AnnounceRunning, Trip, ExpireFlag, Compile,
     Persist, Finish, Tell, SweepObjects, SweepRows

\* A job that is to tell an end tells the end of its row.
TellKnown ==
    \A c \in Compiles : job[c] = "tell" => result[c] = row[c] \/ c \in overwritten

\* It does until it has told it.
LEMMA TellMove == ASSUME TypeInv, TellKnown, [Next]_vars PROVE TellKnown'
<1>0. /\ RowTypes /\ JobTypes /\ JobRefs
      /\ overwritten \subseteq overwritten'
      /\ \A c \in Compiles : row[c] \in Terminal => row'[c] = row[c] \/ c \in overwritten'
  BY TypeParts, RefsParts, SettledStays DEF TypeInv
<1> SUFFICES ASSUME NEW c \in Compiles, job'[c] = "tell"
             PROVE  result'[c] = row'[c] \/ c \in overwritten'
  BY DEF TellKnown
<1>1. CASE job[c] = "tell" /\ result'[c] = result[c]
  BY <1>0, <1>1 DEF TellKnown, JobRefs
<1>2. ASSUME NEW d \in Compiles, Finish(d) PROVE result'[c] = row'[c] \/ c \in overwritten'
  BY <1>0, <1>2, <1>1 DEF Finish, Write, RowTypes, Step, JobTypes
<1>3. ASSUME NEW d \in Compiles, job'[d] # "tell",
             \A e \in Compiles : e # d => job'[e] = job[e] /\ result'[e] = result[e]
      PROVE  result'[c] = row'[c] \/ c \in overwritten'
  BY <1>1, <1>3
<1>4. ASSUME NEW d \in Compiles,
             \/ PickUp(d) \/ CheckFlag(d) \/ Authorize(d) \/ Start(d) \/ AnnounceRunning(d)
             \/ Tell(d) \/ Die(d)
      PROVE  result'[c] = row'[c] \/ c \in overwritten'
  BY <1>0, <1>3, <1>4
     DEF PickUp, CheckFlag, Authorize, Start, AnnounceRunning, Tell, Die, End, Step, SettleWith, JobTypes
<1>5. ASSUME NEW d \in Compiles, Compile(d) \/ Persist(d) \/ PersistFails(d)
      PROVE  result'[c] = row'[c] \/ c \in overwritten'
  BY <1>0, <1>3, <1>5
     DEF Compile, Persist, PersistFails, PersistError, Step, SettleWith, JobTypes
<1>6. ASSUME NEW t \in Requests, Enqueue(t) PROVE result'[c] = row'[c] \/ c \in overwritten'
  BY <1>0, <1>1, <1>6 DEF Enqueue, JobTypes
<1>7. CASE UNCHANGED <<job, result>>
  BY <1>1, <1>7
<1> QED
  BY <1>2, <1>4, <1>5, <1>6, <1>7
     DEF Next, Request, Cancel, Job, vars, api, worker, bytes, ghosts, Ask, FindActive,
     CountProject, CountUser, CommitRequest, RequestFails, ReadStatus, RequestCancel,
     UpdateCancelled, PublishCancelled, CommitCancelled, CancelFails, Snapshot, Subscribe,
     Disconnect, Trip, ExpireFlag, SweepObjects, SweepRows, SweepDies

\* What a stream shows, by where it is.
StreamKnown(w) ==
    /\ watch[w].at = "subscribed" => watch[w].shown \notin Terminal
    /\ watch[w].at = "read" /\ watch[w].shown \in Terminal =>
         watch[w].shown = row[watch[w].id] \/ watch[w].id \in overwritten
    /\ watch[w].at = "ended" =>
         /\ watch[w].shown \in Terminal
         /\ \/ watch[w].shown = row[watch[w].id]
            \/ watch[w].shown = "cancelled" /\ (Announced(watch[w].id) \/ faults > 0)
            \/ watch[w].id \in overwritten

\* The invariant about the end, by job and by stream.
LEMMA EndParts == EndInv <=> TellKnown /\ \A w \in Watchers : StreamKnown(w)
  BY DEF EndInv, EndKnown, ToldTheEnd, TellKnown, StreamKnown

\* Each stream keeps to what its compile became.
LEMMA StreamMove ==
    ASSUME TypeInv, TellKnown, [Next]_vars, NEW w \in Watchers, StreamKnown(w)
    PROVE  StreamKnown(w)'
<1>0. /\ watch \in WatchTypes /\ missed \subseteq Watchers /\ cancel \in CancelTypes /\ SeenRefs /\ JobRefs
      /\ overwritten \subseteq overwritten'
      /\ \A c \in Compiles : row[c] \in Terminal => row'[c] = row[c] \/ c \in overwritten'
      /\ \A c \in Compiles : Announced(c) \/ faults > 0 =>
           Announced(c)' \/ row'[c] = "cancelled" \/ faults' > 0
  BY TypeParts, RefsParts, SettledStays, AnnouncedStays DEF TypeInv
<1>1. CASE watch'[w] = watch[w]
  BY <1>0, <1>1 DEF StreamKnown, SeenRefs
<1>2. ASSUME NEW c \in Compiles, NEW status \in Statuses, Publish(c, status), UNCHANGED <<row, overwritten>>,
             \/ status \notin Terminal
             \/ status = row[c] \/ c \in overwritten
             \/ status = "cancelled" /\ Announced(c)'
      PROVE  StreamKnown(w)'
  BY <1>2, <1>0, <1>1, PublishEffect DEF StreamKnown, Announced
<1>3. ASSUME NEW t \in Cancels, PublishCancelled(t) PROVE StreamKnown(w)'
  BY <1>0, <1>3, <1>2 DEF PublishCancelled, SeenRefs, Statuses, Terminal, CancelTypes, Announced
<1>4. ASSUME NEW c \in Compiles, AnnounceRunning(c) PROVE StreamKnown(w)'
  BY <1>2, <1>4 DEF AnnounceRunning, Statuses, Active, Terminal
<1>5. ASSUME NEW c \in Compiles, Tell(c) PROVE StreamKnown(w)'
  BY <1>0, <1>5, <1>2 DEF Tell, JobRefs, Statuses, TellKnown
<1>6. ASSUME NEW v \in Watchers, Snapshot(v) PROVE StreamKnown(w)'
  BY <1>6, <1>1, <1>0 DEF Snapshot, WatchTypes, StreamKnown
<1>7. ASSUME NEW v \in Watchers, Subscribe(v) PROVE StreamKnown(w)'
  BY <1>0, <1>1, <1>7 DEF Subscribe, WatchTypes, ghosts, StreamKnown
<1>8. ASSUME NEW v \in Watchers, Disconnect(v) PROVE StreamKnown(w)'
  BY <1>0, <1>8, <1>1 DEF Disconnect, WatchTypes, StreamKnown
<1> QED
  BY <1>1, <1>3, <1>4, <1>5, <1>6, <1>7, <1>8
     DEF Next, Request, Cancel, Job, vars, api, worker, bytes, ghosts, Ask, FindActive,
     CountProject, CountUser, Enqueue, CommitRequest, RequestFails, ReadStatus,
     RequestCancel, UpdateCancelled, CommitCancelled, CancelFails, PickUp, CheckFlag,
     Authorize, Start, Trip, ExpireFlag, Compile, Persist, PersistFails, Finish, Die,
     SweepObjects, SweepRows, SweepDies

-----------------------------------------------------------------------------
(* The caps *)

LiveOf(p) == ActiveOf(p) \ overwritten
LiveBy(u) == ActiveBy(u) \ overwritten

\* Sets of compiles are finite: a subset is no larger, and one more counts one.
LEMMA Counting ==
    ASSUME NEW S, NEW T, T \subseteq Compiles
    PROVE  /\ S \subseteq T => Cardinality(S) \in Nat /\ Cardinality(T) \in Nat /\ Cardinality(S) <= Cardinality(T)
           /\ \A x \in Compiles : S \subseteq T \cup {x} =>
                Cardinality(S) \in Nat /\ Cardinality(T) \in Nat /\ Cardinality(S) <= Cardinality(T) + 1
<1>1. IsFiniteSet(T)
  <2>1. IsFiniteSet(Compiles)
    BY BoundsNatural, FS_Interval DEF Compiles
  <2> QED
    BY <2>1, FS_Subset
<1>2. Cardinality(T) \in Nat
  BY <1>1, FS_CardinalityType
<1>3. ASSUME S \subseteq T PROVE Cardinality(S) \in Nat /\ Cardinality(S) <= Cardinality(T)
  BY <1>3, <1>1, FS_Subset, FS_CardinalityType
<1>4. ASSUME NEW x \in Compiles, S \subseteq T \cup {x}
      PROVE  Cardinality(S) \in Nat /\ Cardinality(S) <= Cardinality(T) + 1
  <2>1. IsFiniteSet(T \cup {x}) /\ Cardinality(T \cup {x}) \in {Cardinality(T), Cardinality(T) + 1}
    BY <1>1, FS_AddElement
  <2>2. S \in SUBSET (T \cup {x})
    BY <1>4
  <2>3. IsFiniteSet(S) /\ Cardinality(S) <= Cardinality(T \cup {x}) /\ Cardinality(S) \in Nat
    BY <2>1, <2>2, FS_Subset, FS_CardinalityType
  <2> QED
    BY <1>2, <2>1, <2>3
<1> QED
  BY <1>2, <1>3, <1>4

\* Only the commit of a request adds a compile to those that are queued or
\* running and were not settled before.
LEMMA LiveMove ==
    ASSUME TypeInv, [Next]_vars, NEW c \in Compiles, row'[c] \in Active, c \notin overwritten'
    PROVE  \/ row[c] \in Active /\ c \notin overwritten /\ owner'[c] = owner[c]
           \/ \E t \in Requests : CommitRequest(t) /\ c = req[t].id
<1> DEFINE G == \/ row[c] \in Active /\ c \notin overwritten /\ owner'[c] = owner[c]
                \/ \E t \in Requests : CommitRequest(t) /\ c = req[t].id
<1>0. RowTypes /\ JobRefs /\ ReqRefs /\ SeenRefs /\ RestTypes
  BY TypeParts, RefsParts DEF TypeInv
<1>1. ASSUME NEW t \in Requests, CommitRequest(t) PROVE G
  BY <1>0, <1>1 DEF CommitRequest, RowTypes
<1>2. ASSUME NEW d \in Compiles, NEW status, Write(d, status), row[d] # "none", UNCHANGED owner
      PROVE  G
  BY <1>0, <1>2 DEF Write, RowTypes, Statuses
<1>3. ASSUME NEW t \in Cancels, CommitCancelled(t) PROVE G
  BY <1>0, <1>3, <1>2 DEF CommitCancelled, SeenRefs, api
<1>4. ASSUME NEW d \in Compiles, Start(d) \/ Finish(d) PROVE G
  BY <1>0, <1>4, <1>2 DEF Start, Finish, JobRefs, Working, api
<1>5. ASSUME NEW t \in Requests, Enqueue(t) PROVE G
  BY <1>5, <1>0, BoundsNatural DEF Enqueue, ghosts, Active, JobRefs, RestTypes, Compiles
<1>6. CASE UNCHANGED <<row, overwritten, owner>>
  BY <1>6
<1> QED
  BY <1>1, <1>3, <1>4, <1>5, <1>6
     DEF Next, Request, Cancel, Job, vars, api, worker, bytes, ghosts, Ask, FindActive,
     CountProject, CountUser, RequestFails, ReadStatus, RequestCancel, UpdateCancelled,
     PublishCancelled, CancelFails, Snapshot, Subscribe, Disconnect, PickUp, CheckFlag,
     Authorize, AnnounceRunning, Trip, ExpireFlag, Compile, Persist, PersistFails, Tell,
     Die, SweepObjects, SweepRows, SweepDies

\* So without a commit there are no more than before.
LEMMA LiveShrinks ==
    ASSUME TypeInv, [Next]_vars, \A t \in Requests : ~CommitRequest(t)
    PROVE  /\ \A p : Cardinality(LiveOf(p)') \in Nat /\ Cardinality(LiveOf(p)') <= Cardinality(LiveOf(p))
           /\ \A u : Cardinality(LiveBy(u)') \in Nat /\ Cardinality(LiveBy(u)') <= Cardinality(LiveBy(u))
           /\ \A p : Cardinality(LiveOf(p)) \in Nat /\ Cardinality(LiveOf(p)) <= Cardinality(ActiveOf(p))
           /\ \A u : Cardinality(LiveBy(u)) \in Nat /\ Cardinality(LiveBy(u)) <= Cardinality(ActiveBy(u))
           /\ \A p : Cardinality(ActiveOf(p)) \in Nat
           /\ \A u : Cardinality(ActiveBy(u)) \in Nat
  BY LiveMove, Counting DEF LiveOf, ActiveOf, LiveBy, ActiveBy

\* CapInv, with the sets named.
CapParts ==
    ~raced =>
        /\ \A p \in Projects : Cardinality(LiveOf(p)) <= PerProject
        /\ \A u \in Users : Cardinality(LiveBy(u)) <= PerUser
        /\ \A t \in Requests :
             /\ req[t].at \in {"countUser", "create", "commit"} => Cardinality(LiveOf(req[t].project)) < PerProject
             /\ req[t].at \in {"create", "commit"} => Cardinality(LiveBy(req[t].user)) < PerUser

\* A request that counted finds room until it commits, or another one did not
\* see it.
LEMMA CapMove == ASSUME TypeInv, CapParts, [Next]_vars PROVE CapParts'
<1>0. /\ req \in ReqTypes /\ ReqRefs /\ RowTypes
      /\ PerProject \in Nat \ {0} /\ PerUser \in Nat \ {0}
  BY TypeParts, RefsParts, CapsPositive DEF TypeInv
<1>1. ASSUME NEW t \in Requests, CommitRequest(t), ~raced' PROVE CapParts'
  <2> DEFINE c == req[t].id
             p0 == req[t].project
             u0 == req[t].user
  <2>1. ~raced /\ Counted(t) = {} /\ req[t].at = "commit" /\ UNCHANGED <<owner, overwritten>>
    BY <1>1 DEF CommitRequest
  <2>2. c \in Compiles /\ owner[c] = [project |-> p0, user |-> u0]
    BY <2>1 DEF TypeInv, Refs, JobRefs, Compiles, TypeOK
  <2>3. \A d \in Compiles : d # c => row'[d] = row[d]
    BY <1>0, <1>1, <2>2 DEF CommitRequest, RowTypes
  <2>4. /\ req'[t].at = "idle" /\ \A u \in Requests : u # t => req'[u] = req[u]
    BY <1>0, <1>1 DEF CommitRequest, Answer, ReqTypes
  <2>5. \A p : /\ LiveOf(p) \subseteq Compiles /\ LiveOf(p)' \subseteq LiveOf(p) \cup {c}
               /\ p # p0 => LiveOf(p)' \subseteq LiveOf(p)
    BY <2>1, <2>2, <2>3 DEF LiveOf, ActiveOf
  <2>6. \A u : /\ LiveBy(u) \subseteq Compiles /\ LiveBy(u)' \subseteq LiveBy(u) \cup {c}
               /\ u # u0 => LiveBy(u)' \subseteq LiveBy(u)
    BY <2>1, <2>2, <2>3 DEF LiveBy, ActiveBy
  <2>7. \A p : /\ Cardinality(LiveOf(p)) \in Nat /\ Cardinality(LiveOf(p)') \in Nat
               /\ Cardinality(LiveOf(p)') <= Cardinality(LiveOf(p)) + 1
               /\ p # p0 => Cardinality(LiveOf(p)') <= Cardinality(LiveOf(p))
    BY <2>2, <2>5, Counting
  <2>8. \A u : /\ Cardinality(LiveBy(u)) \in Nat /\ Cardinality(LiveBy(u)') \in Nat
               /\ Cardinality(LiveBy(u)') <= Cardinality(LiveBy(u)) + 1
               /\ u # u0 => Cardinality(LiveBy(u)') <= Cardinality(LiveBy(u))
    BY <2>2, <2>6, Counting
  <2>9. Cardinality(LiveOf(p0)) < PerProject /\ Cardinality(LiveBy(u0)) < PerUser
    BY <2>1 DEF CapParts
  <2>10. \A p \in Projects : Cardinality(LiveOf(p)') <= PerProject
    BY <1>0, <2>1, <2>7, <2>9 DEF CapParts
  <2>11. \A u \in Users : Cardinality(LiveBy(u)') <= PerUser
    BY <1>0, <2>1, <2>8, <2>9 DEF CapParts
  <2>12. ASSUME NEW v \in Requests, req'[v].at \in {"countUser", "create", "commit"}
         PROVE  Cardinality(LiveOf(req[v].project)') < PerProject
    BY <2>1, <2>4, <2>12, <1>0, <2>7 DEF Counted, CapParts
  <2>13. ASSUME NEW v \in Requests, req'[v].at \in {"create", "commit"}
         PROVE  Cardinality(LiveBy(req[v].user)') < PerUser
    BY <2>1, <2>4, <2>13, <1>0, <2>8 DEF Counted, CapParts
  <2> QED
    BY <2>10, <2>11, <2>12, <2>13 DEF CapParts
<1>2. ASSUME \A t \in Requests : ~CommitRequest(t), ~raced, UNCHANGED raced,
             \A v \in Requests :
               /\ req'[v].at \in {"countUser", "create", "commit"} =>
                    \/ req[v].at \in {"countUser", "create", "commit"} /\ req'[v].project = req[v].project
                    \/ ~ProjectFull(req'[v].project)
               /\ req'[v].at \in {"create", "commit"} =>
                    \/ req[v].at \in {"create", "commit"} /\ req'[v].user = req[v].user
                    \/ ~UserFull(req'[v].user)
      PROVE  CapParts'
  BY <1>0, <1>2, LiveShrinks DEF CapParts, ProjectFull, UserFull
<1>3. CASE raced'
  BY <1>3 DEF CapParts
<1>4. CASE ~raced' /\ \A t \in Requests : ~CommitRequest(t)
  <2>1. ASSUME NEW t \in Requests, Ask(t) PROVE CapParts'
    BY <1>0, <2>1, <1>2, <1>4 DEF Ask, ghosts, ReqTypes
  <2>2. ASSUME NEW t \in Requests, FindActive(t) \/ RequestFails(t) PROVE CapParts'
    BY <1>0, <2>2, <1>2, <1>4 DEF FindActive, RequestFails, Goto, Answer, ghosts, ReqTypes
  <2>3. ASSUME NEW t \in Requests, CountProject(t) PROVE CapParts'
    BY <1>0, <2>3, <1>2, <1>4 DEF CountProject, Goto, Answer, ghosts, ReqTypes
  <2>4. ASSUME NEW t \in Requests, CountUser(t) PROVE CapParts'
    BY <1>0, <2>4, <1>2, <1>4 DEF CountUser, Goto, Answer, ghosts, ReqTypes
  <2>5. ASSUME NEW t \in Requests, Enqueue(t) PROVE CapParts'
    BY <1>0, <2>5, <1>2, <1>4 DEF Enqueue, ghosts, ReqTypes
  <2>6. CASE UNCHANGED <<req, raced>>
    BY <1>2, <1>4, <2>6
  <2> QED
    BY <1>4, <2>1, <2>2, <2>3, <2>4, <2>5, <2>6
     DEF Next, Request, Cancel, Job, vars, api, worker, bytes, ghosts, ReadStatus,
     RequestCancel, UpdateCancelled, PublishCancelled, CommitCancelled, CancelFails,
     Snapshot, Subscribe, Disconnect, PickUp, CheckFlag, Authorize, Start,
     AnnounceRunning, Trip, ExpireFlag, Compile, Persist, PersistFails, Finish, Tell, Die,
     SweepObjects, SweepRows, SweepDies
<1> QED
  BY <1>1, <1>3, <1>4

-----------------------------------------------------------------------------
(* The invariant and what it gives *)

\* Nothing has been asked yet.
LEMMA InitInv == ASSUME Init PROVE Inv
<1>1. TypeInv
  <2>1. req \in ReqTypes /\ cancel \in CancelTypes /\ watch \in WatchTypes
    BY DEF Init, Nobody, ReqTypes, CancelTypes, WatchTypes, Statuses
  <2>2. RestTypes
    <3>1. MaxFaults \in Nat /\ 0 \in 0..MaxFaults
      BY BoundsNatural
    <3>2. owner \in [Compiles -> [project : Projects \cup {"-"}, user : Users \cup {"-"}]]
      BY DEF Init
    <3> QED
      BY <3>1, <3>2 DEF Init, RestTypes
  <2>3. RowTypes /\ JobTypes /\ missed \subseteq Watchers
    BY DEF Init, RowTypes, JobTypes, Statuses, JobPlaces
  <2>4. TypeOK
    BY <2>1, <2>2, <2>3, TypeParts
  <2>5. Refs
    BY DEF Init, Nobody, Refs, Working
  <2> QED
    BY <2>4, <2>5 DEF TypeInv
<1>2. OutputsInv
  BY DEF Init, OutputsInv, SuccessHasOutputs, OutputsWhole, OutputsKnown
<1>3. EndInv
  BY DEF Init, EndInv, ToldTheEnd, EndKnown, Terminal
<1>4. CapInv
  <2>1. \A p : ActiveOf(p) \ overwritten = {} /\ ActiveBy(p) \ overwritten = {}
    BY DEF Init, ActiveOf, ActiveBy, Active
  <2>2. Cardinality({}) = 0
    BY FS_EmptySet
  <2>3. 0 <= PerProject /\ 0 <= PerUser
    BY CapsPositive
  <2>4. \A t \in Requests : req[t].at = "idle"
    BY DEF Init, Nobody
  <2> QED
    BY <2>1, <2>2, <2>3, <2>4 DEF CapInv, Capped, RoomLeft
<1> QED
  BY <1>1, <1>2, <1>3, <1>4 DEF Inv

\* Every step keeps the invariant.
LEMMA StepInv == ASSUME Inv, [Next]_vars PROVE Inv'
  BY TypeInvStep, OutputsMove, SuccessMove, EndParts, TellMove, StreamMove, CapMove DEF Inv, OutputsInv,
     EndInv, EndKnown, ToldTheEnd, TellKnown, StreamKnown, CapInv, CapParts, Capped, RoomLeft, LiveOf,
     LiveBy

\* The invariant holds throughout.
LEMMA Invariance == Spec => []Inv
  BY InitInv, StepInv, PTL DEF Spec

\* Every variable has its type.
THEOREM TypeCorrect == Spec => []TypeOK
<1>1. Inv => TypeOK
  BY DEF Inv, TypeInv
<1> QED
  BY <1>1, Invariance, PTL

\* With any number of requests, jobs, watchers and sweeps, a compile is a success
\* only with its outputs, whoever is told of it finds them, and rows and bytes
\* part only where a job or a sweep died or is at work.
THEOREM OutputsAreServed == Spec => []OutputsServed
<1>1. Inv => OutputsServed
  BY DEF Inv, OutputsInv, OutputsServed
<1> QED
  BY <1>1, Invariance, PTL

\* A stream is told the end its compile has, but for what an overwritten row or
\* an announced cancel explains.
THEOREM EndIsTold == Spec => []ToldTheEnd
<1>1. Inv => ToldTheEnd
  BY DEF Inv, EndInv
<1> QED
  BY <1>1, Invariance, PTL

\* The caps hold for any caps, projects and users, as long as no two requests
\* decide on the same counts.
THEOREM CapsHold == Spec => []Capped
<1>1. Inv => Capped
  BY DEF Inv, CapInv
<1> QED
  BY <1>1, Invariance, PTL
=============================================================================
