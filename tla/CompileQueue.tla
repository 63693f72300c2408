----------------------------- MODULE CompileQueue -----------------------------
(***************************************************************************)
(* A compile from the request to its outputs: queue/coordinator.py and the *)
(* routes of routes/compile.py in the API, queue/jobs.py and               *)
(* queue/retention.py in the ARQ worker, queue/stream.py for those who     *)
(* watch, outputs/store.py for the bytes.                                  *)
(*                                                                         *)
(* API and worker share the compiles table and Redis.  A step is what one  *)
(* of them does up to its next query, commit or Redis command.  A query    *)
(* sees what is committed (PostgreSQL's read committed); an update locks   *)
(* its row until the commit, and is by id alone.  The engine is its        *)
(* result; failure, timeout and error are all "failed".                    *)
(***************************************************************************)
EXTENDS Naturals, FiniteSets

CONSTANTS
    Requests,       \* POST requests, and first compiles of imported templates
    Cancels,        \* requests to cancel
    Watchers,       \* event streams
    Projects, Users,
    PerProject,     \* COMPILE_MAX_CONCURRENT_PER_PROJECT
    PerUser,        \* COMPILE_MAX_CONCURRENT_PER_USER
    Retained,       \* COMPILE_RETAIN_PER_PROJECT
    MaxCompiles,    \* bound: rows of the compiles table
    MaxFaults       \* bound: requests that fail, jobs that die, writes that raise

Compiles == 1..MaxCompiles

ASSUME CapsPositive == {PerProject, PerUser} \subseteq Nat \ {0}
ASSUME BoundsNatural == {Retained, MaxCompiles, MaxFaults} \subseteq Nat

VARIABLES
    req,        \* each request: where it is, for whom, and the row it made
    created,    \* rows inserted so far, committed or not
    owner,      \* project and user of each row
    row,        \* committed status of each row, "none" before
    job, result,    \* where each job is, and the status it will settle with
    flag, tripped,  \* cancel flags in Redis; jobs whose watcher saw theirs
    cancel,     \* each cancel: where it is, its compile, the status it read
    watch,      \* each stream: where it is, its compile, the status it shows
    stored,     \* compiles with bytes in the object store
    listed,     \* compiles with committed compile_outputs rows
    sweep,      \* compiles the retention sweep is deleting
    raced,      \* two requests decided on the same counts
    lost,       \* compiles whose job found no row or ended half-way, or whose
                \* request failed to commit
    overwritten,    \* settled rows that were written once more
    missed,     \* streams that missed the end before they subscribed
    pruned, torn,   \* compiles swept, and those whose sweep died half-way
    faults      \* counter of the bound

api    == <<req, created, owner>>
worker == <<job, result, tripped>>
bytes  == <<stored, listed, sweep>>
ghosts == <<raced, lost, overwritten, missed, pruned, torn>>
vars == <<api, row, worker, flag, cancel, watch, bytes, ghosts, faults>>

-----------------------------------------------------------------------------
(* The table *)

Active == {"queued", "running"}
Terminal == {"success", "failed", "cancelled"}

ActiveOf(p) == {c \in Compiles : row[c] \in Active /\ owner[c].project = p}
ActiveBy(u) == {c \in Compiles : row[c] \in Active /\ owner[c].user = u}

\* A cancel has updated the row and not committed.
Locked(c) == \E t \in Cancels : cancel[t].id = c /\ cancel[t].at \in {"publish", "commit"}

\* Variant: a settled row is left as it is.
WriteUnsettled(c, status) ==
    /\ row' = [row EXCEPT ![c] = IF @ \in Terminal THEN @ ELSE status]
    /\ UNCHANGED overwritten

\* update_status is by id alone, whatever the row says.
Write(c, status) ==
    /\ row' = [row EXCEPT ![c] = status]
    /\ overwritten' = IF row[c] \in Terminal /\ status # row[c] THEN overwritten \cup {c} ELSE overwritten

Fault == faults < MaxFaults /\ faults' = faults + 1

-----------------------------------------------------------------------------
(* publish_status and the streams it reaches *)

\* Variant: a cancelled compile is not taken for one that ended.
PublishCompleted(c, status) ==
    /\ watch' = [w \in Watchers |->
         IF watch[w].at = "subscribed" /\ watch[w].id = c
         THEN [watch[w] EXCEPT !.shown = status,
                               !.at = IF status \in {"success", "failed"} THEN "ended" ELSE @]
         ELSE watch[w]]
    /\ missed' = missed \cup {w \in Watchers : /\ watch[w].at = "read" /\ watch[w].id = c
                                             /\ status \in Terminal}

\* Only streams that have subscribed hear of it.
Publish(c, status) ==
    /\ watch' = [w \in Watchers |->
         IF watch[w].at = "subscribed" /\ watch[w].id = c
         THEN [watch[w] EXCEPT !.shown = status, !.at = IF status \in Terminal THEN "ended" ELSE @]
         ELSE watch[w]]
    /\ missed' = missed \cup {w \in Watchers : /\ watch[w].at = "read" /\ watch[w].id = c
                                             /\ status \in Terminal}

\* A cancel has published and not committed.
Announced(c) == \E t \in Cancels : cancel[t].id = c /\ cancel[t].at = "commit"

\* sse_stream reads the row first, then subscribes.
Snapshot(w) ==
    /\ watch[w].at = "idle"
    /\ \E c \in Compiles :
         /\ row[c] # "none"
         /\ watch' = [watch EXCEPT ![w] = [at |-> "read", id |-> c, shown |-> row[c]]]
         /\ missed' = IF Announced(c) THEN missed \cup {w} ELSE missed
    /\ UNCHANGED <<api, row, worker, flag, cancel, bytes, raced, lost, overwritten, pruned, torn,
                   faults>>

Subscribe(w) ==
    /\ watch[w].at = "read"
    /\ watch' = [watch EXCEPT ![w].at = IF watch[w].shown \in Terminal THEN "ended" ELSE "subscribed"]
    /\ UNCHANGED <<api, row, worker, flag, cancel, bytes, ghosts, faults>>

\* The client goes away, or its stream has ended.
Disconnect(w) ==
    /\ watch[w].at \in {"subscribed", "ended"}
    /\ watch' = [watch EXCEPT ![w] = [at |-> "idle", id |-> 0, shown |-> "none"]]
    /\ missed' = missed \ {w}
    /\ UNCHANGED <<api, row, worker, flag, cancel, bytes, raced, lost, overwritten,
                   pruned, torn, faults>>

-----------------------------------------------------------------------------
(* enqueue_compile and CompileCoordinator.request_compile *)

Goto(t, place) == req' = [req EXCEPT ![t].at = place]
Answer(t) == req' = [req EXCEPT ![t] = [at |-> "idle", project |-> "-", user |-> "-", id |-> 0]]

\* force skips the look for an active compile.
Ask(t) ==
    /\ req[t].at = "idle"
    /\ \E p \in Projects, u \in Users, force \in BOOLEAN :
         req' = [req EXCEPT ![t] = [at |-> IF force THEN "count" ELSE "find",
                                    project |-> p, user |-> u, id |-> 0]]
    /\ UNCHANGED <<created, owner, row, worker, flag, cancel, watch, bytes, ghosts, faults>>

Coalesce(p) == ActiveOf(p) # {}

FindActive(t) ==
    /\ req[t].at = "find"
    /\ IF Coalesce(req[t].project) THEN Answer(t) ELSE Goto(t, "count")
    /\ UNCHANGED <<created, owner, row, worker, flag, cancel, watch, bytes, ghosts, faults>>

\* Variant: one too many is let through.
ProjectFullLate(p) == Cardinality(ActiveOf(p)) > PerProject

ProjectFull(p) == Cardinality(ActiveOf(p)) >= PerProject
UserFull(u) == Cardinality(ActiveBy(u)) >= PerUser

CountProject(t) ==
    /\ req[t].at = "count"
    /\ IF ProjectFull(req[t].project) THEN Answer(t) ELSE Goto(t, "countUser")
    /\ UNCHANGED <<created, owner, row, worker, flag, cancel, watch, bytes, ghosts, faults>>

CountUser(t) ==
    /\ req[t].at = "countUser"
    /\ IF UserFull(req[t].user) THEN Answer(t) ELSE Goto(t, "create")
    /\ UNCHANGED <<created, owner, row, worker, flag, cancel, watch, bytes, ghosts, faults>>

\* The row is inserted, and its job enqueued before the commit.
Enqueue(t) ==
    /\ req[t].at = "create" /\ created < MaxCompiles
    /\ created' = created + 1
    /\ owner' = [owner EXCEPT ![created + 1] = [project |-> req[t].project, user |-> req[t].user]]
    /\ job' = [job EXCEPT ![created + 1] = "waiting"]
    /\ req' = [req EXCEPT ![t] = [@ EXCEPT !.at = "commit", !.id = created + 1]]
    /\ UNCHANGED <<row, result, tripped, flag, cancel, watch, bytes, ghosts, faults>>

\* Another request has counted without this row.
Counted(u) ==
    {t \in Requests : \/ req[t].project = req[u].project /\ req[t].at \in {"countUser", "create", "commit"}
                      \/ req[t].user = req[u].user /\ req[t].at \in {"create", "commit"}} \ {u}

\* The unit of work commits when the route ends.
CommitRequest(t) ==
    /\ req[t].at = "commit"
    /\ row' = [row EXCEPT ![req[t].id] = "queued"]
    /\ raced' = (raced \/ Counted(t) # {})
    /\ Answer(t)
    /\ UNCHANGED <<created, owner, worker, flag, cancel, watch, bytes, lost, overwritten,
                   missed, pruned, torn, faults>>

RequestFails(t) ==
    /\ req[t].at = "commit" /\ Fault
    /\ lost' = lost \cup {req[t].id}
    /\ Answer(t)
    /\ UNCHANGED <<created, owner, row, worker, flag, cancel, watch, bytes, raced,
                   overwritten, missed, pruned, torn>>

-----------------------------------------------------------------------------
(* cancel_compile *)

Done(t) == cancel' = [cancel EXCEPT ![t] = [at |-> "idle", id |-> 0, seen |-> "none"]]

\* A terminal row is answered as it is.
ReadStatus(t) ==
    /\ cancel[t].at = "idle"
    /\ \E c \in Compiles :
         /\ row[c] \in Active
         /\ cancel' = [cancel EXCEPT ![t] = [at |-> "flag", id |-> c, seen |-> row[c]]]
    /\ UNCHANGED <<api, row, worker, flag, watch, bytes, ghosts, faults>>

\* A running compile is left to its job.
RequestCancel(t) ==
    /\ cancel[t].at = "flag"
    /\ flag' = IF job[cancel[t].id] = "over" THEN flag ELSE flag \cup {cancel[t].id}
    /\ IF cancel[t].seen = "queued" THEN cancel' = [cancel EXCEPT ![t].at = "update"] ELSE Done(t)
    /\ UNCHANGED <<api, row, worker, watch, bytes, ghosts, faults>>

UpdateCancelled(t) ==
    /\ cancel[t].at = "update" /\ ~Locked(cancel[t].id)
    /\ cancel' = [cancel EXCEPT ![t].at = "publish"]
    /\ UNCHANGED <<api, row, worker, flag, watch, bytes, ghosts, faults>>

\* The event goes out before the commit.
PublishCancelled(t) ==
    /\ cancel[t].at = "publish"
    /\ Publish(cancel[t].id, "cancelled")
    /\ cancel' = [cancel EXCEPT ![t].at = "commit"]
    /\ UNCHANGED <<api, row, worker, flag, bytes, raced, lost, overwritten, pruned, torn,
                   faults>>

CommitCancelled(t) ==
    /\ cancel[t].at = "commit"
    /\ Write(cancel[t].id, "cancelled")
    /\ Done(t)
    /\ UNCHANGED <<api, worker, flag, watch, bytes, raced, lost, missed, pruned, torn,
                   faults>>

CancelFails(t) ==
    /\ cancel[t].at \in {"update", "publish", "commit"} /\ Fault
    /\ Done(t)
    /\ UNCHANGED <<api, row, worker, flag, watch, bytes, ghosts>>

\* The flag outlives a running job: COMPILE_CANCEL_FLAG_TTL_S is above the job's
\* time limit.
ExpireFlag(c) ==
    /\ c \in flag /\ job[c] = "waiting"
    /\ flag' = flag \ {c}
    /\ UNCHANGED <<api, row, worker, cancel, watch, bytes, ghosts, faults>>

-----------------------------------------------------------------------------
(* run_compile *)

Step(c, place) == job' = [job EXCEPT ![c] = place]
SettleWith(c, status) == result' = [result EXCEPT ![c] = status] /\ Step(c, "finish")

\* The job is over, and nothing reads its flag any more.
End(c) ==
    /\ Step(c, "over")
    /\ result' = [result EXCEPT ![c] = "none"]
    /\ tripped' = tripped \ {c} /\ flag' = flag \ {c}

\* The row must be committed; a terminal one is left as it is.
PickUp(c) ==
    /\ job[c] = "waiting"
    /\ IF row[c] \in Active THEN Step(c, "flag") /\ UNCHANGED <<result, tripped, flag>> ELSE End(c)
    /\ lost' = IF row[c] = "none" THEN lost \cup {c} ELSE lost
    /\ UNCHANGED <<api, row, cancel, watch, bytes, raced, overwritten, missed, pruned, torn,
                   faults>>

CheckFlag(c) ==
    /\ job[c] = "flag"
    /\ IF c \in flag THEN SettleWith(c, "cancelled") ELSE Step(c, "authorize") /\ UNCHANGED result
    /\ UNCHANGED <<api, row, tripped, flag, cancel, watch, bytes, ghosts, faults>>

\* The requester may have lost the right to compile.
Authorize(c) ==
    /\ job[c] = "authorize"
    /\ \/ Step(c, "start") /\ UNCHANGED result
       \/ SettleWith(c, "failed")
    /\ UNCHANGED <<api, row, tripped, flag, cancel, watch, bytes, ghosts, faults>>

\* announce: whatever the row has become since PickUp.
Start(c) ==
    /\ job[c] = "start" /\ ~Locked(c)
    /\ Write(c, "running")
    /\ Step(c, "announce")
    /\ UNCHANGED <<api, result, tripped, flag, cancel, watch, bytes, raced, lost, missed,
                   pruned, torn, faults>>

AnnounceRunning(c) ==
    /\ job[c] = "announce"
    /\ Publish(c, "running")
    /\ Step(c, "compile")
    /\ UNCHANGED <<api, row, result, tripped, flag, cancel, bytes, raced, lost, overwritten,
                   pruned, torn, faults>>

\* _cancel_watcher polls the flag while the service runs.
Trip(c) ==
    /\ job[c] = "compile" /\ c \in flag \ tripped
    /\ tripped' = tripped \cup {c}
    /\ UNCHANGED <<api, row, job, result, flag, cancel, watch, bytes, ghosts, faults>>

\* The token stops what still runs: an engine that was done by then has its own
\* result.  A success has outputs; any other result may leave some.
Compile(c) ==
    /\ job[c] = "compile"
    /\ \/ Step(c, "persist") /\ result' = [result EXCEPT ![c] = "success"]
       \/ \E status \in {"failed"} \cup (IF c \in tripped THEN {"cancelled"} ELSE {}) :
            /\ result' = [result EXCEPT ![c] = status]
            /\ Step(c, "persist") \/ Step(c, "finish")
    /\ UNCHANGED <<api, row, tripped, flag, cancel, watch, bytes, ghosts, faults>>

\* Variant: the error is logged, and the result stays.
PersistErrorLogged(c) == Step(c, "finish") /\ UNCHANGED result

\* Variant: the job is to run once more.
PersistErrorQueued(c) == SettleWith(c, "queued")

\* Variant: the error ends the job.
PersistErrorRaised(c) == Step(c, "over") /\ result' = [result EXCEPT ![c] = "none"]

PersistError(c) == SettleWith(c, "failed")

\* OutputStore.persist puts each artifact in the store and adds its row.
Persist(c) ==
    /\ job[c] = "persist"
    /\ stored' = stored \cup {c}
    /\ Step(c, "finish")
    /\ UNCHANGED <<api, row, result, tripped, flag, cancel, watch, listed, sweep, ghosts, faults>>

\* The store refuses an artifact: the first, or one after others.
PersistFails(c) ==
    /\ job[c] = "persist" /\ Fault
    /\ PersistError(c)
    /\ stored' \in {stored, stored \cup {c}}
    /\ UNCHANGED <<api, row, tripped, flag, cancel, watch, listed, sweep, ghosts>>

\* Variant: only a success has its outputs recorded.
RecordedOnSuccess(c) == IF result[c] = "success" THEN listed \cup {c} ELSE listed

Recorded(c) == IF c \in stored THEN listed \cup {c} ELSE listed

\* The status and the rows of the outputs are one commit.
Finish(c) ==
    /\ job[c] = "finish" /\ ~Locked(c)
    /\ Write(c, result[c])
    /\ listed' = Recorded(c)
    /\ Step(c, "tell")
    /\ UNCHANGED <<api, result, tripped, flag, cancel, watch, stored, sweep, raced, lost,
                   missed, pruned, torn, faults>>

Tell(c) ==
    /\ job[c] = "tell"
    /\ Publish(c, result[c])
    /\ End(c)
    /\ UNCHANGED <<api, row, cancel, bytes, raced, lost, overwritten,
                   pruned, torn, faults>>

\* A crash of the worker, ARQ's time limit, or a Redis or database error: the
\* job has had its one try.
Die(c) ==
    /\ job[c] \in {"flag", "authorize", "start", "announce", "compile", "persist", "finish", "tell"}
    /\ Fault
    /\ End(c)
    /\ lost' = lost \cup {c}
    /\ UNCHANGED <<api, row, cancel, watch, bytes, raced, overwritten,
                   missed, pruned, torn>>

-----------------------------------------------------------------------------
(* cleanup_compile_outputs, one compile of the batch *)

Newer(c) == {d \in Compiles : d > c /\ row[d] # "none" /\ owner[d].project = owner[c].project}

\* Beyond the window that is kept, or too old.
SweepObjects ==
    /\ sweep = {}
    /\ \E c \in listed :
         /\ Cardinality(Newer(c)) >= Retained
         /\ sweep' = {c} /\ stored' = stored \ {c}
    /\ UNCHANGED <<api, row, worker, flag, cancel, watch, listed, ghosts, faults>>

SweepRows ==
    /\ sweep # {}
    /\ listed' = listed \ sweep
    /\ pruned' = pruned \cup sweep /\ torn' = torn \ sweep
    /\ sweep' = {}
    /\ UNCHANGED <<api, row, worker, flag, cancel, watch, stored, raced, lost, overwritten,
                   missed, faults>>

\* The next sweep finds the rows again.
SweepDies ==
    /\ sweep # {} /\ Fault
    /\ torn' = torn \cup sweep
    /\ sweep' = {}
    /\ UNCHANGED <<api, row, worker, flag, cancel, watch, stored, listed, raced, lost,
                   overwritten, missed, pruned>>

-----------------------------------------------------------------------------
Nobody == [at |-> "idle", project |-> "-", user |-> "-", id |-> 0]

Init ==
    /\ req = [t \in Requests |-> Nobody] /\ created = 0
    /\ owner = [c \in Compiles |-> [project |-> "-", user |-> "-"]]
    /\ row = [c \in Compiles |-> "none"]
    /\ job = [c \in Compiles |-> "none"] /\ result = [c \in Compiles |-> "none"]
    /\ flag = {} /\ tripped = {}
    /\ cancel = [t \in Cancels |-> [at |-> "idle", id |-> 0, seen |-> "none"]]
    /\ watch = [w \in Watchers |-> [at |-> "idle", id |-> 0, shown |-> "none"]]
    /\ stored = {} /\ listed = {} /\ sweep = {}
    /\ raced = FALSE /\ lost = {} /\ overwritten = {} /\ missed = {}
    /\ pruned = {} /\ torn = {}
    /\ faults = 0

Request(t) == FindActive(t) \/ CountProject(t) \/ CountUser(t) \/ Enqueue(t) \/ CommitRequest(t)
Cancel(t) == RequestCancel(t) \/ UpdateCancelled(t) \/ PublishCancelled(t) \/ CommitCancelled(t)
Job(c) ==
    \/ PickUp(c) \/ CheckFlag(c) \/ Authorize(c) \/ Start(c) \/ AnnounceRunning(c)
    \/ Trip(c) \/ Compile(c) \/ Persist(c) \/ Finish(c) \/ Tell(c)

Next ==
    \/ \E t \in Requests : Ask(t) \/ Request(t) \/ RequestFails(t)
    \/ \E t \in Cancels : ReadStatus(t) \/ Cancel(t) \/ CancelFails(t)
    \/ \E w \in Watchers : Snapshot(w) \/ Subscribe(w) \/ Disconnect(w)
    \/ \E c \in Compiles : Job(c) \/ ExpireFlag(c) \/ PersistFails(c) \/ Die(c)
    \/ SweepObjects \/ SweepRows \/ SweepDies

Spec == Init /\ [][Next]_vars

\* Requests that have begun run on, the worker works through its queue, and the
\* event loop serves a stream.  Nobody has to ask, cancel, watch or go away.
Fairness ==
    /\ \A t \in Requests : WF_vars(Request(t))
    /\ \A t \in Cancels : WF_vars(Cancel(t))
    /\ \A c \in Compiles : WF_vars(Job(c))
    /\ \A w \in Watchers : WF_vars(Subscribe(w))
FairSpec == Spec /\ Fairness

-----------------------------------------------------------------------------
(* Properties *)

Statuses == {"none"} \cup Active \cup Terminal
JobPlaces == {"none", "waiting", "flag", "authorize", "start", "announce", "compile", "persist",
              "finish", "tell", "over"}

\* Every variable has its type.
TypeOK ==
    /\ req \in [Requests -> [at : {"idle", "find", "count", "countUser", "create", "commit"},
                             project : Projects \cup {"-"}, user : Users \cup {"-"},
                             id : Compiles \cup {0}]]
    /\ created \in Compiles \cup {0}
    /\ owner \in [Compiles -> [project : Projects \cup {"-"}, user : Users \cup {"-"}]]
    /\ row \in [Compiles -> Statuses]
    /\ job \in [Compiles -> JobPlaces] /\ result \in [Compiles -> {"none"} \cup Terminal]
    /\ flag \cup tripped \subseteq Compiles
    /\ cancel \in [Cancels -> [at : {"idle", "flag", "update", "publish", "commit"},
                               id : Compiles \cup {0}, seen : {"none"} \cup Active]]
    /\ watch \in [Watchers -> [at : {"idle", "read", "subscribed", "ended"},
                               id : Compiles \cup {0}, shown : Statuses]]
    /\ stored \cup listed \cup sweep \subseteq Compiles
    /\ raced \in BOOLEAN /\ missed \subseteq Watchers
    /\ lost \cup overwritten \cup pruned \cup torn \subseteq Compiles
    /\ faults \in 0..MaxFaults

\* No project and no user has more compiles queued or running than its cap, as
\* long as no two requests decided on the same counts and no settled compile
\* was started all the same.
Capped ==
    ~raced =>
        /\ \A p \in Projects : Cardinality(ActiveOf(p) \ overwritten) <= PerProject
        /\ \A u \in Users : Cardinality(ActiveBy(u) \ overwritten) <= PerUser

\* The end a stream was told is the end the compile has, unless a settled row
\* was written again, or the event ran ahead of the commit of a cancel (a fault
\* may then undo that cancel).
ToldTheEnd ==
    \A w \in Watchers : watch[w].at = "ended" =>
        \/ watch[w].shown = row[watch[w].id]
        \/ watch[w].shown = "cancelled" /\ (Announced(watch[w].id) \/ faults > 0)
        \/ watch[w].id \in overwritten

\* A compile is a success only with its outputs to be had, until they are swept,
\* and whoever is told of the success can fetch them.
SuccessHasOutputs ==
    /\ \A c \in Compiles : row[c] = "success" => c \in listed \cup pruned
    /\ \A w \in Watchers : watch[w].shown = "success" => watch[w].id \in listed \cup pruned

\* Rows and bytes of outputs go together: a row without its bytes is being swept
\* or was when the sweep died, bytes without a row are about to get one or
\* their job died.
OutputsWhole ==
    /\ listed \ stored \subseteq sweep \cup torn
    /\ stored \ listed \subseteq lost \cup {c \in Compiles : job[c] \in {"persist", "finish"}}

\* What is told of as a success can be had, and no output is half there.
OutputsServed == SuccessHasOutputs /\ OutputsWhole

\* A queued or running compile settles, unless its job came before its row,
\* died, or found a settled row.
EveryCompileSettles ==
    \A c \in Compiles : row[c] \in Active ~> row[c] \in Terminal \/ c \in lost

\* A stream ends or its client leaves, under the same condition and unless it
\* missed the event of the end.
EveryStreamEnds ==
    \A w \in Watchers : watch[w].at = "subscribed" ~>
        \/ watch[w].at # "subscribed" \/ w \in missed
        \/ watch[w].id \in lost

\* Claim of the comment in sse_stream: no transition between the read of the
\* snapshot and the subscription is lost, so that a stream does not wait for
\* the end of a compile whose job is over and told of it.
NoTransitionLost ==
    \A w \in Watchers : watch[w].at = "subscribed" /\ watch[w].id \notin lost =>
        ~(row[watch[w].id] \in Terminal /\ job[watch[w].id] = "over" /\ \A t \in Cancels : cancel[t].at = "idle")
=============================================================================
