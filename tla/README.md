# Inkstave: formal models

TLA+ models of Inkstave, a collaborative LaTeX editor: a FastAPI backend
(`src/backend`), an ARQ worker in the same package, PostgreSQL, Redis and an
object store, and a React frontend (`src/frontend`). Every definition that
stands for code names its lines in `PROJECT.json` under `map`; the hazards the
properties answer are there too, each at its line.

## 1. The system

| Component | State it keeps | Operations | What is hard | What makes it correct |
|---|---|---|---|---|
| collab: document rooms (`modules/collab/rooms`, `crdt`) | per process: open documents with reference count, live CRDT, lock, timers; database: snapshot and update log per document, `documents.content` | acquire, update, server update, compaction, text flush, release, eviction | locks that are dropped and replaced, timers, writes that fail half-way, crashes | an acknowledged update is durable; memory covers the database; references are exact; unused documents go |
| collab: WebSocket and its client (`modules/collab/ws`, frontend `modules/collab`) | rooms, connections, awareness; per page a replica, a socket, timers | dial, handshake, receive, fan-out, presence, back off, destroy | a socket that one side believes dead; a room closed and opened at once | one socket per page; replicas equal once quiet; nobody shown who has left |
| history (`modules/history`) | per process: buffers, replicas, locks; database: chunks, update rows, labels | capture, flush, reconstruct, compact, restore, label | flushes that overlap, buffers lost or duplicated, merges | what was captured is stored once; a version never changes what it shows |
| compile and its preview (`modules/compile`, frontend `modules/pdf-preview`) | compile rows, Redis channel and cancel flag, worker slots, outputs; the pane's compile, stream, PDF, log | request, run, cancel, stream, retain; follow, poll, draw | API and worker race on a row; a status missed before the subscription; answers of an earlier compile | a compile settles once, watchers learn the end, the pane shows the compile it follows |
| agent and its panel (`modules/agent`, frontend `modules/agent`) | sessions, runs, events, proposals; transcript, message box, dictation | start a run, stream events, decide a proposal, cancel, switch sessions | answers that arrive in another session, replayed events | a transcript of its own session; a proposal decided once; a draft not lost |
| projects: tree, documents (`modules/projects/tree`, `content`, frontend `modules/file-tree`, `modules/editor`) | tree rows, blobs, versioned contents; cached tree, selection, autosave | create, rename, move, delete, upload; select, load, save, jump | check first, write later; a save answered after the document was left | the panel converges; no blind overwrite; what was typed stays until saved |
| projects: sharing (`modules/projects/sharing`, frontend `modules/sharing`) | memberships, invites, links; the dialog and its three queries | invite, accept, change role, transfer, link on and off, join, leave | transactions that read, decide and write without a lock | access ends with what granted it; a role is lowered by nobody but the owner |
| projects: catalog, import (`modules/projects/catalog`, `transfer`, frontend `modules/projects`) | projects, import jobs; the list, dialogs, the report | create, rename, archive, delete, import, export | optimistic changes, a job quicker than its row | the dashboard converges; an import's outcome is told |
| auth (`modules/auth`, frontend `modules/auth`, `lib/api-client.ts`) | users, token pairs, sessions, mailed links; per tab an access token and a user | sign in, rotate, sign out, reset, confirm | several tabs sharing one refresh token; revocation racing a rotation | an ended session stays dead; nobody signed in is thrown out |
| discussion, notifications (`modules/discussion`, `modules/notifications`) | chat, comment threads with anchors, inbox; pages, badges | post, edit, delete, resolve, notify | events unordered with answers, missed while reconnecting | lists converge; each message once; the badge is true |
| tools over the text (frontend `modules/project-search`, `spellcheck`, `insert-tools`) | index of texts, marks, dictionaries, drafts | search, replace, check, insert | others type meanwhile; late verdicts | a tool writes only what it was asked to |
| git (`modules/git`) | bare repositories, locks, pushes | clone, fetch, push, write back | a push against a project being edited | a push is applied wholly or refused |
| admin, core, infra | settings, database sessions, e-mail, object store | provisioning, unit of work | e-mail before a commit | - |

How they interact. The API process, or several of them, serves REST and
WebSocket; one event loop runs all its coroutines, which interleave at their
awaits. A WebSocket update goes through the document manager (apply, append,
compact), then to the history service (capture), then to the other sockets of the
room and over Redis to those of other processes. Requests that need the text of a
project (compile, export, agent) force the manager to flush it to
`documents.content`. A restore, an applied agent edit and a Git push enter the
manager as server updates. Compiles, imports, agent turns and sweeps are ARQ jobs
in the worker; API and worker meet in PostgreSQL rows and in Redis keys and
channels only. A route's database work commits when the route ends
(`core/db/session.py:35-47`); jobs are enqueued and events published before that.
In the browser every module keeps its own state; modules meet in the open document
and in the one stream of project events.

## 2. Modules

| Module | Models | Checked by | Proved in |
|---|---|---|---|
| `UpdateStore` | abstract: what persistence of edits promises | `dm_faults` (refinement) | `DocumentManagerProofs` |
| `DocumentManager` | `collab/rooms/manager.py` over `store.py`, `content_bridge.py`, `crdt/*` | `dm_faults`, `dm_live` | `DocumentManagerProofs` |
| `CollabClient` | the provider, presence and write gate of an open editor against `collab/ws` | `collab_client` | `CollabClientProofs` |
| `VersionHistory` | abstract: what the version history promises its readers | `hist_restore` (refinement) | `HistoryCaptureProofs` |
| `HistoryCapture` | `history/versions/capture.py`, `reconstruct.py`, `jobs.py`, `restore.py` and their callers | `hist_restore`, `hist_live`, `hist_overlap` | `HistoryCaptureProofs` |
| `CompileQueue` | `compile/queue/*`, the routes of `routes/compile.py` that write, `outputs/store.py`, `retention.py` | `compile_live`, `compile_watch` | `CompileQueueProofs` |
| `EditorScreen` | the pane: selection, loading, autosave, jumps, panels, leaving; `documents.py`'s versioned replace | `editing` | `EditingProofs` |
| `ProjectSearch` | the project's index, search and replace | `editing` | - |
| `Spellcheck` | the plugin, its worker, the dictionaries | `editing` | `EditingProofs` |
| `InsertTools` | symbol palette, table builder, equation editor | `editing` | - |
| `AgentChat` | the agent's panel, its run routes and worker | `workspace` | - |
| `ProjectEvents` | the stream of project events, extended by the next two | `workspace` | `PanelsProofs` |
| `CommentThreads` | comment threads, their anchors in the text, server and panel | `workspace` | `PanelsProofs` |
| `ProjectChat` | the chat, server and panel | `workspace` | `PanelsProofs` |
| `FileTree` | the tree's rows and requests, and the panel | `workspace` | - |
| `CompileView` | the preview pane | `project_pages` | `ProjectPagesProofs` |
| `ProjectSharing` | members, invites, links and the pages about them | `project_pages`, `sharing_owner` | `AccessProofs`, `ProjectPagesProofs` |
| `Dashboard` | the list of projects, dialogs, imports | `project_pages` | `ProjectPagesProofs` |
| `Notifications` | the inbox and the bell | `project_pages` | `ProjectPagesProofs` |
| `SessionTokens` | token pairs and sessions, the browser's tabs, mailed links | `project_pages` | `AccessProofs`, `ProjectPagesProofs` |
| `AccountSettings` | profile, preferences, e-mail change, git tokens | `project_pages` | `ProjectPagesProofs` |

The `MC` modules give model values, bounds and stories. `MCEditing`, `MCWorkspace`
and `MCProjectPages` put together components that share no state, or only the
channel of project events: a variable `focus` says which one a behaviour is about,
the others stay as they begin, so that the run explores the sum of the components'
states and not the product. That loses nothing: a step of one component reads and
writes nothing of another (`ProjectPagesProofs` proves it of the six components of
`MCProjectPages`). The definitions that `PROJECT.json` lists under `mutants` as `as` (the
comment of most begins with "Variant:") belong to no specification: each is a plausible
wrong version of the definition after it, kept to show that a property notices.

### 2.1 DocumentManager

One document in one process. Each coroutine is a task with a `pc` that names the
await it is parked at; a step is the code from one await to the next. The CRDT is
the set of operations it contains: merging is union, and applying twice is applying
once. The text is the set of content tags of the operations that no other one
deletes, which is enough to tell whether `documents.content` is current.

- `entry` is `_entries[document_id]`, `queued` and `dropped` the tasks that wait
  on the document's current lock and on one that `_evict_after_idle` has removed
  from `_locks`; `snap`, `log`, `nextRow`, `content` are the database.
- `StartAcquire`, `WaitForLock`, `RetryAcquire`, `AcquireLoaded`,
  `AcquireMissing`, `Load`, `Seed`, `SeedSnapshot` are `acquire` and `_load`;
  `HandleUpdate`, `HandleResend`, `AppendUpdate`, `Compact` are `handle_update`;
  `ApplyServerUpdate`, `ApplyNoEdits` are `apply_server_update`; `StartFlush`,
  `TimerFires`, `SkipFlush`, `TakeText`, `WriteContent`, `MarkTextSynced` are the
  forced and the debounced flush; `Release`, `Settle`, `SettleCompact`, `Evict`
  are `release` and the idle eviction. `LoadFails`, `AppendFails`,
  `CompactFails`, `FlushFails` are a database call that raises, `Crash` the death
  of the process.
- A snapshot and the deletion of the rows it covers are one transaction of
  `CrdtStore.snapshot`, so one step.

### 2.2 CollabClient

Every open editor is a session: a set of updates (`doc`), an awareness table
(`aware`), a provider (`prov`: timers, attempts, what it has been told) and the
sockets it has dialled. `<<c, n>>` is session c's n-th socket; `up` and `down` are its
two directions, `phase` where the server's endpoint is with it. A socket that dies is
noticed by either side at a moment of its own: frames sent upwards may still be
handled, frames sent downwards are lost. A refused admission is a link that dies while it is
dialled: the endpoint closes before it accepts, so the browser is told no code. `room` is the server's replica, `reg` its
awareness registry.

### 2.3 HistoryCapture

One document in one process. `made` counts the updates the live document has
applied; each builds on all before it, and a CRDT that lacks one of them keeps
the later ones pending (`Shown`). Tasks are connections, restores and the flushes
spawned by the debounce timer. The locks of `_locks` are numbers: `lock` is the
current one, `lk` the one each task holds or waits on, which need not be the same
after `_drop_state`. `buffer`, `armed`, `orphans` are the document's buffer, its
timer and the timers of dropped buffers; `heap` holds the `Y.Doc` objects by
identity, since a write keeps a reference to a replica that may have been replaced.
`chunks` and `rows` are the tables. The queries of `_write` are steps of their
own (`ReadOpen`, `Rebuild`, `ReadMax`, `NewChunk`, `Commit`), because writes that
entered under different locks interleave there; `CommitConflict` is the unique
constraint that stops some of them. `Reconstruct` is `reconstruct_doc`, `Compact` is
`compact_history`, with `_merge_run` as a set expression.

### 2.4 CompileQueue

The compiles table and Redis between API and worker. `req`, `cancel` and `watch`
say where each request, cancel and stream is; `row` is the committed status,
`job` where the job is and `result` what it will settle with, `flag` the cancel
keys in Redis, `stored` and `listed` the bytes and the rows of outputs, `sweep` what
the retention sweep is deleting. A step is what a process does up to its next
query, commit or Redis command: `Enqueue` and `CommitRequest` are apart, and so
are `UpdateCancelled`, `PublishCancelled` and `CommitCancelled`, `Start` and
`AnnounceRunning`, `Finish` and `Tell`, `Snapshot` and `Subscribe`, `SweepObjects`
and `SweepRows`. The engine is its result (`Compile`); failure, timeout and error
are one status, "failed", since nothing that is modelled tells them apart.

### 2.5 ProjectSharing

`members`, `links`, `invites` and `owner_id` are the rows. Each route of
`projects/sharing` is one operator that gives the rows it means to leave behind
(`change_role`, `join_share_link`, `transfer_ownership`, …) from the rows it
read, or none when it refuses. A request is then two steps: `Reads` takes the plan
from what is there, `Commits` writes the columns that changed over whatever is there
by then, since no transaction locks a row before it writes it; a unique index stops
some. `given` (the owner decided this access by hand) and `raced` (a write over a row
that had changed since it was read) are ghosts. `share`, `lists`, `urls` are the
owner's dialog, `visit` the page on which another person opens a link or an invite.
Two more ghosts say where the dialog gives up: `elsewhere`, that somebody else changed
what it shows, or an answer was heard while it was closed and a query had read already
(the query is not asked again, and its rows are those of before); `share.crossed`, that two calls
about links overlapped or one was never answered. The addresses are kept per role
(`useShareLinks.ts:15-35`), so a Rotate whose answer is lost leaves the old address under
the new link.

### 2.6 SessionTokens

`pairs` is the sequence of token pairs ever issued, a pair being its index;
`accounts` the user's row with the session version, the list of revoked sessions and
the date before which tokens are refused; `stored` the refresh token in the
browser's storage, which the tabs share, and `tabs` what each tab keeps: page, access
token, user, the refresh under way, two lines of work. `refresh` in `api-client.ts`
is at most one per tab, and requests that were refused wait for it; on the server it
is two steps, the check of the session (`RefreshCheck`) and the rotation
(`refresh_tokens`), because a password change or a sign-out may come between them.
`doubled` is the ghost that says that a reply was lost or that two tabs sent the same
token, the two ways in which reuse detection meets an honest client. A tab's `won` is the
pair that its sign-in link brought: `LinkTrue` says that the page calls the link dead only
if that pair is refused, or `doubled`.

### 2.7 The other screens

`EditorScreen`, `ProjectSearch`, `Spellcheck`, `InsertTools`, `AgentChat`,
`ProjectChat`, `CommentThreads`, `FileTree`, `CompileView`, `Dashboard`,
`Notifications` and `AccountSettings` are built alike. The server's part is the rows and
the requests on their way to it; the browser's part is the hooks' state and the
queries' caches; an action is one handler, one answer that arrives, one event or one
timer. Requests are answered in any order or, at the cost of a `fault`, never. What the
code gives up when steps cross in an unlucky order is written down in a ghost, which
the head of each module lists (`missed`, `belated`, `crossed`, `strayed`, `parted`, …), and
the properties hold otherwise; no action reads a ghost. A hazard whose bad case is what a
ghost records is thereby shown to be the only way the property fails, not to be absent:
so of the failed flush and the cancelled start (`overwritten`, `lost`, `torn`), an event that
a stream missed (`missed`), a save that crossed another (`saveCrossed`), an owner's decision
that crossed a join (`raced`).

In `FileTree` a request goes through `asked`, `checked`, `flushed` and `done`. The rows change at
the commit; bytes are stored (`store_put`) and dropped, one object after the other
(`store_delete`), before it, and `get_db_session` may fail a request at any point. So there
are moments, and after a failed commit it stays so, at which a file has no bytes or
bytes have no row: `parted` holds those files, and `BlobsMatch` says there are no others.

## 3. Properties and runs

| Run | Question | Result |
|---|---|---|
| `dm_faults` | under evictions that swap the lock, a failing database call and a crash anywhere: is an update lost, a document loaded twice, a reference leaked, does the log grow? | no: `LoadsOnce`, `RefcountExact`, `MemoryCoversStore`, `AckedDurable`, `LogBounded`, and the refinement of `UpdateStore` |
| `dm_live` | is an unused document evicted, and does every acquire end although evictions replace the lock? | yes: `IdleEvicted`, `AcquireEnds` |
| `hist_restore` | does capture lose updates, mis-tile chunks, show a version other than its rows; is a version ever changed; does a restore answer with its text? | holds: `CapturedKept`, `ChunksTile`, `ReplaysRows`, `CatchesUp`, `ImplementsVersionHistory`, `RestoreAnswered` |
| `hist_live` | does a captured update reach the database; is a waiter on a dropped lock served? | yes: `CapturedStored`, `WaitersServed` |
| `hist_overlap` | are the bases of chunks complete when two writes overlap? | no, see 6.1 |
| `compile_live` | do the caps hold; is the end that is told the end it has; does a success have its outputs; do rows and bytes agree; does a compile settle and a stream end? | yes, with the exceptions each property names |
| `compile_watch` | can a transition be lost between snapshot and subscription, without any fault or dying job? | yes, see 6.2 |
| `collab_client` | one socket per page; do quiet replicas agree; is nobody shown who has left; does every edit arrive? | yes: `OneLink`, `SessionsAgree`, `EditsArrive` |
| `editing` | do the tools show what is so and write only what they were asked to; is a text typed over or lost; do they come to rest? | holds: `ScreenTrue`, `SpellTrue`, `ScreenKept`, `ToolsKept`, `ToolsSettle` |
| `workspace` | do agent, chat, comments and tree converge to what the server has; is anything the user wrote lost unseen? | holds: `PanelsTrue`, `DiscussionKept`, `InputKept`, `PanelsSettle` |
| `project_pages` | do preview, dialog, dashboard, bell, sign-in and account show what is so; does access end and last as decided? | holds: `PagesTrue`, `AccessHolds`, `PagesSettle` |
| `sharing_owner` | does a project always have an owner who is a member? | no, see 6.3 |

`ScreenTrue`, `SpellTrue`, `ScreenKept`, `ToolsKept`, `PanelsTrue`, `DiscussionKept`, `InputKept`, `PagesTrue`,
`AccessHolds` are conjunctions of the components' properties, each stated and commented in its
module. Several properties are conditional, and each condition is a ghost set where
the code gives the guarantee up, so that the property says exactly when it holds:
`overlapped` (two history writes at once), `bypassed` (a flush that went by a write),
`undercut` (a compaction withdrew a version that a write under way was to find taken),
`forgotten` (a buffer popped by `_drop_state`), `raced` (two compile requests that
counted before either committed; two sharing transactions over one row), `lost`,
`overwritten`, `missed` (a stream that missed the end), `pruned` and `torn` (the sweep).

### Bounds

| Bound | Value and why |
|---|---|
| `MaxEdits`, `MaxRows` | 1-2: one edit in flight against one stored tells order and loss; the log must pass the compaction threshold (`SnapshotEvery` 1) once |
| `MaxCrashes`, `MaxFaults` | 1 each (no faults in `compile_watch`, `hist_overlap` and the runs of liveness `dm_live`, `hist_live`): what a second one could add, the proofs cover where there are any |
| `MaxUpdates` | 3-4: with `ChunkMax` 2 the history rolls over twice; `MaxBuffer` 2 lets a capture fill the buffer |
| `CompactMin` | 2, and 9 (never) where compaction is beside the question |
| `MaxCompiles`, `PerProject`, `PerUser` | 2, 1, 1: a cap can be passed, and one compile meets all its actors on one row |
| `Retained` | 0 stands for the age limit, which makes any compile old |
| `MaxConn`, `MaxEdit` | two sockets for the page whose link fails, one edit: a second socket is what tells apart frames of an old one |
| stories (`MC…Stories`, `Budgets`, `Openings`) | a story is what may happen in a behaviour and how often: two or three gestures of the user, one of somebody else, one lost answer. Each hazard of `PROJECT.json` needs at most three gestures, and every action fires in some story |
| `InStory`, `AskInBounds` | constraints that keep a run to its stories; they cut off only what nobody has to do (to ask, to cancel, to watch, to fail), so no fair behaviour is cut short |
| `Pages`, `MaxTokens`, `MaxResults`, `MAX_ROWS`, `PageSize`, … | two or three of each: one more than where the first and the last are the same |

Deadlock is checked in `dm_*` and `hist_*`. It isn't where the system may rest: with
its compiles created, its streams closed, its gestures made. Symmetry is used only
in runs whose temporal properties are safety.

### Fairness

`DocumentManager` and `HistoryCapture` assume what asyncio gives: a task that is
ready runs, `asyncio.Lock` wakes its waiters in order (strong fairness for taking a
lock, since another task may take it in between), and timers fire. `CompileQueue`
assumes that a request that has begun runs on, that the worker works through its
queue, and that the event loop serves a stream (weak fairness: no step of theirs is
disabled for good by another but through the row's lock, which a cancel always gives
back). `CollabClient` assumes that a page's timers fire and its frames are handled,
that the server serves its sockets, and that a ticket asked for again and again is
granted at last (strong fairness of `TokenArrives`, as the provider asks anew after
each refusal). The screens assume that the server works on what it was sent, that an
answer under way arrives, that polls and debounce timers fire, that a worker job ends,
and that a reload or an event reaches the page (weak fairness of `AutosaveStep`,
`LoadStep`, `ScreenServer`, `ReplaceStep`, `IndexStep`, `run`, `Serve`, `Work`, `Answer`,
`Stream`, `ChatStep`, `CommentStep`, `FileStep`, `ShareStep`, `PollStep`, `BellStep`,
`TabStep`, `AccountStep` and the three of the preview; that of `LoadStep` is written out,
with its enabledness as the state predicate `LoadDue`). Nothing is assumed of gestures,
other people, faults, crashes, the compaction job or the retention sweep.

## 4. Proofs

The theorems hold for every value of the constants that satisfies the named
assumptions, so for any numbers of tasks, users, tabs, links, updates and faults. None
mentions fairness: what they say of `Spec` they say of every behaviour.

### 4.1 DocumentManager (`DocumentManagerProofs`)

From `TasksDistinct`, `UsersFinite`, `SnapshotEveryPositive`:

| Theorem | Statement |
|---|---|
| `TypeCorrect` | `Spec => []TypeOK` |
| `LiveDocumentCoversStore` | `Spec => []MemoryCoversStore` |
| `AcknowledgedIsDurable` | `Spec => []AckedDurable` |
| `ReferencesAreExact` | `Spec => []RefcountExact` |
| `OneLoadAtATime` | `Spec => []LoadsOnce` |
| `LogStaysBounded` | `Spec => []LogBounded` |
| `KeepsThePromise` | `Spec => ImplementsUpdateStore` |

The inductive invariant is `Inv`, a conjunction. `TypeInv` is `TypeOK` with
`KnownOps`: all operations that anything refers to have been made and the ids of the
log are below the next. `LockInv`: at most one task is in the critical section, whatever
locks were dropped (`Mutex`); a task that appends or compacts has a live document, one
that loads has none, and waiters on a dropped lock exist only while no document is live;
this is what the check in `acquire` after the lock is for. `CoverInv` adds to
`MemoryCoversStore` that an operation being appended is in the live document and that
the document a task has loaded and not yet published holds all that the database can
give back; without it the invariant would not survive the step that makes the document
live, or the insert. `RefInv` equates the reference count with the tasks that hold the
document, and counts a task among them from the end of its acquire to its release.
`EvictInv`: an entry about to be evicted has nobody, and nothing that no snapshot
holds. `LogInv` counts the log: every row is one that an earlier process left, a fault's,
or counted by the entry; it needs `EvictInv`, since an eviction in between would forget
the count. Each part is preserved by a lemma of its own (`TypeStep`, `LockStep`,
`CoverStep`, `RefStep`, `EvictStep`, `LogStep`) with one step per action. The
refinement maps `stored` to `Recoverable`, and every action adds to it or leaves it.

### 4.2 HistoryCapture (`HistoryCaptureProofs`)

| Theorem | Statement |
|---|---|
| `TypeCorrect` | `Spec => []TypeOK` |
| `NothingCapturedIsLost` | `Spec => []CapturedKept` |
| `ChunksTileVersions` | `Spec => []ChunksTile` |
| `InvHolds` | `Spec => []Inv`, the invariant below |
| `ReplaysAllRows` | `Spec => []ReplaysRows` |
| `CatchesUpWithText` | `Spec => []CatchesUp` |
| `RestoreAnswersWithText` | `Spec => RestoreAnswered` |
| `VersionsKeepPromise` | `Spec => ImplementsVersionHistory` |

`TypeInv` adds to the types that what is waited on, referred to or written next exists.
`KeptInv`: no update is in two rows (`OneRow`), and what a write took from the buffer is
in its hand (`InHand`). `TileInv`: the chunks tile what is on record, and a write past its
reads still knows where its row goes, however many others are under way, unless a
compaction has `undercut` it; the unique constraint is what makes this survive two
writes at once. `Seen`: an update is captured before anything is done with it.
`AloneInv` is what holds while no two writes ran at once: there is one writer and it
knows the chunk and the version it writes after (`OneWriter`); a replica holds what is
stored, what is on its way, and nothing else but updates of writes that raised
(`Replicas`); the text of a restore is on its way, then stored (`OnItsWay`). Without
`Replicas` the base that a new chunk starts from would be unknown at the very step that
the properties are about. `ChunksTile` needs none of that, so it holds of overlapping writes
too. Without the ghosts in their premises these statements are false, which `hist_overlap`
shows of one.

### 4.3 CompileQueue (`CompileQueueProofs`)

From `CapsPositive`, `BoundsNatural`:

| Theorem | Statement |
|---|---|
| `TypeCorrect` | `Spec => []TypeOK` |
| `OutputsAreServed` | `Spec => []OutputsServed` |
| `EndIsTold` | `Spec => []ToldTheEnd` |
| `CapsHold` | `Spec => []Capped` |

Each property is strengthened by what an actor holds between two of its steps.
`Refs`: a request about to commit holds a row of its own that nobody has seen, and
whoever has seen a row saw a committed one. `OutputsKnown`: only a settled job's
compile has rows of outputs, what the sweep deletes has rows and no bytes, and a
success that is about to be recorded, or told, has its outputs. `EndKnown`: the
status that a job is about to tell, or a stream has read, is the row's unless the
row was overwritten; `SettledStays` and `AnnouncedStays` carry it through the writes
of others. `RoomLeft`: a request that has counted still finds room under its caps as
long as nobody raced it, since only a commit adds a compile to those that are
active (`LiveMove`), and a commit while another request has counted is the race.

### 4.4 CollabClient (`CollabClientProofs`)

From `ClientAssumption`, `BoundAssumption`:

| Theorem | Statement |
|---|---|
| `TypesHold` | `Spec => []TypeOK` |
| `OneLinkHolds` | `Spec => []OneLink` |
| `SessionsDoAgree` | `Spec => SessionsAgree` |

`LinkInv` says what a session holds at any time, a dial under way, a timer, a socket or
nothing (`Holds`), and that all sockets it opened before are dead on its side
(`Sockets`). `SyncInv` is about frames in flight: what one side of a link in service
lacks is on its way to it or has been asked for (`Matched`), and a frame holds only what
its sender had (`Flows`); two replicas agree once nothing is in flight because of the
first, and stay within each other because of the second. `PresenceInv`: a session speaks
for itself only (`OwnVoice`), the registry lists sessions with a connection the server
still has (`Registered`), a session that the server has not spoken to knows nobody
(`Alone`), and what it will list once the frames in flight have arrived is registered
(`Listens`).

### 4.5 ProjectSharing (`AccessProofs`)

From `SharingAssumption` (the people of a story are users and hold their access once, and
the links are finitely many), for `shareSpec`, the dialog and its requests alone:

| Theorem | Statement |
|---|---|
| `ShareTypes` | `shareSpec => []shareTypeOK` |
| `LinksGrantWhileOn` | `shareSpec => [](TakenBack /\ HandStays)` |
| `JoinsLowerNobody` | `shareSpec => NeverLowered` |
| `ShareInvHolds` | `shareSpec => []ShareInv`, the invariant below |
| `DialogTrue` | `shareSpec => [](DialogConverges /\ AddressWorks)` |

The rows alone (`RowInv`, `AccessInv`) are not inductive: the columns a request writes
were decided from rows that may have changed since. `CallInv` therefore says of a
request that has read the rows that its plan is sound for what it read: whatever access
was in order in those rows is in order after the plan (`Keeps`), and a join lifts or
keeps every role (`Lifts`). When it commits and nobody has raced, the rows it changes
are still those it read, and so the soundness carries over (`Commits`). `TakenBack` and
`HandStays` are false without `~raced`, and so is the next section's `AccessHolds` without
it: the code locks nothing.

`DialogTrue` needs three more parts. `LinkInv`: a link that a request is to make, a plan
refers to, a list shows or a visit opens is a row of the role it is said to have, and a plan
turns off links of its own role only. `ListInv`, unless `elsewhere`: a query whose kind of
request has no answer to be heard holds what the server would answer now; with an
answer on its way it may be stale, but hearing that answer asks again. `AddressInv`,
unless `share.crossed`: the address remembered for a role works, or no link of the role is
on, or the answer of the one request about links that is under way will replace it.
Proving it found two behaviours that the properties had left out, both of the code:
they are the ghosts of 2.5.

### 4.6 SessionTokens (`AccessProofs`)

From `SessionAssumption`, for `sessionSpec`, the tabs and the server alone:

| Theorem | Statement |
|---|---|
| `SessionTypes` | `sessionSpec => []sessionTypeOK` |
| `EndedSessionsDie` | `sessionSpec => []EndedMeansDead` |
| `NobodySignedOut` | `sessionSpec => []KeptSignedIn` |
| `UsersHaveTokens` | `sessionSpec => []UserHasTokens` |
| `LinksTrue` | `sessionSpec => []LinkTrue` |
| `SessionInvHolds` | `sessionSpec => []SessionInv`, the invariant below |

`TabsInv` says what a tab may hold: a shown user, or an answer on its way that will show
one, has a token behind it (`Backed`); a refresh runs exactly while a request waits for it.
`EndedInv`: an ended session is over for every pair of it, and also for the pair that a
refresh, checked before the end and rotated after it, is about to bring; without the second
half the rotation would break the first. `KeptInv`, unless `doubled`: a token that was
rotated belongs to a tab that is about to be handed its successor, and the successor is
known to nobody else, neither stored nor sent; so reuse detection never meets a token that
an honest tab still sends. Most of the forty-odd actions are `Ordinary` (the account moves
on, one tab changes as the browser may), which `OrdinaryKeeps` covers once; sign-in, the
check, the rotation, the end of a refresh, the expiry and a page load have a lemma each.
`MagicInv` is for `LinksTrue`: while a redeemed link's request for the user is out, it
carries the pair the link won, or that pair is gone (`Gone`: refused for good, or `doubled`); a
tab whose link is called dead has lost its pair; and what is gone stays gone
(`GoneStays`).

### 4.7 The pages (`ProjectPagesProofs`)

For `Spec` of `MCProjectPages` with any constants that satisfy `SharingAssumption`,
`SessionAssumption`, `ViewAssumption`, `DashAssumption` (the projects at first are projects and the
person owns or edits each), `NoteAssumption` (finitely many notifications, each of a kind, and
one invite at most in the inbox at first) and `FirstAssumption`:

| Theorem | Statement |
|---|---|
| `AccessIsKept` | `Spec => AccessHolds` |
| `PagesTyped` | `Spec => []PagesTypeOK` |
| `PagesAreTrue` | `Spec => PagesTrue` |
| `PreviewHolds` | `Spec => [](compileTypeOK /\ Followed /\ DrawnAlive /\ OutputsOwn) /\ ZoomWins` |
| `DashboardHolds` | `Spec => [](dashTypeOK /\ DashboardConverges /\ ImportOutcome /\ DismissHolds)` |
| `BellHolds` | `Spec => [](bellTypeOK /\ BellListTrue)` |
| `AccountHolds` | `Spec => [](accountTypeOK /\ AccountTrue /\ TokensTrue)` |

`PagesShare`, `PagesSessions`, `PagesDash` and their like show that the whole implements
the specification of each component (a step of another page leaves its variables as they
are); the theorems of 4.5 and 4.6 then hold of the whole, and the four other components
have an inductive invariant each:

- the bell, `BellInv`: what the list has, or is about to be answered, is the inbox
  unless a request of the person's own has changed it and has yet to ask again (`Told`);
  an invite is one row (`OneInvite`).
- the account, `AccountInv`: a form is busy exactly while its one request is under way
  (`FormsTold`); what a request knows of the row, and of what is shown of it, tells what
  its end will leave (`Aware`, `RowShown`); the tokens listed are those that work unless an
  answer about one is still to be heard (`TokensTold`).
- the preview, `ViewInv`: a compile taken for active has a stream or a poll or is about
  to be given one, and never two (`Follows`); what is drawn, and the answer that will be
  drawn, is of the last success (`Draws`); outputs belong to the compile they are shown with
  (`Owns`).
- the dashboard, `DashInv`: the list, or its answer on the way, lacks only projects whose
  import failed or whose dialog will hear of its end, unless a change is unsettled
  (`ListTold`, `NearList`); the dialog of an import is the only one, one poll asks for it,
  and what that poll has read is so (`PollsTold`, `DialogsTold`); a report that was seen is
  cached as unseen only while its dismissal is under way (`SeenTold`); a project is made by
  one request (`MadeOnce`).

### 4.8 EditorScreen and Spellcheck (`EditingProofs`)

From `ScreenAssumption` (the document the project starts on is one, the two marks for no document
and a binary file are none, budgets and retries are numbers), for `ScreenSpec`, the screen and
its part of the server alone:

| Theorem | Statement |
|---|---|
| `ScreenInvariant` | `ScreenSpec => []ScreenInv`, the invariant below |
| `ScreenHolds` | `ScreenSpec => []ScreenTrue` |
| `TypedTextKept` | `ScreenSpec => []EditsKept` |
| `ScreenStepsKept` | `ScreenSpec => ScreenKept` |

The desk of the model is one record, and a render is a composition of functions on it (the query's
result, seeding, drawing the view, swapping its text, the jump that waited), so the proof
has a lemma per function (`ResultFacts`, `SeedFacts`, `ViewFacts`, …), one for each way of
drawing the pane, and one that says which desks a step may end in. `DeskInv`: what the cache or the
placeholder holds is what the server had at that version (`Fits`), the autosave is of the
document last seeded, and a REST view shows its text unless it is `astray`. `SaveInv`: "clean"
and "conflict" mean what they say, and the answer of a save is a content that the person
now knows. `SeenInv`, unless `saveCrossed`: the seeded text, the save on its way, the farewells
and the conflict all start from a content that the person wrote or was shown; that is what
makes `NoBlindOverwrite` hold of a save served much later. `EditsInv` says where text is that
nobody shows any more (`LeftKept`, `FarewellOK`): a text left behind is in a farewell, or
stored, or given up; a farewell refers to the version it left, or another person has saved
since. `EditsKept` alone is not inductive: it says nothing of a farewell that the next answer
may turn down. TLC checked `ScreenInv` on the run's states before it was proved.

From `SpellAssumption` (the dictionaries and the texts are of words), for `SpellSpec`, the plugin,
its worker and the two dictionaries:

| Theorem | Statement |
|---|---|
| `SpellingHolds` | `SpellSpec => []SpellTrue` |

`MarksTrue` speaks of the moment at which no check is under way; `SpellInv` says what leads there,
unless `spellMishap`: a verdict the plugin holds is what the chosen language says of that word
(`Learnt`); the marks are right, or the check that began last started from the text, screen and
dictionary as they are and will learn every verdict that is missing, or a timer will begin another
(`Caught`). `DictionaryConverges` needs `ListFollows`: once no change is under way, the list shown
is the server's, or the answer on its way is, or it is about to be asked for again, or the fetch
of it failed.

### 4.9 CommentThreads and ProjectChat (`PanelsProofs`)

From `CommentAssumption` and `ChatAssumption`, for `commentSpec` and `chatSpec`, each of one part
of the server, the event channel and a panel, and for `WorkspaceSpec`, the panels together:

| Theorem | Statement |
|---|---|
| `CommentsHold` | `commentSpec => []CommentInv`, the invariant below |
| `CommentsAreKept` | `commentSpec => CommentsKept` |
| `ChatHolds` | `chatSpec => []ChatInv`, the invariant below |
| `ChatIsTrue` | `chatSpec => [](chatTypeOK /\ ChatConverges /\ OnceEach /\ OwnMessageShown /\ BadgeTrue)` |
| `WorkspaceDiscussion` | `WorkspaceSpec => DiscussionKept`: `CommentsKept` and all of that but the types |

Of the text a proof needs two facts about counting what is left of it: the n-th character
shown is the one with n live ones up to it, and what is typed or deleted moves no two
characters past each other (`Keeps`). From them `AnchorInv`: of the passage a thread, a draft
or a request refers to, every character lies between its two ends, wherever these have
moved (`HeldIn`); `QuoteHighlighted` follows, since a highlight is what is live between the ends.
`AllOlder`: the list shown is one the server had, the list on its way a later one, and a thread
only ever grows (`Continues`: its passage stays, its messages stay in their places). `Current`
says, unless an event was `overlooked`, that the list shown is the server's or something will
have it fetched: an event in the outbox or on the stream, a stream that is not open, or a fetch
on its way. `BoxInv`: a text typed is in its box, or told to the server, or thrown away with its box
(`Somewhere`), and a box belongs to a thread that is shown. `EditTargets` and `MentionInv`
are for `MentionsKept`: an edit that waits names every mention its message has, because the
editor was opened with those the list showed, and a list at rest shows all of them; only an edit
of the thread that the server has done already, and whose answer will have the list fetched, is
ahead of it (`EditDone`).
The attempt to prove it showed that the property had to name the edit that is opened while
the list is being fetched (6).

The chat's pages are in up to three places: shown, put aside under an older page that is asked for
(`base`), and read by the fetch under way (`got`). `ChatInv` says of each what it lacks. `Real`:
its rows are messages of the server, marked deleted only if they are. `Right`: a row that does
not show a deletion yet has it on its way (`Deletes`), and a row put aside has it on its way or marked
in the pages shown. `Whole`: a message from the oldest page on is in a row or its creation is
on its way (`Creates`); while a page is read anew, it may also be in the pages shown so far.
On its way is an event in the outbox, a frame on the stream, or anything at all as long as the
stream is not open or its first frame not handled, for then everything is read again. `Spans` says
that pages read one after the other, each from the cursor of the last, leave no gap though
messages are sent in between, which is what keeps them whole once the second replaces the first.
`Once` and `Above` (no message twice, none from before where the pages begin) hold until a
message comes `belated`. `InOrder`: a deletion is announced after its creation, which an
`Overtakes` of the outbox would break and `missed` records. `BadgeInv`: a count read is the
true one, or an event, a frame, a reconnection or a finished marking will ask for another.
What the code can lose is stated under `~missed`: the proof of a step that loses a change uses
that the step makes `missed` true. The attempt found the late message of 6.

While one of the two has the panel, the events are not about the other, so the proofs of
`WorkspaceSpec` need the part of each invariant that does not speak of the channel
(`CommentsIdle`, `ChatIdle`).

### 4.10 Only model-checked

- Liveness (`IdleEvicted`, `AcquireEnds`, `CapturedStored`, `WaitersServed`,
  `EveryCompileSettles`, `EveryStreamEnds`, `EditsArrive`, `ToolsSettle`,
  `PanelsSettle`, `PagesSettle`): fairness and ENABLED are beyond the prover.
- `ToolsKept` (search, insert tools), `PanelsTrue`, `InputKept` (agent, file tree; the chat's types in
  the workspace): not proved. Several
  parts speak of what a scan or a closure computes (matches of a search, rows of a table, the
  descendants of a folder), or use operators that the prover does not unfold (`SelectSeq`, `@@`).
- `UpdateStore` and `VersionHistory` are abstract; nothing is claimed of them alone.

## 5. Not modelled

The components of `PROJECT.json` with status `not_modelled` say why, one by one. In
short: text formats (TeX logs, SyncTeX, LaTeX, zip) and clients of external services
have no protocol of their own; the subprocess and its sandbox are the operating
system's; labels, diffs and listings of the history are queries; the agent's graph of
model calls gives the events that `AgentChat` takes as inputs; Git pushes, the review of
proposed edits hunk by hunk, the bridge over Redis between processes, throttling and
the sweep of a deleted project's outputs are left out.

Abstracted in the models: the contents of updates, texts, rows and events down to what
the properties compare; access control where a role is not what a property is about;
offloading of large payloads; metrics, logging, wording and layout. `_seal_open_tail` is
left out of `Compact` because `ChunksTile` shows that it finds no open chunk that is full.

Steps the models join: the reads of one request of `ProjectSharing` are one read, and its invites
do not expire; `CollabClient` handles a frame and delivers it to the others at once; a chat message
is numbered where it becomes visible, though `created_at` is stamped before the commit
(`chat/service.py:75`), so two posts that commit in the other order are not told apart; a
stream of events is subscribed when it opens (6). `DocumentManager.Load` ends only when the
waiters of dropped locks have run: they do so in consecutive turns of the event loop, a load takes
round trips to the database. Left out of the browser: the output dock when it floats over the text
(`useOutputDock.ts`), a success without a PDF, the keep-mine save's own timer, which runs with the
others of `clearTimers`.

## 6. Where code and documentation disagree

Shown by a run:

1. `hist_overlap`: `_drop_state` drops the lock under its waiters, two writes
   overlap, and a chunk starts from a replica that lacks a stored update
   (`capture.py:214`, against `capture.py:10`).
2. `compile_watch`: the snapshot of a compile is read before the subscription
   (`queue/stream.py:76`, against the comment at line 80). `MaxFaults` is 0, and compiles in `lost`
   are exempt: the behaviour that is shown is a snapshot, the end of the compile, its
   announcement, and only then the subscription.
3. `sharing_owner`: an owner transfers a project while its new owner leaves it
   (`sharing/members.py:118`, against `src/specs/33-collaborators-sharing/spec.md:41`).

Seen while modelling, and part of the models as ghosts or as behaviour, without a run:

- `rooms/manager.py:272`: two flushes of one document write their texts in the opposite
  order, and `documents.content` keeps the older text until the next edit, against
  `content_bridge.py:3`.
- `rooms/store.py:88`: the snapshot of one process deletes rows of another whose updates
  it never had, against ADR 0029:41, "interchangeable" (the model has one process).
- A document emptied by its users gets its old content again if the process dies
  before the text is flushed (`rooms/manager.py:95`); a failing flush in `release`
  leaves the document in memory (`rooms/manager.py:118`).
- `ws/connection.py:107`: `_drop_state` can pop a buffer that was captured under a
  newer lock (`forgotten`). A failed history flush is not retried
  (`capture.py:128`, `failed`).
- A restore answers without its text when another task, under a lock that `flush_doc`
  dropped, is still writing (`bypassed`); that is why `RestoreAnswered` names it. A restore
  reads the latest version after its flush, so it may also answer with, and label, another
  user's later version (`restore.py:76`).
- A write that has read the latest version, is overtaken by others' commits and then by a
  compaction, uses a withdrawn version number again; `uq_history_updates_doc_version` no
  longer catches it (`undercut`).
- A version that compaction has merged away, labelled or not, still answers, with
  the text of the version before its run (`jobs.py:72`, `reconstruct.py:66`;
  `docs/system/history.md:218` describes it).
- `cancel_compile` publishes before it commits (`routes/compile.py:143`). A
  stream opened in between shows "queued" and has missed the end; if the commit
  fails, watchers were told of a cancel that did not happen.
- A queued compile that is cancelled between the job's read of the row and its
  announcement is started all the same (`jobs.py:125`) and runs beside the compile that
  took its place under the cap. The job is enqueued before its row commits
  (`coordinator.py:63`): a worker that is quicker finds nothing and the row stays queued for
  ever. The caps are counted without a lock (`coordinator.py:54`), as
  `docs/system/compile.md` admits. A job that dies between storing outputs and its
  commit leaves bytes without rows, which no sweep finds (`outputs/store.py:133`).
- A deletion drops the bytes of its files before its commit (`tree/service.py:283-290`): a commit
  that fails leaves rows without bytes, and a file that is moved out meanwhile keeps its row and
  loses its bytes. An upload whose commit fails leaves bytes without a row (`content/files.py:205-208` cleans up after failures before it). The
  comment at `tree/service.py:287` says that storage is not transactional (`parted`).
- A collaborator whose admission is refused is closed before the socket is accepted
  (`ws/router.py:135-141`); a browser is then told 1006 and not 4401, 4403 or 4404, and goes on
  dialling, which `InkstaveWsProvider.ts:33-35` calls spinning for ever.
- The events of a project are subscribed to when the response is first iterated, after the
  headers at which the browser takes the stream for open (`discussion/events/stream.py:53`, whose
  comment says that nothing published after the request is lost).
- A log panel that stays open while another compile takes over asks for its log in the
  panel's effect, and the pane's effect then forgets that it asked (`useCompileLog.ts:27-32`).
- Two moves that cross close a cycle in the tree (`tree/service.py:242-262`), against
  `src/specs/12-file-tree-model/spec.md:32`.
- A member who came by one link and was raised by another returns, when the second is turned
  off, to the first one's role, though that link is off by then (`link_join.py:85-91`), against
  `src/specs/116-link-sharing/spec.md:17-19`.
- A request that is refused when no refresh token is stored any more, because another
  tab signed out, fails and leaves the user shown (`api-client.ts:49-52`), against
  `src/specs/09-frontend-foundation/spec.md:31-32`.
- What a send learns is written into whatever run state is current
  (`useRunActions.ts:64-73`): after a change of session a run's end may release another
  session's box and leave its own locked, against
  `src/specs/46-agent-chat-ui/spec.md:247-248`.
- A snapshot read before the end of a compile, or of an earlier compile, that arrives
  after it is taken for news (`useCompileStream.ts:33-42`, `useCompile.ts:124-130`); the pane
  then shows a compile under way that has ended.
- A message whose event or answer comes when the pages shown begin after it is put at their newest
  end all the same, and an older page brings it again (`use-chat.ts:19-25`; `belated`): the list has it
  twice until it is fetched anew.
- Reading the chat is keyed on the number of messages shown (`chat-panel.tsx:85-89`): one
  that takes the place of a deleted one is not marked as read. The bell's number is not fetched
  when the list opens (`useNotifications.ts:12-22`), against
  `src/specs/39-notifications-email/spec.md:193-194`.
- A check that fails stops the plugin for good (`spellcheck-extension.ts:121-126`): a
  language chosen afterwards is not checked, and the notice is for the one that failed,
  against `src/specs/113-spell-check/spec.md:62` and `:81`.
- The farewell save of a document that is left goes out once, and with the version its last
  answered save gave it (`use-document-autosave.ts:124-130`): it is lost, or refused behind a
  save still on its way, against `src/specs/19-document-autosave-rest/spec.md:46`.
- A jump from the PDF into another document whose text is not drawn yet reveals the line in
  the one that is, or in none (`use-source-sync.ts:67-73`), against
  `src/specs/26-synctex/spec.md:220-221`.
- A REST view that is put up again after a failed refetch starts with the text last seeded, not
  the one typed (`codemirror-editor.tsx:64-92`), and a document whose stored text is the one
  shown before is not swapped in (both `astray`).
- After a load that failed, the query's placeholder is the last document whose data it gave
  (`editor-pane.tsx:107`): the next document picked is drawn and seeded as that older one until its own
  data comes, and is `stale` if a save of it was still on its way.
- A document that the server no longer has, though its text is cached, is let go of again as
  soon as it is picked (`editor-workspace.tsx`).
- An edit of a comment that is opened while the list of threads is being fetched again starts from
  the mentions the older list shows; saving it drops a mention that only the newer one has
  (`thread.tsx:34-50`, the property `MentionsKept` says which edits are safe).
- `flushRef`, which is to push the editor's pending edits before a compile, is assigned by
  nothing (`workspace-hooks.ts:42-47`).

## 7. Plan

Done: the core (document manager, history, compile queue) with its proofs, the browser's
side of collaboration, and the screens with the server's parts they talk to, those of
`project_pages`, the editor screen, the comment threads and the chat with proofs. Next:

1. Proofs of the other panels: `OwnTranscript` of `AgentChat`, `TreeConverges` of `FileTree`.
2. A composition of `DocumentManager` and `HistoryCapture` in which what the manager
   acknowledges is what history captures.
3. `ProposedEdit` (hunks decided against a text that moves on), `GitPush`, labels and
   `restore_project`.

The runs stay few: a new module joins the run that takes its neighbours one at a time.
