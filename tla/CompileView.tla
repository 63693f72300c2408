---------------------------- MODULE CompileView ----------------------------
(***************************************************************************)
(* The preview pane of one browser: asking for a compile, following it by  *)
(* its event stream or by polling, cancelling it, and what is shown of it: *)
(* the PDF, the problems, the log, the jump from the source to the page.   *)
(*                                                                         *)
(* Answers travel in `net' and arrive in any order.  `late' says that an   *)
(* answer was taken for news though the compile it is of had ended, or was *)
(* not the one being followed; `crossed' that the log of an earlier        *)
(* compile arrived once a later one was shown.                             *)
(***************************************************************************)
EXTENDS Integers, Sequences, FiniteSets

CONSTANTS
    Pages,       \* Pages[id]: how many pages the PDF of a compile has
    Stories,     \* how often the user starts, cancels, looks at the log, jumps,
                 \* moves in the PDF, how often the stream breaks, how compiles end
    MaxPolls,    \* polls under way, at most
    FitScale, MAX_SCALE

Compiles == DOMAIN Pages
ASSUME ViewAssumption ==
    /\ Pages \in Seq(Nat \ {0})
    /\ MaxPolls \in Nat \ {0} /\ MAX_SCALE \in Nat \ {0} /\ FitScale \in 1..MAX_SCALE
    /\ Stories \subseteq [starts : Nat, cancels : Nat, logs : Nat, jumps : Nat, moves : Nat,
                          breaks : Nat, ends : SUBSET {"success", "failure"}]

VARIABLES
    jobs,        \* the server's compiles of the project: their statuses
    flags,       \* those whose cancellation was requested
    state,       \* useCompile's State
    activeRef,   \* a compile is in flight
    esRef,       \* the event stream held: the compile and the status it told last
    pollRef,     \* the compile polled, 0 for none
    net,         \* requests and their answers under way, and streams nobody holds
    pdfDoc,      \* usePdfDocument
    viewport,    \* usePdfViewport
    pdfTarget,   \* useSyncTex: the page of the last jump, 0 for none
    dock,        \* useOutputDock
    logState,    \* useCompileLog
    problems,    \* useProblems, with the key it is given
    left,        \* what is left of the story
    late, crossed

server == <<jobs, flags>>
watching == <<activeRef, esRef, pollRef>>
panels == <<dock, logState, problems>>
compileVars == <<server, state, watching, net, pdfDoc, viewport, pdfTarget, panels, left, late,
                 crossed>>

Nobody == [id |-> 0, told |-> "none"]
Over == {"success", "failure", "cancelled", "error"}
isTerminal(status) == status \in Over
isActive(status) == status \in {"queued", "running"}
errorOutcome(s) == IF s.status \in {"failure", "error"} THEN s.status ELSE "none"
Snapshot(id) == [id |-> id, status |-> jobs[id]]
Spend(what) == left[what] > 0 /\ left' = [left EXCEPT ![what] = @ - 1]
StartPending == \E r \in net : r.kind = "start"

-----------------------------------------------------------------------------
(* What follows from a new State: the effects of the pane.                 *)

(* A success has its PDF, and a timeout is a failure: both show the log.   *)
reduce(s, snap) ==
    [status |-> snap.status, id |-> snap.id,
     last |-> IF snap.status = "success" THEN snap.id ELSE s.last]

(* Another PDF: the old document is destroyed before the next one loads.   *)
usePdfDocument(new) ==
    IF new.last = state.last THEN pdfDoc
    ELSE [pdfDoc EXCEPT !.loading = TRUE, !.error = FALSE, !.alive = FALSE, !.run = @ + 1]
(* The dock of the wide layout; the floating one opens with the problems.  *)
useOutputDock(new) ==
    IF errorOutcome(new) \in {"none", errorOutcome(state)} THEN dock
    ELSE [tab |-> "log", collapsed |-> FALSE]

LogShown(d) == d.tab = "log" /\ ~d.collapsed
LogKept(l) == l
LogReset(l) == [shown |-> 0, fetchedFor |-> 0]
(* The log is asked for when its panel comes up or shows another compile.  *)
(* Then the panel's effect runs before the pane's, which forgets again for *)
(* which compile it was asked.                                             *)
Asks(id, d) ==
    /\ id # 0 /\ LogShown(d)
    /\ IF LogShown(dock) THEN id \notin {state.id, logState.fetchedFor}
       ELSE id # state.id \/ logState.fetchedFor # id
useCompileLog(id, d) ==
    LET l == IF id = state.id THEN logState ELSE LogReset(logState)
    IN  IF Asks(id, d) /\ ~LogShown(dock) THEN [l EXCEPT !.fetchedFor = id] ELSE l
LogRequest(id, d) == IF Asks(id, d) THEN {[kind |-> "log", id |-> id]} ELSE {}

(* onCompileResult: the problems follow the compile that ended.            *)
problemsKey(new) == IF isTerminal(new.status) THEN new.id ELSE problems.key
useProblems(key) ==
    IF key = problems.key THEN problems
    ELSE [problems EXCEPT !.key = key, !.loading = key # 0]

Show(new, rest) ==
    /\ state' = new
    /\ pdfDoc' = usePdfDocument(new)
    /\ dock' = useOutputDock(new)
    /\ logState' = useCompileLog(new.id, useOutputDock(new))
    /\ problems' = useProblems(problemsKey(new))
    /\ net' = rest
          \cup (IF new.last = state.last THEN {}
                ELSE {[kind |-> "pdf", id |-> new.last, run |-> pdfDoc.run + 1]})
          \cup LogRequest(new.id, useOutputDock(new))
          \cup (IF problemsKey(new) \in {0, problems.key} THEN {}
                ELSE {[kind |-> "problems", id |-> problemsKey(new)]})

stopWatching == activeRef' = FALSE /\ esRef' = Nobody /\ pollRef' = 0
handleSnapshot(snap, rest) ==
    /\ Show(reduce(state, snap), rest)
    /\ late' = (late \/ ~activeRef \/ StartPending \/ snap.id # state.id)

-----------------------------------------------------------------------------
compileInit ==
    /\ jobs = << >> /\ flags = {}
    /\ state = [status |-> "idle", id |-> 0, last |-> 0]
    /\ activeRef = FALSE /\ esRef = Nobody /\ pollRef = 0 /\ net = {}
    /\ pdfDoc = [doc |-> 0, alive |-> FALSE, pages |-> 0, loading |-> FALSE, error |-> FALSE,
                 run |-> 0]
    /\ viewport = [page |-> 1, fitMode |-> "width", scale |-> FitScale, fitting |-> FALSE]
    /\ pdfTarget = 0
    /\ dock = [tab |-> "problems", collapsed |-> FALSE]
    /\ logState = [shown |-> 0, fetchedFor |-> 0]
    /\ problems = [key |-> 0, shown |-> 0, loading |-> FALSE]
    /\ left \in Stories /\ late = FALSE /\ crossed = FALSE

(* The Compile button, and "Try again".                                    *)
CompileButton ==
    /\ ~isActive(state.status) /\ ~activeRef /\ Spend("starts")
    /\ activeRef' = TRUE
    /\ Show([state EXCEPT !.status = "queued"],
            net \cup {[kind |-> "start", n |-> left.starts, at |-> "asked", id |-> 0]})
    /\ UNCHANGED <<server, esRef, pollRef, viewport, pdfTarget, late, crossed>>

(* The edits are flushed first, whether or not that works.  The server     *)
(* takes one compile of a project at a time.                               *)
Busy == \E id \in DOMAIN jobs : ~isTerminal(jobs[id])
requestCompile(r) ==
    /\ r.kind = "start" /\ r.at = "asked"
    /\ \/ /\ ~Busy /\ Len(jobs) < Cardinality(Compiles)
          /\ jobs' = Append(jobs, "queued")
          /\ net' = (net \ {r}) \cup {[r EXCEPT !.at = "taken", !.id = Len(jobs) + 1]}
       \/ /\ UNCHANGED jobs
          /\ net' = (net \ {r}) \cup {[r EXCEPT !.at = "refused"]}
    /\ UNCHANGED <<flags, state, watching, pdfDoc, viewport, pdfTarget, panels, left, late, crossed>>

(* A stream opened takes the place of the one held, which is not closed.   *)
startPolling(id) == IF activeRef /\ pollRef = 0 THEN id ELSE pollRef
LetGo == IF esRef.id = 0 THEN {} ELSE {[kind |-> "stream", id |-> esRef.id, told |-> esRef.told]}
subscribe(id, rest) ==
    \/ /\ esRef' = [id |-> id, told |-> "none"] /\ UNCHANGED <<activeRef, pollRef>>
       /\ Show(reduce(state, [id |-> id, status |-> "queued"]), rest \cup LetGo)
    \/ /\ pollRef' = startPolling(id) /\ UNCHANGED <<activeRef, esRef>>
       /\ Show(reduce(state, [id |-> id, status |-> "queued"]), rest)
started(id, rest) ==
    IF ~activeRef THEN net' = rest /\ UNCHANGED <<state, pdfDoc, panels, watching>>
    ELSE subscribe(id, rest)
(* systemError: the request failed.                                        *)
notStarted(rest) ==
    /\ activeRef' = FALSE /\ UNCHANGED <<esRef, pollRef>>
    /\ Show([state EXCEPT !.status = "error"], rest)
useCompile(r) ==
    /\ r.kind = "start"
    /\ \/ r.at = "taken" /\ started(r.id, net \ {r})
       \/ r.at = "refused" /\ notStarted(net \ {r})
    /\ UNCHANGED <<server, viewport, pdfTarget, left, late, crossed>>

(* Cancel asks for the compile of the State, which is an earlier one until *)
(* the request for the new one is answered.                                *)
cancel ==
    /\ isActive(state.status) /\ state.id # 0 /\ activeRef /\ Spend("cancels")
    /\ net' = net \cup {[kind |-> "cancel", id |-> state.id, status |-> "asked"]}
    /\ UNCHANGED <<server, state, watching, pdfDoc, viewport, pdfTarget, panels, late, crossed>>
cancelCompile(r) ==
    /\ r.kind = "cancel" /\ r.status = "asked"
    /\ jobs' = IF jobs[r.id] = "queued" THEN [jobs EXCEPT ![r.id] = "cancelled"] ELSE jobs
    /\ flags' = IF isTerminal(jobs[r.id]) THEN flags ELSE flags \cup {r.id}
    /\ net' = (net \ {r}) \cup {[r EXCEPT !.status = jobs'[r.id]]}
    /\ UNCHANGED <<state, watching, pdfDoc, viewport, pdfTarget, panels, left, late, crossed>>

(* The worker.                                                             *)
run_compile(id) ==
    /\ \/ jobs[id] = "queued" /\ jobs' = [jobs EXCEPT ![id] = "running"]
       \/ /\ jobs[id] = "running"
          /\ \E s \in left.ends \cup IF id \in flags THEN {"cancelled"} ELSE {} :
                 jobs' = [jobs EXCEPT ![id] = s]
    /\ UNCHANGED <<flags, state, watching, net, pdfDoc, viewport, pdfTarget, panels, left, late,
                   crossed>>

-----------------------------------------------------------------------------
(* Following: the stream tells every new status; when it breaks, polling   *)
(* takes its place.                                                        *)

Ended(snap) == IF isTerminal(snap.status) THEN stopWatching ELSE UNCHANGED watching

statusEvent ==
    /\ esRef.id # 0 /\ jobs[esRef.id] # esRef.told
    /\ handleSnapshot(Snapshot(esRef.id), net)
    /\ IF isTerminal(jobs[esRef.id]) THEN stopWatching
       ELSE esRef' = [esRef EXCEPT !.told = jobs[esRef.id]] /\ UNCHANGED <<activeRef, pollRef>>
    /\ UNCHANGED <<server, viewport, pdfTarget, left, crossed>>

onerror ==
    /\ esRef.id # 0 /\ Spend("breaks")
    /\ esRef' = Nobody /\ pollRef' = startPolling(esRef.id)
    /\ UNCHANGED <<server, state, activeRef, net, pdfDoc, viewport, pdfTarget, panels, late, crossed>>

(* A stream that nobody holds tells what is new, and polls at its end.     *)
streamLeft(r) ==
    /\ r.kind = "stream" /\ UNCHANGED <<server, viewport, pdfTarget, crossed>>
    /\ \/ /\ jobs[r.id] # r.told /\ UNCHANGED left
          /\ handleSnapshot(Snapshot(r.id), (net \ {r}) \cup {[r EXCEPT !.told = jobs[r.id]]})
          /\ Ended(Snapshot(r.id))
       \/ /\ IF isTerminal(r.told) THEN UNCHANGED left ELSE Spend("breaks")
          /\ net' = net \ {r} /\ pollRef' = startPolling(r.id)
          /\ UNCHANGED <<state, activeRef, esRef, pdfDoc, panels, late>>

Poll(n) == {r \in net : r.kind = "poll" /\ r.n = n}
compilePoll(n) ==
    /\ pollRef # 0 /\ Poll(n) = {}
    /\ net' = net \cup {[kind |-> "poll", n |-> n, id |-> pollRef, status |-> "asked"]}
    /\ UNCHANGED <<server, state, watching, pdfDoc, viewport, pdfTarget, panels, left, late, crossed>>
(* It is answered with the status of the moment, or fails and says nothing.*)
getCompile(r) ==
    /\ r.kind = "poll" /\ r.status = "asked"
    /\ \/ /\ net' = (net \ {r}) \cup {[r EXCEPT !.status = jobs[r.id]]}
          /\ UNCHANGED left
       \/ net' = net \ {r} /\ Spend("breaks")
    /\ UNCHANGED <<server, state, watching, pdfDoc, viewport, pdfTarget, panels, late, crossed>>
Answered(r) == r.kind \in {"poll", "cancel"} /\ r.status # "asked"
snapshotAnswer(r) ==
    /\ Answered(r)
    /\ handleSnapshot([id |-> r.id, status |-> r.status], net \ {r})
    /\ Ended(r)
    /\ UNCHANGED <<server, viewport, pdfTarget, left, crossed>>

-----------------------------------------------------------------------------
(* What is shown.                                                          *)

TurnAny(p, pages) == p
clampPage(p, pages) == IF p < 1 \/ pages = 0 THEN 1 ELSE IF p > pages THEN pages ELSE p
(* Other page numbers: back to the first page, or to the last jump's, as   *)
(* useSyncHighlight runs again with the new setPage.                       *)
Turned(pages) ==
    IF pages = pdfDoc.pages THEN viewport.page
    ELSE IF pdfTarget # 0 THEN clampPage(pdfTarget, pages) ELSE 1
(* A document that loads while the width is fitted is measured.            *)
Measured(pages) == viewport.fitting \/ (pages # 0 /\ viewport.fitMode = "width")

PdfTaken(r) == TRUE
PdfCurrent(r) == r.run = pdfDoc.run
getCompilePdf(r) ==
    /\ r.kind = "pdf" /\ net' = net \ {r}
    /\ IF ~PdfCurrent(r) THEN UNCHANGED <<pdfDoc, viewport>>
       ELSE \E pages \in {0, Pages[r.id]} :     \* 0: the PDF cannot be loaded
                /\ pdfDoc' = [pdfDoc EXCEPT !.doc = IF pages = 0 THEN 0 ELSE r.id,
                                  !.alive = pages # 0, !.pages = pages,
                                  !.loading = FALSE, !.error = pages = 0]
                /\ viewport' = [viewport EXCEPT !.page = Turned(pages),
                                    !.fitting = Measured(pages)]
    /\ UNCHANGED <<server, state, watching, pdfTarget, panels, left, late, crossed>>

ProblemsCurrent(r) == r.id = problems.key
getProblems(r) ==
    /\ r.kind = "problems" /\ net' = net \ {r}
    /\ problems' = IF ~ProblemsCurrent(r) THEN problems
                   ELSE [problems EXCEPT !.shown = r.id, !.loading = FALSE]
    /\ UNCHANGED <<server, state, watching, pdfDoc, viewport, pdfTarget, dock, logState, left,
                   late, crossed>>

(* The log's answer is taken whatever compile is shown by then.            *)
getCompileLog(r) ==
    /\ r.kind = "log" /\ net' = net \ {r}
    /\ \/ logState' = [logState EXCEPT !.shown = r.id]
       \/ logState' = [logState EXCEPT !.fetchedFor = 0]     \* it failed
    /\ crossed' = (crossed \/ r.id # state.id)
    /\ UNCHANGED <<server, state, watching, pdfDoc, viewport, pdfTarget, dock, problems, left, late>>

CompileOutputDock ==
    /\ Spend("logs")
    /\ dock' \in [tab : {"problems", "log"}, collapsed : BOOLEAN] \ {dock}
    /\ logState' = useCompileLog(state.id, dock')
    /\ net' = net \cup LogRequest(state.id, dock')
    /\ UNCHANGED <<server, state, watching, pdfDoc, viewport, pdfTarget, problems, late, crossed>>

(* A jump from the source asks about the compile whose PDF is shown.       *)
syncFromSource ==
    /\ Spend("jumps")
    /\ net' = net \cup {[kind |-> "sync", id |-> state.last]}
    /\ UNCHANGED <<server, state, watching, pdfDoc, viewport, pdfTarget, panels, late, crossed>>

codeToPdf(r) ==
    /\ r.kind = "sync" /\ net' = net \ {r}
    /\ \/ UNCHANGED <<pdfTarget, viewport>>                  \* no match: a toast
       \/ /\ r.id # 0 /\ pdfTarget' \in 1..Pages[r.id]
          /\ viewport' = [viewport EXCEPT !.page = clampPage(pdfTarget', pdfDoc.pages)]
    /\ UNCHANGED <<server, state, watching, pdfDoc, panels, left, late, crossed>>

Viewer ==
    /\ ~isActive(state.status) /\ pdfDoc.doc # 0
    /\ errorOutcome(state) # "none" \/ (~pdfDoc.loading /\ ~pdfDoc.error)
PageControls ==
    /\ Viewer /\ Spend("moves")
    /\ viewport' \in {[viewport EXCEPT !.page = clampPage(@ + d, pdfDoc.pages)] : d \in {-1, 1}}
    /\ UNCHANGED <<server, state, watching, net, pdfDoc, pdfTarget, panels, late, crossed>>
FitDropped == FALSE
clampScale(s) == IF s < 1 THEN 1 ELSE IF s > MAX_SCALE THEN MAX_SCALE ELSE s
ZoomControls ==
    /\ Viewer /\ Spend("moves")
    /\ \E d \in {-1, 1} :
           viewport' = [viewport EXCEPT !.scale = clampScale(@ + d), !.fitMode = "none",
                                        !.fitting = FitDropped]
    /\ UNCHANGED <<server, state, watching, net, pdfDoc, pdfTarget, panels, late, crossed>>
FitControls ==
    /\ Viewer /\ Spend("moves") /\ viewport.fitMode # "width"
    /\ viewport' = [viewport EXCEPT !.fitMode = "width", !.fitting = TRUE]
    /\ UNCHANGED <<server, state, watching, net, pdfDoc, pdfTarget, panels, late, crossed>>
(* The first page was measured: its scale is pushed up.                    *)
PdfViewer ==
    /\ viewport.fitting
    /\ viewport' = [viewport EXCEPT !.scale = FitScale, !.fitting = FALSE]
    /\ UNCHANGED <<server, state, watching, net, pdfDoc, pdfTarget, panels, left, late, crossed>>

compileNext ==
    \/ CompileButton \/ cancel
    \/ \E r \in net : requestCompile(r) \/ useCompile(r) \/ cancelCompile(r) \/ streamLeft(r)
    \/ \E id \in DOMAIN jobs : run_compile(id)
    \/ statusEvent \/ onerror
    \/ \E n \in 1..MaxPolls : compilePoll(n)
    \/ \E r \in net : getCompile(r) \/ snapshotAnswer(r)
    \/ \E r \in net : getCompilePdf(r) \/ getProblems(r) \/ getCompileLog(r) \/ codeToPdf(r)
    \/ CompileOutputDock \/ syncFromSource
    \/ PageControls \/ ZoomControls \/ FitControls \/ PdfViewer

(* What must happen sometime: the worker goes on, requests are answered,   *)
(* the stream tells what is new, the interval fires.                       *)
WorkerStep == \E id \in DOMAIN jobs : run_compile(id)
StartStep == \E r \in net : requestCompile(r) \/ useCompile(r)
FollowStep ==
    \/ statusEvent
    \/ \E r \in net : getCompile(r) \/ snapshotAnswer(r)
    \/ \E n \in 1..MaxPolls : compilePoll(n)

-----------------------------------------------------------------------------
compileTypeOK ==
    /\ jobs \in Seq(Over \cup {"queued", "running"}) /\ flags \subseteq DOMAIN jobs
    /\ state.id \in 0..Len(jobs) /\ state.last \in 0..Len(jobs)
    /\ esRef.id \in 0..Len(jobs) /\ pollRef \in 0..Len(jobs)
    /\ late \/ esRef.id = 0 \/ pollRef = 0
    /\ viewport.page \in 1..(IF pdfDoc.pages = 0 THEN 1 ELSE pdfDoc.pages)
    /\ viewport.scale \in 1..MAX_SCALE

(* A compile shown as queued or running is one being asked for or          *)
(* followed: the pane never waits for nothing, unless an answer came late. *)
Followed ==
    (isActive(state.status) /\ ~late) =>
        activeRef /\ (StartPending \/ esRef.id # 0 \/ pollRef # 0)

(* What is drawn is the document of the last compile that succeeded, and   *)
(* it has not been destroyed; except while a later one is still loading    *)
(* and the pane shows an error (PreviewBody asks for the error first).     *)
DrawnAlive ==
    (Viewer /\ ~(pdfDoc.loading /\ errorOutcome(state) # "none")) =>
        pdfDoc.alive /\ pdfDoc.doc = state.last

(* Once loaded, the problems are those of the compile that ended last, and *)
(* the log is that of the compile shown, unless an earlier one's crossed.  *)
OutputsOwn ==
    /\ problems.loading \/ problems.shown = problems.key
    /\ crossed \/ logState.shown \in {0, state.id}

(* A zoom the user chose is never undone by a measurement begun before.    *)
ZoomWins ==
    [][viewport.fitMode = "none" /\ viewport'.scale # viewport.scale => ZoomControls]_compileVars

(* A compile asked for goes on in the pane.  That must come to an end.     *)
CompileOpen == activeRef

=============================================================================
