----------------------------- MODULE Dashboard -----------------------------
(***************************************************************************)
(* The projects dashboard of one person: the list of projects with its     *)
(* optimistic changes, the dialogs over it, the import of an archive from  *)
(* upload through the worker to the poll that sees its end, and the report *)
(* a template import leaves on the project it made.                        *)
(*                                                                         *)
(* `missed' says that another tab or member changed the catalog, or an  *)
(* answer was lost; `overtaken' holds imports whose job ran before their   *)
(* row was committed; `shutAcross' says that a late answer closed a dialog    *)
(* under an import, and `belated' that an older report came after a newer. *)
(***************************************************************************)
EXTENDS Naturals, FiniteSets, FiniteSetsExt, SequencesExt, TLC

CONSTANTS
    Project,        \* ids of projects
    FirstProjects,  \* the ones there are -> the person's role in it
    Title,          \* names a project may have
    DashStories     \* what the person does, how often, and what may go wrong

Kind == {"zip", "template"}
ASSUME DashAssumption ==
    /\ DOMAIN FirstProjects \subseteq Project /\ \A p \in DOMAIN FirstProjects : FirstProjects[p] \in {"owner", "editor"}
    /\ Project \cap {"none", "dashboard"} = {}

VARIABLES
    catalog,        \* project -> status, name, the person's role
    imports,        \* project -> the import that made it
    importJobs,     \* projects whose import job is queued
    dashCalls,      \* requests on their way
    listed,         \* the projects query
    page,           \* the dashboard or a project, the dialog over it, the scope
    importer,       \* dialog -> its import: phase, project, polls
    downloads,      \* projects whose row waits for a download
    report,         \* the import queries of the projects, and what they hold
    missed, overtaken, shutAcross, belated, dashLeft

ghostVars == <<missed, overtaken, shutAcross, belated>>
dashVars == <<catalog, imports, importJobs, dashCalls, listed, page, importer, downloads, report, ghostVars, dashLeft>>
serverVars == <<catalog, imports, importJobs>>

None == "none"
Idle == [phase |-> "idle", project |-> None, timer |-> None, polls |-> {}]
TERMINAL == {"success", "partial", "failure", "error"}
Kept == {"success", "partial"}
DashMay(op) == op \in dashLeft.may /\ dashLeft.own > 0
SpendDash == dashLeft' = [dashLeft EXCEPT !.own = @ - 1]
Fault == dashLeft.faults > 0 /\ dashLeft' = [dashLeft EXCEPT !.faults = @ - 1]

-----------------------------------------------------------------------------
(* The server.                                                             *)

get_accessible_project(p) == catalog[p].status = "live" /\ catalog[p].role # None
get_owned_project(p) == get_accessible_project(p) /\ catalog[p].role = "owner"
list_projects == {<<p, catalog[p].name, catalog[p].role>> : p \in {x \in Project : get_accessible_project(x)}}
FreeProject == {p \in Project : catalog[p].status = "free" /\ \A c \in dashCalls : c.project # p}

Granted(c) ==
    CASE c.op \in {"rename", "delete", "drop"} -> get_owned_project(c.project)
      [] c.op \in {"leave", "seen"} -> get_accessible_project(c.project)
      [] OTHER -> TRUE
Rows(c) ==
    CASE c.op = "create" -> [catalog EXCEPT ![c.project] = [status |-> "live", name |-> c.name, role |-> "owner"]]
      [] c.op = "rename" -> [catalog EXCEPT ![c.project].name = c.name]
      [] c.op \in {"delete", "drop"} -> [catalog EXCEPT ![c.project].status = "gone"]
      [] c.op = "leave" -> [catalog EXCEPT ![c.project].role = None]
      [] OTHER -> catalog
mark_report_seen(c) == IF c.op = "seen" THEN [imports EXCEPT ![c.project].seen = TRUE] ELSE imports

Moved(c, at) == dashCalls' = (dashCalls \ {c}) \cup {[c EXCEPT !.at = at]}
Handle ==
    \E c \in {x \in dashCalls : x.at = "asked" /\ x.op # "import"} :
        /\ Moved(c, IF Granted(c) THEN "done" ELSE "refused")
        /\ catalog' = (IF Granted(c) THEN Rows(c) ELSE catalog)
        /\ imports' = (IF Granted(c) THEN mark_report_seen(c) ELSE imports)
        /\ UNCHANGED <<importJobs, listed, page, importer, downloads, report, ghostVars, dashLeft>>

(* The project and the row are written in one transaction, in which the    *)
(* job is already queued.                                                  *)
_create_import ==
    \E c \in {x \in dashCalls : x.at = "asked" /\ x.op = "import"} :
        /\ Moved(c, "staged") /\ importJobs' = importJobs \cup {c.project}
        /\ UNCHANGED <<catalog, imports, listed, page, importer, downloads, report, ghostVars, dashLeft>>
import_project ==
    \E c \in {x \in dashCalls : x.at = "staged"} :
        /\ Moved(c, "done")
        /\ catalog' = [catalog EXCEPT ![c.project] = [status |-> "live", name |-> c.name, role |-> "owner"]]
        /\ imports' = [imports EXCEPT ![c.project] = [status |-> "queued", source |-> c.kind, seen |-> FALSE]]
        /\ UNCHANGED <<importJobs, listed, page, importer, downloads, report, ghostVars, dashLeft>>
_stage_upload ==
    \E c \in {x \in dashCalls : x.at = "asked" /\ x.op = "import"} :
        /\ Fault /\ Moved(c, "refused")
        /\ UNCHANGED <<serverVars, listed, page, importer, downloads, report, ghostVars>>

(* The worker.                                                             *)
_still_owned(p) == get_owned_project(p)
settle(p, status) == imports' = [imports EXCEPT ![p].status = status]
_import_once ==
    \E p \in importJobs :
        /\ importJobs' = importJobs \ {p}
        /\ IF imports[p].status = "none" THEN overtaken' = overtaken \cup {p} /\ UNCHANGED imports
           ELSE UNCHANGED overtaken /\ settle(p, IF _still_owned(p) THEN "running" ELSE "error")
        /\ UNCHANGED <<catalog, dashCalls, listed, page, importer, downloads, report, missed, shutAcross, belated, dashLeft>>
_run_archive ==
    \E p \in {x \in Project : imports[x].status = "running"}, status \in {"success", "failure"} :
        /\ settle(p, status)
        /\ UNCHANGED <<catalog, importJobs, dashCalls, listed, page, importer, downloads, report, ghostVars, dashLeft>>

-----------------------------------------------------------------------------
(* The list.  A change is shown at once, after the fetch under way is      *)
(* cancelled; a refused one puts the list back; either way it is fetched   *)
(* again, and the change is over when that fetch is.  Nothing is retried   *)
(* on its own.                                                             *)

\* A fetch of a list never held forgets the error.
useProjects(l) == [l EXCEPT !.at = "asked", !.got = {}, !.failed = @ /\ l.known]
invalidate_projects(l) == IF page.at = "dashboard" /\ (l.known \/ l.at = "none") THEN useProjects(l) ELSE l
cancelQueries(l) == [l EXCEPT !.at = "none", !.got = {}]
NothingHeard == listed.at = "read" /\ (~listed.known \/ page.at # "dashboard")

inScope(row, scope) ==
    CASE scope = "owned" -> row[3] = "owner" [] scope = "shared" -> row[3] # "owner" [] OTHER -> TRUE
visibleProjects(l, scope) == IF l.failed THEN {} ELSE {row \in l.rows : inScope(row, scope)}
Visible == visibleProjects(listed, page.scope)
(* A row that is gone from the screen has forgotten its download.          *)
RowsDrawn(l, p) == downloads' = {x \in downloads : \E row \in visibleProjects(l, p.scope) : row[1] = x}

ListAnswer ==
    /\ listed.at = "asked" /\ listed' = [listed EXCEPT !.at = "read", !.got = list_projects]
    /\ UNCHANGED <<serverVars, dashCalls, page, importer, downloads, report, ghostVars, dashLeft>>
ProjectListView ==
    /\ listed.at = "read"
    /\ listed' = [at |-> "none", rows |-> listed.got, got |-> {}, known |-> TRUE, failed |-> FALSE]
    /\ RowsDrawn(listed', page)
    /\ UNCHANGED <<serverVars, dashCalls, page, importer, report, ghostVars, dashLeft>>
(* The error of a fetch takes the rows away; its Retry fetches again.      *)
ListFailed ==
    /\ listed.at # "none" /\ Fault /\ listed' = [cancelQueries(listed) EXCEPT !.failed = TRUE] /\ RowsDrawn(listed', page)
    /\ UNCHANGED <<serverVars, dashCalls, page, importer, report, ghostVars>>
onRetry ==
    /\ page.at = "dashboard" /\ page.dialog = None /\ listed.failed /\ listed.at = "none" /\ listed' = useProjects(listed)
    /\ UNCHANGED <<serverVars, dashCalls, page, importer, downloads, report, ghostVars, dashLeft>>

ProjectScopeControl ==
    \E scope \in {"all", "owned", "shared"} \ {page.scope} :
        /\ page.at = "dashboard" /\ page.dialog = None /\ DashMay("scope") /\ SpendDash
        /\ page' = [page EXCEPT !.scope = scope] /\ RowsDrawn(listed, page')
        /\ UNCHANGED <<serverVars, dashCalls, listed, importer, report, ghostVars>>

optimistic(c) ==
    IF c.op = "rename" THEN {IF row[1] = c.project THEN <<row[1], c.name, row[3]>> ELSE row : row \in listed.rows}
    ELSE {row \in listed.rows : row[1] # c.project}
NewCall(op, p, name, kind) ==
    [op |-> op, project |-> p, name |-> name, kind |-> kind, at |-> "asked", shuts |-> TRUE, previous |-> listed.rows]
AddCall(op, p, name, kind) == dashCalls' = dashCalls \cup {NewCall(op, p, name, kind)}
\* The page that made a request is still there: its dialog is busy.
Calling(op) == \E c \in dashCalls : c.op = op /\ c.shuts

setDialog(p, dialog, project) == [p EXCEPT !.dialog = dialog, !.project = project]
closeDialog(p) == setDialog(p, None, None)
useImportDialog(kind) ==      \* the dialog opens: its import is reset
    LET i == importer[kind]
    IN  [importer EXCEPT ![kind] = [Idle EXCEPT !.polls = {q \in i.polls : ~(q.at = "timer" /\ q.project = i.timer)}]]

(* Owners rename and delete, the others leave; everyone may download.      *)
RowActionsMenu ==
    \E row \in Visible, op \in {"rename", "delete", "leave"} :
        /\ page.at = "dashboard" /\ page.dialog = None /\ DashMay(op)
        /\ (row[3] = "owner") = (op # "leave")
        /\ page' = setDialog(page, op, row[1])
        /\ UNCHANGED <<serverVars, dashCalls, listed, importer, downloads, report, ghostVars, dashLeft>>
ProjectsHeader ==
    \E dialog \in {"create"} \cup Kind :
        /\ page.at = "dashboard" /\ page.dialog = None /\ DashMay(dialog)
        /\ page' = setDialog(page, dialog, None)
        /\ importer' = IF dialog \in Kind THEN useImportDialog(dialog) ELSE importer
        /\ UNCHANGED <<serverVars, dashCalls, listed, downloads, report, ghostVars, dashLeft>>
useDownloadProject ==
    \E row \in Visible :
        /\ page.at = "dashboard" /\ page.dialog = None /\ DashMay("export") /\ SpendDash
        /\ row[1] \notin downloads /\ downloads' = downloads \cup {row[1]}
        /\ UNCHANGED <<serverVars, dashCalls, listed, page, importer, report, ghostVars>>
Downloaded ==      \* or it failed
    \E p \in downloads :
        /\ downloads' = downloads \ {p}
        /\ UNCHANGED <<serverVars, dashCalls, listed, page, importer, report, ghostVars, dashLeft>>

importBusy(kind) == importer[kind].phase \in {"uploading", "processing"}
onOpenChange ==      \* Escape, or a click outside
    /\ page.dialog # None /\ (page.dialog \in Kind => ~importBusy(page.dialog))
    /\ page' = closeDialog(page)
    /\ UNCHANGED <<serverVars, dashCalls, listed, importer, downloads, report, ghostVars, dashLeft>>

CreateProjectDialog ==
    \E name \in Title :
        /\ page.dialog = "create" /\ ~Calling("create") /\ FreeProject # {} /\ SpendDash /\ DashMay("create")
        /\ AddCall("create", CHOOSE p \in FreeProject : TRUE, name, None)
        /\ UNCHANGED <<serverVars, listed, page, importer, downloads, report, ghostVars>>
Mutate(op, name, next) ==
    \E c \in {NewCall(op, page.project, name, None)} :
        /\ dashCalls' = dashCalls \cup {c}
        /\ listed' = [cancelQueries(listed) EXCEPT !.rows = optimistic(c), !.failed = FALSE]
        /\ page' = next /\ RowsDrawn(listed', next)
        /\ UNCHANGED <<serverVars, importer, report, ghostVars>>
RenameProjectDialog ==
    \E name \in Title :
        page.dialog = "rename" /\ ~Calling("rename") /\ DashMay("rename") /\ SpendDash /\ Mutate("rename", name, page)
DeleteProjectDialog ==      \* confirming closes the dialog at once, and again when it is over
    /\ page.dialog \in {"delete", "leave"} /\ ~Calling(page.dialog) /\ DashMay(page.dialog) /\ SpendDash
    /\ Mutate(page.dialog, None, closeDialog(page))

(* The end of a change.  Whatever dialog is open by then is closed.        *)
Shut(c) == IF c.shuts THEN closeDialog(page) ELSE page
Crossed(c) == shutAcross \/ (c.shuts /\ page.dialog \in Kind /\ importBusy(page.dialog))
onSettled ==
    \E c \in {x \in dashCalls : x.op \in {"rename", "delete", "leave"} /\ x.at \in {"done", "refused"}} :
        /\ Moved(c, IF c.at = "refused" /\ c.op = "rename" THEN "kept" ELSE "settled")
        /\ listed' = invalidate_projects(IF c.at = "refused" THEN [listed EXCEPT !.rows = c.previous, !.failed = FALSE] ELSE listed)
        /\ RowsDrawn(listed', page)
        /\ missed' = (missed \/ NothingHeard)
        /\ UNCHANGED <<serverVars, page, importer, report, overtaken, shutAcross, belated, dashLeft>>
mutateAsync ==
    \E c \in {x \in dashCalls : x.at \in {"settled", "kept"}} :
        /\ listed.at = "none" /\ dashCalls' = dashCalls \ {c}
        /\ page' = (IF c.at = "kept" THEN page ELSE Shut(c))
        /\ shutAcross' = (IF c.at = "kept" THEN shutAcross ELSE Crossed(c))
        /\ UNCHANGED <<serverVars, listed, importer, downloads, report, missed, overtaken, belated, dashLeft>>
useCreateProject ==
    \E c \in {x \in dashCalls : x.op \in {"create", "drop"} /\ x.at \in {"done", "refused"}} :
        /\ dashCalls' = dashCalls \ {c}
        /\ listed' = IF c.at = "done" THEN invalidate_projects(listed) ELSE listed
        /\ page' = IF (c.op = "create" /\ c.at = "done") \/ c.op = "drop" THEN Shut(c) ELSE page
        /\ shutAcross' = (IF (c.op = "create" /\ c.at = "done") \/ c.op = "drop" THEN Crossed(c) ELSE shutAcross)
        /\ missed' = (missed \/ NothingHeard)
        /\ UNCHANGED <<serverVars, importer, downloads, report, overtaken, belated, dashLeft>>
CallLost ==
    \E c \in {x \in dashCalls : x.at \in {"asked", "done"} /\ x.op # "import"} :
        /\ Fault /\ Moved(c, "refused") /\ missed' = (missed \/ (c.at = "done" /\ c.op \in {"create", "drop"}))
        /\ UNCHANGED <<serverVars, listed, page, importer, downloads, report, overtaken, shutAcross, belated>>

-----------------------------------------------------------------------------
(* An import, seen from its dialog.                                        *)

start ==
    \E kind \in Kind :
        /\ page.dialog = kind /\ ~importBusy(kind) /\ FreeProject # {} /\ DashMay(kind) /\ SpendDash
        /\ importer' = [importer EXCEPT ![kind].phase = "uploading", ![kind].project = None]
        /\ AddCall("import", CHOOSE p \in FreeProject : TRUE, CHOOSE n \in Title : TRUE, kind)
        /\ UNCHANGED <<serverVars, listed, page, downloads, report, ghostVars>>

(* The upload is answered: polling begins.  An answer lost is a failure.   *)
Uploaded ==
    \E c \in {x \in dashCalls : x.op = "import" /\ x.at \in {"done", "refused"}} :
        \E ok \in {c.at = "done"} \cup (IF dashLeft.faults > 0 THEN {FALSE} ELSE {}) :
        /\ dashCalls' = dashCalls \ {c}
        /\ missed' = (missed \/ (c.at = "done" /\ ~ok))
        /\ importer' =
              IF ~c.shuts THEN importer
              ELSE IF ok THEN [importer EXCEPT ![c.kind].phase = "processing", ![c.kind].project = c.project,
                                               ![c.kind].polls = @ \cup {[project |-> c.project, at |-> "asked", got |-> None]}]
              ELSE [importer EXCEPT ![c.kind].phase = "failed"]
        /\ UNCHANGED <<serverVars, listed, page, downloads, report, overtaken, shutAcross, belated, dashLeft>>

getImportStatus(p) == IF get_accessible_project(p) THEN imports[p].status ELSE "unreadable"
Ticking(kind, q, at) == [importer EXCEPT ![kind].polls = (@ \ {q}) \cup {at}]
PollRead ==
    \E kind \in Kind : \E q \in {x \in importer[kind].polls : x.at = "asked"} :
        /\ importer' = Ticking(kind, q, [q EXCEPT !.at = "read", !.got = getImportStatus(q.project)])
        /\ UNCHANGED <<serverVars, dashCalls, listed, page, downloads, report, ghostVars, dashLeft>>
PollTimer ==
    \E kind \in Kind : \E q \in {x \in importer[kind].polls : x.at = "timer"} :
        /\ importer' = Ticking(kind, q, [q EXCEPT !.at = "asked"])
        /\ UNCHANGED <<serverVars, dashCalls, listed, page, downloads, report, ghostVars, dashLeft>>

(* The pages: leaving one drops what it ran.                               *)
useTemplateReport(p) ==      \* in flight, else stale, or fresh for a minute
    IF report.at[p] # "none" THEN {report}
    ELSE {[report EXCEPT !.at[p] = "asked"]} \cup (IF report.cached[p] = "unknown" THEN {} ELSE {report})
navigate(p) ==
    /\ page' = [closeDialog(page) EXCEPT !.at = p]
    /\ importer' = [kind \in Kind |-> Idle] /\ downloads' = {}
    /\ report' \in useTemplateReport(p)
Unmounted(calls) == {[c EXCEPT !.shuts = FALSE] : c \in calls}

terminalFailed(kind, q) ==
    /\ importer' = [importer EXCEPT ![kind].polls = @ \ {q}, ![kind].phase = "done"]
    /\ UNCHANGED <<dashCalls, page, downloads, report, listed>>
terminal(kind, q) ==
    IF q.got \in Kept /\ kind = "zip"
    THEN navigate(q.project) /\ dashCalls' = Unmounted(dashCalls) /\ listed' = invalidate_projects(listed)
    ELSE /\ importer' = [importer EXCEPT ![kind].polls = @ \ {q},
                                         ![kind].phase = IF q.got \in Kept THEN "done" ELSE "failed"]
         /\ listed' = IF q.got \in Kept THEN invalidate_projects(listed) ELSE listed
         /\ UNCHANGED <<dashCalls, page, downloads, report>>
tick(kind, q) ==
    /\ importer' = [Ticking(kind, q, [q EXCEPT !.at = "timer", !.got = None]) EXCEPT ![kind].timer = q.project]
    /\ UNCHANGED <<dashCalls, listed, page, downloads, report>>
poll ==
    \E kind \in Kind : \E q \in {x \in importer[kind].polls : x.at = "read"} :
        /\ IF q.got \in TERMINAL THEN terminal(kind, q) ELSE tick(kind, q)
        /\ missed' = (missed \/ (q.got \in Kept /\ NothingHeard))
        /\ UNCHANGED <<serverVars, overtaken, shutAcross, belated, dashLeft>>

openProject ==
    /\ page.dialog = "template" /\ importer["template"].phase = "done" /\ importer["template"].project # None
    /\ navigate(importer["template"].project) /\ dashCalls' = Unmounted(dashCalls)
    /\ UNCHANGED <<serverVars, listed, ghostVars, dashLeft>>
onDeleteEmpty ==
    \E kind \in Kind :
        /\ page.dialog = kind /\ importer[kind].phase = "failed" /\ importer[kind].project # None
        /\ DashMay("drop") /\ SpendDash
        /\ AddCall("drop", importer[kind].project, None, kind)
        /\ UNCHANGED <<serverVars, listed, page, importer, downloads, report, ghostVars>>
ProjectIndex ==      \* a row is a link to its project
    \E row \in Visible :
        /\ page.at = "dashboard" /\ page.dialog = None /\ DashMay("open") /\ SpendDash
        /\ navigate(row[1]) /\ dashCalls' = Unmounted(dashCalls) /\ UNCHANGED <<serverVars, listed, ghostVars>>
ProjectsPage ==      \* back to the dashboard, whose list is fetched anew
    /\ page.at # "dashboard" /\ DashMay("back") /\ SpendDash
    /\ page' = [closeDialog(page) EXCEPT !.at = "dashboard"]
    /\ listed' = IF listed.at = "none" THEN useProjects(listed) ELSE listed
    /\ UNCHANGED <<serverVars, dashCalls, importer, downloads, report, ghostVars>>

(* The report of a template import, until it was seen once.                *)
getLatestImport(p) ==
    IF imports[p].source # "template" \/ ~get_accessible_project(p) \/ imports[p].status \notin Kept THEN "nothing"
    ELSE IF imports[p].seen THEN "seen" ELSE "unseen"
ReportRead ==
    \E p \in Project :
        /\ report.at[p] = "asked" /\ report' = [report EXCEPT !.at[p] = "read", !.got[p] = getLatestImport(p)]
        /\ UNCHANGED <<serverVars, dashCalls, listed, page, importer, downloads, ghostVars, dashLeft>>
ReportShown ==
    \E p \in Project :
        /\ report.at[p] = "read"
        /\ report' = [report EXCEPT !.at[p] = "none", !.got[p] = None, !.cached[p] = report.got[p]]
        /\ belated' = (belated \/ (report.got[p] = "unseen" /\ report.cached[p] # "unseen" /\ imports[p].seen))
        /\ UNCHANGED <<serverVars, dashCalls, listed, page, importer, downloads, missed, overtaken, shutAcross, dashLeft>>
ReportFailed ==
    \E p \in Project :
        /\ report.at[p] # "none" /\ Fault /\ report' = [report EXCEPT !.at[p] = "none", !.got[p] = None]
        /\ UNCHANGED <<serverVars, dashCalls, listed, page, importer, downloads, ghostVars>>
CompatNotice ==      \* Dismiss, or Review
    /\ page.at \in Project /\ report.cached[page.at] = "unseen" /\ DashMay("notice") /\ SpendDash
    /\ AddCall("seen", page.at, None, None)
    /\ UNCHANGED <<serverVars, listed, page, importer, downloads, report, ghostVars>>
markSeen(c) == IF c.at = "done" /\ report.cached[c.project] # "unknown"
               THEN [report EXCEPT !.cached[c.project] = "seen"] ELSE report
ReportSeen ==
    \E c \in {x \in dashCalls : x.op = "seen" /\ x.at \in {"done", "refused"}} :
        /\ dashCalls' = dashCalls \ {c} /\ report' = markSeen(c)
        /\ belated' = (belated \/ (c.at = "refused" /\ imports[c.project].seen))
        /\ UNCHANGED <<downloads, serverVars, listed, page, importer, missed, overtaken, shutAcross, dashLeft>>

(* Another tab deletes a project, or an owner takes the person out.        *)
OtherTab ==
    \E p \in Project :
        /\ dashLeft.others > 0 /\ dashLeft' = [dashLeft EXCEPT !.others = @ - 1] /\ get_accessible_project(p)
        /\ catalog' = [catalog EXCEPT ![p] = IF @.role = "owner" THEN [@ EXCEPT !.status = "gone"] ELSE [@ EXCEPT !.role = None]]
        /\ missed' = TRUE
        /\ UNCHANGED <<imports, importJobs, dashCalls, listed, page, importer, downloads, report, overtaken, shutAcross, belated>>

-----------------------------------------------------------------------------
dashInit ==
    /\ dashLeft \in DashStories
    /\ catalog = [p \in Project |-> IF p \in DOMAIN FirstProjects
                     THEN [status |-> "live", name |-> CHOOSE n \in Title : TRUE, role |-> FirstProjects[p]]
                     ELSE [status |-> "free", name |-> None, role |-> None]]
    /\ imports = [p \in Project |-> [status |-> "none", source |-> None, seen |-> FALSE]]
    /\ importJobs = {} /\ dashCalls = {}
    /\ listed = [at |-> "asked", rows |-> {}, got |-> {}, known |-> FALSE, failed |-> FALSE] /\ downloads = {}
    /\ page = [at |-> "dashboard", dialog |-> None, project |-> None, scope |-> "all"]
    /\ importer = [kind \in Kind |-> Idle]
    /\ report = [at |-> [p \in Project |-> "none"], got |-> [p \in Project |-> None], cached |-> [p \in Project |-> "unknown"]]
    /\ missed = FALSE /\ overtaken = {} /\ shutAcross = FALSE /\ belated = FALSE

PollStep == PollRead \/ PollTimer \/ poll
ServerStep == Handle \/ _create_import \/ import_project \/ _import_once \/ _run_archive
AnswerStep ==
    ListAnswer \/ ProjectListView \/ Downloaded \/ onSettled \/ mutateAsync \/ useCreateProject \/ Uploaded \/ ReportRead
    \/ ReportShown \/ ReportSeen
dashNext ==
    \/ PollStep \/ ServerStep \/ AnswerStep \/ _stage_upload \/ CallLost \/ ListFailed \/ ReportFailed \/ OtherTab \/ onRetry
    \/ ProjectScopeControl \/ RowActionsMenu \/ ProjectsHeader \/ useDownloadProject \/ onOpenChange
    \/ CreateProjectDialog \/ RenameProjectDialog \/ DeleteProjectDialog \/ start \/ openProject
    \/ onDeleteEmpty \/ ProjectIndex \/ ProjectsPage \/ CompatNotice

-----------------------------------------------------------------------------
(* Every variable has its type; a dialog about a project names one, and a  *)
(* project's page runs nothing of the dashboard's (projects-page.tsx).     *)
dashTypeOK ==
    /\ \A p \in Project : /\ catalog[p].status \in {"free", "live", "gone"} /\ catalog[p].role \in {"owner", "editor", None}
                          /\ imports[p].status \in {"none", "queued", "running"} \cup TERMINAL
                          /\ report.cached[p] \in {"unknown", "nothing", "unseen", "seen"}
                          /\ report.at[p] \in {"none", "asked", "read"}
    /\ importJobs \cup overtaken \cup downloads \subseteq Project
    /\ listed.at \in {"none", "asked", "read"}
    /\ page.dialog \in {"rename", "delete", "leave"} <=> page.project # None
    /\ page.at # "dashboard" => page.dialog = None /\ downloads = {} /\ \A k \in Kind : importer[k] = Idle
    /\ \A k \in Kind : importer[k].phase \in {"idle", "uploading", "processing", "done", "failed"}

(* Once every change is over the list shows the projects the server lists, *)
(* but for those whose import goes on or failed: the list is fetched again *)
(* only when one succeeds (use-projects.ts, import-project-dialog.tsx).    *)
DashboardConverges ==
    (page.at = "dashboard" /\ dashCalls = {} /\ listed.at = "none" /\ listed.known /\ ~listed.failed /\ ~missed) =>
        /\ listed.rows \subseteq list_projects
        /\ ~shutAcross => \A row \in list_projects \ listed.rows :
              /\ imports[row[1]].status # "none"
              /\ imports[row[1]].status \in Kept => \E k \in Kind : importer[k].project = row[1] /\ importBusy(k)

(* What an import's dialog says of its project is what became of it        *)
(* (use-import-project.ts).                                                *)
ImportOutcome ==
    ~shutAcross => \A k \in Kind : LET i == importer[k] IN
        /\ i.phase = "done" => i.project # None /\ imports[i.project].status \in Kept
        /\ (i.phase = "failed" /\ i.project # None) => imports[i.project].status \in TERMINAL \ Kept
        /\ i.phase = "processing" => \E q \in i.polls : q.project = i.project

(* A report that was dismissed is not shown again                          *)
(* (use-template-report.ts).                                               *)
DismissHolds ==
    ~belated => \A p \in Project :
        (imports[p].seen /\ report.at[p] = "none" /\ \A c \in dashCalls : c.op # "seen") => report.cached[p] # "unseen"

(* A dialog waits for its import.  That must come to an end, unless the    *)
(* import's job came too early or the project is gone                      *)
(* (use-import-project.ts, jobs.py).                                       *)
ImportOpen ==
    ~shutAcross /\ \E k \in Kind :
        /\ importBusy(k)
        /\ importer[k].project # None =>
               importer[k].project \notin overtaken /\ get_accessible_project(importer[k].project)
=============================================================================
