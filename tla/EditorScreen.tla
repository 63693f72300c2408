---------------------------- MODULE EditorScreen ----------------------------
(***************************************************************************)
(* The editor screen of one person: which document is selected, which one  *)
(* the pane shows while the next is loading, its autosave over REST with   *)
(* the versioned replace of the backend, the jumps between the PDF, the    *)
(* outline and the text, and the guard that asks before leaving.           *)
(*                                                                         *)
(* A text is <<document it stems from, edit>>.  `mode' is "rest" where the *)
(* pane saves by REST and "collab" where the live session owns the text    *)
(* (CollabClient models that session).  A line 0 is the top of the text.   *)
(*                                                                         *)
(* `saveCrossed' says that the answer of a save came when another document *)
(* had been seeded, `saveOverlapped' that a document was left while a save *)
(* of it was on its way or had been stored without the answer coming back, *)
(* or its conflict undecided, `stale' that one was seeded with data older  *)
(* than its saves.  `dropped' holds texts whose farewell save was lost or  *)
(* came after another person's, `surrendered' those the person gave up,    *)
(* `known' the saved contents the person wrote or was shown, `latest' the  *)
(* last text typed.                                                        *)
(***************************************************************************)
EXTENDS Naturals, FiniteSets

CONSTANTS Doc, RootDoc, HeadingLine, OutlineRows,
    MAX_RETRIES,     \* automatic retries of a failed save
    ScreenStories    \* mode, budgets of what the person does and of what goes wrong, whether all documents start alike

ASSUME ScreenAssumption ==
    /\ RootDoc \in Doc /\ HeadingLine \subseteq Nat \ {0} /\ MAX_RETRIES \in Nat /\ OutlineRows \in Nat
    /\ {"no document", "binary file"} \cap Doc = {}
    /\ ScreenStories \subseteq [mode : {"rest", "collab"}, alike : BOOLEAN, edits : Nat, undos : Nat, others : Nat, losses : Nat,
                               outages : Nat, switches : Nat, jumps : Nat, panels : Nat, leaves : Nat]

VARIABLES
    serverDocs,          \* document -> its text and version in the database
    desk,            \* the selection, the pane, the view and the autosave state
    put,             \* the save on its way that the autosave waits for
    farewells,       \* saves sent on the way out of a document
    sidebars,          \* drawer, side of a phone, agent window, outline
    online,
    saveCrossed, saveOverlapped, stale, dropped, surrendered, known, latest, screenLeft

screenVars == <<serverDocs, desk, put, farewells, sidebars, online, saveCrossed, saveOverlapped, stale, dropped,
                surrendered, known, latest, screenLeft>>
ghostsOfScreen == <<saveCrossed, saveOverlapped, stale, dropped, surrendered, known, latest>>

NoDoc == "no document"
BinaryFile == "binary file"
Blank == <<NoDoc, 0>>
NoData == [version |-> 0, text |-> Blank]
NoResult == [doc |-> NoDoc, data |-> NoData]
NoPut == [doc |-> NoDoc, text |-> Blank, base |-> 0, answer |-> "none", now |-> NoData]
Nowhere == [doc |-> NoDoc, line |-> 0]
PaneUnmounted == [doc |-> NoDoc, line |-> 0, synced |-> FALSE, text |-> Blank, astray |-> FALSE]
EMPTY == [doc |-> NoDoc, base |-> 0, server |-> Blank, local |-> Blank, shown |-> Blank, status |-> "clean",
          retries |-> 0, conflict |-> NoData]

RestMode == screenLeft.mode = "rest"
SpendScreen(what) == screenLeft[what] > 0 /\ screenLeft' = [screenLeft EXCEPT ![what] = @ - 1]

\* -- loading a document -----------------------------------------------------
Unsaved(s) == s.doc # NoDoc /\ s.local # s.server /\ s.status # "conflict"
\* The timer of resolveKeepMine, of no delay, is one with the debounce here. The code never cancels it: its flush
\* may come after a switch, as one of SaveNow may, or once more beside the farewell, with the same version.
clearTimers(d) == [d EXCEPT !.debounce = FALSE, !.retry = FALSE]

\* What the pane's query gives: the document's data, else, unless its load failed, the last data there was
\* (keepPreviousData), which stays the same until the document's own comes.
Cached(d) == d.open # NoDoc /\ d.cache[d.open] # NoData
Failed(d) == d.open # NoDoc /\ d.trouble[d.open] # "none"
keepPreviousData(d) ==
    IF d.held # NoResult THEN d.held ELSE IF d.last = NoDoc THEN NoResult ELSE [doc |-> d.last, data |-> d.cache[d.last]]
Result(d) == IF Cached(d) THEN [doc |-> d.open, data |-> d.cache[d.open]] ELSE IF Failed(d) THEN NoResult ELSE keepPreviousData(d)

\* A fetch of a query without data forgets its error.
Fetch(d, docs) ==
    [d EXCEPT !.fetching = @ \cup docs,
              !.trouble = [x \in Doc |-> IF x \in docs /\ d.cache[x] = NoData THEN "none" ELSE @[x]]]

\* The REST view goes while there is an error or no data; a new one starts with the text last seeded.
CodeMirrorEditor(d, there) ==
    IF ~there THEN [d EXCEPT !.view = PaneUnmounted, !.marked = NoDoc]
    ELSE IF d.view # PaneUnmounted THEN d
    ELSE [d EXCEPT !.view = [doc |-> d.loaded, line |-> 0, synced |-> TRUE, text |-> d.save.shown,
                             astray |-> d.save.shown # d.save.local]]

\* Seeding the autosave with what the query holds; a refetch of the same document does not come here.
seed(d, r) == [d EXCEPT !.loaded = r.doc, !.seeded = TRUE,
                        !.save = [EMPTY EXCEPT !.doc = r.doc, !.base = r.data.version, !.server = r.data.text,
                                               !.local = r.data.text, !.shown = r.data.text]]

\* The line a jump asked for, revealed in whatever the view holds when the document's data is there.
handleDocumentLoaded(d) ==
    IF d.reveal.doc = d.open /\ d.view # PaneUnmounted
    THEN [d EXCEPT !.view.line = IF d.view.synced THEN d.reveal.line ELSE 0, !.reveal = Nowhere]
    ELSE d

\* CodeMirror swaps the whole text of a REST view when the text to show is another; its cursor falls to the top.
swapText(d, before) ==
    IF ~RestMode \/ d.view = PaneUnmounted THEN d
    ELSE IF d.save.shown \in {before, d.view.text}
    THEN [d EXCEPT !.view.doc = d.loaded, !.view.astray = d.view.text # d.save.shown]
    ELSE [d EXCEPT !.view = [doc |-> d.loaded, line |-> 0, synced |-> TRUE, text |-> d.save.shown, astray |-> FALSE]]

\* One render of the pane with its effects: the outgoing document is saved by the caller, the new one seeded.
EditorPane(d) ==
    LET r == Result(d)
        to == IF d.open = NoDoc THEN NoDoc ELSE r.doc
        observed == [d EXCEPT !.held = IF Cached(d) \/ Failed(d) THEN NoResult ELSE r,
                              !.last = IF Cached(d) THEN d.open ELSE @]
        drawn == IF RestMode THEN CodeMirrorEditor(observed, to # NoDoc /\ ~Failed(d)) ELSE observed
        outgoing == IF d.loaded = NoDoc THEN drawn ELSE [clearTimers(drawn) EXCEPT !.out = TRUE]
    IN IF d.left \/ to = d.loaded THEN IF d.left THEN d ELSE drawn
       ELSE IF to = NoDoc THEN [outgoing EXCEPT !.loaded = NoDoc]
       ELSE swapText(handleDocumentLoaded(seed(outgoing, r)), d.save.shown)

useCollabDoc(d) == IF RestMode THEN d
                   ELSE [d EXCEPT !.view = IF d.open = NoDoc THEN PaneUnmounted ELSE [PaneUnmounted EXCEPT !.doc = d.open],
                                  !.marked = NoDoc]

\* A binary file or nothing leaves the pane without a document.
setOpenEntity(d, to) ==
    IF to = d.open THEN d ELSE useCollabDoc(EditorPane(Fetch([d EXCEPT !.open = to], {to} \ {NoDoc})))
setSelected(d, to) ==
    setOpenEntity([d EXCEPT !.selected = to, !.openDoc = IF to \in Doc THEN to ELSE @], IF to \in Doc THEN to ELSE NoDoc)
\* A document that is not found is let go.
notFound(d) == d.open # NoDoc /\ d.trouble[d.open] = "gone"
onClearSelection(d) == IF notFound(d) THEN setOpenEntity([d EXCEPT !.selected = NoDoc], NoDoc) ELSE d

useStartDocument(d) ==
    IF ~d.started /\ d.selected = NoDoc /\ d.tree /\ d.project
    THEN onClearSelection(setSelected([d EXCEPT !.started = TRUE], RootDoc)) ELSE d
useOpenDocument(d, to) == useStartDocument(onClearSelection(setSelected(d, to)))

\* The outgoing document's last text is sent without waiting, whenever the seeded one goes.
goodbye(d) == [doc |-> d.save.doc, text |-> d.save.local, base |-> d.save.base]
Farewell(out) ==
    /\ farewells' = IF out /\ desk.loaded # NoDoc /\ Unsaved(desk.save) THEN farewells \cup {goodbye(desk)} ELSE farewells
    /\ saveOverlapped' = (saveOverlapped \/ (out /\ desk.save.status = "conflict")
                       \/ (farewells' # farewells /\ (put # NoPut \/ serverDocs[desk.save.doc].version # desk.save.base)))
Behind(s) == s.base < serverDocs[s.doc].version \/ \E p \in farewells' \cup {put} : p.doc = s.doc
Become(to) ==
    \E d \in {to} :
        /\ desk' = [d EXCEPT !.out = FALSE, !.seeded = FALSE] /\ Farewell(d.out)
        /\ stale' = (stale \/ (d.seeded /\ Behind(d.save)))
        /\ known' = IF d.seeded THEN known \cup {<<d.save.doc, [version |-> d.save.base, text |-> d.save.server]>>} ELSE known

\* -- the autosave state machine ---------------------------------------------
patch(d, s) == IF d.left THEN d ELSE [d EXCEPT !.save = s]

onLocalChange(d, text) ==
    LET s == d.save
        status == IF s.status = "conflict" THEN "conflict" ELSE IF text = s.server THEN "clean" ELSE "dirty"
    IN IF text = s.local THEN d
       ELSE [d EXCEPT !.save.local = text, !.save.status = status, !.debounce = @ \/ status = "dirty"]

Sends(d) == d.save.doc # NoDoc /\ d.save.status # "conflict" /\ d.save.local # d.save.server /\ put = NoPut

\* One flush: nothing while a save is on its way or the text is the server's.
flush(d) ==
    /\ put' = IF Sends(d) THEN [doc |-> d.save.doc, text |-> d.save.local, base |-> d.save.base,
                             answer |-> "none", now |-> NoData] ELSE put
    /\ desk' = LET quiet == [d EXCEPT !.debounce = FALSE]
               IN IF Sends(d) THEN patch(quiet, [d.save EXCEPT !.status = "saving"])
                  ELSE IF d.save.doc # NoDoc /\ d.save.status # "conflict" /\ d.save.local = d.save.server
                  THEN patch(quiet, [d.save EXCEPT !.status = "clean"]) ELSE quiet

restOnly == <<serverDocs, farewells, sidebars, online, ghostsOfScreen>>

DebounceFires == desk.debounce /\ flush(desk) /\ UNCHANGED <<restOnly, screenLeft>>
RetryFires == desk.retry /\ flush([desk EXCEPT !.retry = FALSE]) /\ UNCHANGED <<restOnly, screenLeft>>

\* Ctrl+S, leaving the text, hiding the tab, the Retry button.
SaveNow == ~desk.left /\ RestMode /\ flush(desk) /\ UNCHANGED <<restOnly, screenLeft>>

\* Both dialogs are modal.
Modal == desk.save.conflict # NoData \/ desk.blocked

\* Typing reaches the text the view shows, and only while the drawer does not cover it.
Types(text) ==
    /\ desk' = onLocalChange([desk EXCEPT !.view.text = text, !.view.astray = FALSE], text)
    /\ latest' = [latest EXCEPT ![desk.save.doc] = text]
Type ==
    /\ RestMode /\ ~desk.left /\ desk.view.doc # NoDoc /\ ~sidebars.drawer /\ ~Modal
    /\ \/ SpendScreen("edits") /\ Types(<<desk.save.doc, screenLeft'.edits + 2>>)
       \/ desk.view.text # desk.save.server /\ SpendScreen("undos") /\ Types(desk.save.server)
    /\ UNCHANGED <<serverDocs, put, farewells, sidebars, online, saveCrossed, saveOverlapped, stale, dropped, surrendered, known>>

\* -- the server ---------------------------------------------------------------
AcceptsAny(p) == TRUE
Accepts(p) == serverDocs[p.doc].version = p.base
replace_content(p) == IF Accepts(p) THEN [serverDocs EXCEPT ![p.doc] = [version |-> p.base + 1, text |-> p.text]] ELSE serverDocs

PutServed ==
    /\ put # NoPut /\ put.answer = "none" /\ online
    /\ serverDocs' = replace_content(put)
    /\ known' = IF Accepts(put) THEN known \cup {<<put.doc, serverDocs'[put.doc]>>} ELSE known
    /\ put' = [put EXCEPT !.answer = IF Accepts(put) THEN "saved" ELSE "conflict", !.now = serverDocs'[put.doc]]
    /\ UNCHANGED <<desk, farewells, sidebars, online, saveCrossed, saveOverlapped, stale, dropped, surrendered, latest, screenLeft>>

PutLost ==
    /\ put # NoPut /\ put.answer # "lost"
    /\ IF online THEN SpendScreen("losses") ELSE UNCHANGED screenLeft
    /\ put' = [put EXCEPT !.answer = "lost"]
    /\ UNCHANGED <<desk, restOnly>>

stillDirty(s) == s.local # put.text
Saved(s) ==
    [s EXCEPT !.base = put.now.version, !.server = put.text, !.retries = 0,
              !.status = IF stillDirty(s) THEN "dirty" ELSE "clean"]
Conflicted(s) == [s EXCEPT !.status = "conflict", !.conflict = put.now]
Retries(s) == s.retries < MAX_RETRIES
\* Counting stops past the cap: only `retries' against MAX_RETRIES matters.
LoadFailed(s) == [s EXCEPT !.retries = IF @ > MAX_RETRIES THEN @ ELSE @ + 1, !.status = IF ~Retries(s) \/ online THEN "error" ELSE "offline"]

PutAnswered ==
    /\ put # NoPut /\ put.answer # "none" /\ put' = NoPut
    /\ LET s == desk.save IN
       CASE put.answer = "saved" -> desk' = [patch(desk, Saved(s)) EXCEPT !.debounce = @ \/ stillDirty(s)]
         [] put.answer = "conflict" -> desk' = patch(desk, Conflicted(s))
         [] OTHER -> desk' = [patch(desk, LoadFailed(s)) EXCEPT !.retry = @ \/ Retries(s)]
    /\ saveCrossed' = (saveCrossed \/ put.doc # desk.save.doc)
    /\ known' = IF put.answer = "conflict" THEN known \cup {<<put.doc, put.now>>} ELSE known
    /\ UNCHANGED <<serverDocs, farewells, sidebars, online, saveOverlapped, stale, dropped, surrendered, latest, screenLeft>>

FarewellServed(p) ==
    /\ farewells' = farewells \ {p}
    /\ \/ /\ online /\ serverDocs' = replace_content(p)
          /\ dropped' = IF serverDocs[p.doc].text = <<p.doc, 1>> THEN dropped \cup {p.text} ELSE dropped
          /\ known' = IF Accepts(p) THEN known \cup {<<p.doc, serverDocs'[p.doc]>>} ELSE known
          /\ UNCHANGED screenLeft
       \/ /\ IF online THEN SpendScreen("losses") ELSE UNCHANGED screenLeft
          /\ dropped' = dropped \cup {p.text} /\ UNCHANGED <<serverDocs, known>>
    /\ UNCHANGED <<desk, put, sidebars, online, saveCrossed, saveOverlapped, stale, surrendered, latest>>

\* Another tab or member saves the document.
OtherSaves(d) ==
    /\ SpendScreen("others")
    /\ serverDocs' = [serverDocs EXCEPT ![d] = [version |-> @.version + 1, text |-> <<d, 1>>]]
    /\ UNCHANGED <<desk, put, farewells, sidebars, online, ghostsOfScreen>>

\* Coming back, the queries in use are read again: the open document's and, for its packages, the root's.
InUse(d) == IF d.left THEN {} ELSE ({d.open} \ {NoDoc}) \cup (IF d.project THEN {RootDoc} ELSE {})
refetchOnReconnect(d) == Fetch(d, InUse(d))

Connectivity ==
    \/ /\ online /\ SpendScreen("outages") /\ online' = FALSE /\ UNCHANGED <<desk, put>>
    \/ /\ ~online /\ online' = TRUE /\ UNCHANGED screenLeft
       /\ LET d == refetchOnReconnect(desk)
          IN IF d.save.status \in {"offline", "error", "dirty"} /\ ~d.left THEN flush(d) ELSE desk' = d /\ UNCHANGED put
useFlushTriggers == Connectivity /\ UNCHANGED <<serverDocs, farewells, sidebars, ghostsOfScreen>>

\* -- the conflict dialog --------------------------------------------------------
resolveReload(s) == [s EXCEPT !.local = s.conflict.text, !.shown = s.conflict.text, !.server = s.conflict.text, !.base = s.conflict.version,
                              !.status = "clean", !.conflict = NoData]
resolveKeepMine(s) == [s EXCEPT !.base = s.conflict.version, !.server = s.conflict.text, !.status = "dirty",
                                !.conflict = NoData]

ConflictDialog ==
    /\ ~desk.left /\ desk.save.conflict # NoData
    /\ \/ desk' = swapText([desk EXCEPT !.save = resolveReload(@)], desk.save.shown) /\ surrendered' = surrendered \cup {desk.save.local}
       \/ desk' = [desk EXCEPT !.save = resolveKeepMine(@), !.debounce = TRUE] /\ UNCHANGED surrendered
    /\ UNCHANGED <<serverDocs, put, farewells, sidebars, online, saveCrossed, saveOverlapped, stale, dropped, known, latest, screenLeft>>

\* -- the pane's query -------------------------------------------------------------
\* An answer of the server comes, unless the fetch waits for the network.
DocumentRead(d) ==
    /\ d \in desk.fetching /\ online
    /\ Become(EditorPane([desk EXCEPT !.cache[d] = serverDocs[d], !.fetching = @ \ {d}, !.trouble[d] = "none"]))
    /\ UNCHANGED <<serverDocs, put, sidebars, online, saveCrossed, dropped, surrendered, latest, screenLeft>>

\* A load that fails takes the REST view away, and a 404 lets go of the document.
getDocument(d) ==
    /\ d \in desk.fetching /\ ~desk.left /\ SpendScreen("losses")
    /\ \E why \in {"error", "gone"} :
         Become(useStartDocument(onClearSelection(EditorPane([desk EXCEPT !.fetching = @ \ {d}, !.trouble[d] = why]))))
    /\ UNCHANGED <<serverDocs, put, sidebars, online, saveCrossed, dropped, surrendered, latest>>

\* The pane is drawn again a little after a refetch forgot the error it showed.
Redraw ==
    /\ ~desk.left /\ EditorPane(desk) # desk /\ Become(EditorPane(desk))
    /\ UNCHANGED <<serverDocs, put, sidebars, online, saveCrossed, dropped, surrendered, latest, screenLeft>>

\* The Retry under the error of a load.
PaneBody ==
    /\ RestMode /\ ~desk.left /\ Failed(desk) /\ desk.open \notin desk.fetching /\ ~sidebars.drawer /\ ~Modal
    /\ Become(EditorPane(Fetch(desk, {desk.open})))
    /\ UNCHANGED <<serverDocs, put, sidebars, online, saveCrossed, dropped, surrendered, latest, screenLeft>>

\* -- the screen -----------------------------------------------------------------
\* With the project comes the text of its root document, for the packages it loads.
useMainDocumentText(d) == Fetch([d EXCEPT !.project = TRUE], {RootDoc})
useWorkspaceTree ==
    /\ ~desk.left
    /\ \/ ~desk.tree /\ Become(useStartDocument([desk EXCEPT !.tree = TRUE]))
       \/ ~desk.project /\ Become(useStartDocument(useMainDocumentText(desk)))
    /\ UNCHANGED <<serverDocs, put, sidebars, online, saveCrossed, dropped, surrendered, latest, screenLeft>>

\* Picking a file in the drawer, which closes it.
pickFile(d) ==
    /\ desk.tree /\ ~desk.left /\ ~Modal /\ sidebars.drawer /\ SpendScreen("switches")
    /\ Become(useOpenDocument(desk, d)) /\ sidebars' = [sidebars EXCEPT !.drawer = FALSE]
    /\ UNCHANGED <<serverDocs, put, online, saveCrossed, dropped, surrendered, latest>>

revealLine(d, line) == [d EXCEPT !.view.line = IF d.view.synced THEN line ELSE 0]
\* `open' is the document the caller's closure saw as open.
jumpToSource(d, open, doc, line) ==
    IF open = doc /\ d.view.doc # NoDoc THEN revealLine(d, line)
    ELSE useOpenDocument([d EXCEPT !.reveal = [doc |-> doc, line |-> line]], doc)

\* A problem of the compile, an outline entry (which closes the drawer), a search match.
Jump(d, l) ==
    /\ desk.tree /\ ~desk.left /\ ~Modal /\ SpendScreen("jumps")
    /\ Become(jumpToSource(desk, desk.openDoc, d, l))
    /\ \E entry \in BOOLEAN : sidebars' = [sidebars EXCEPT !.view = "content", !.drawer = @ /\ ~entry]
    /\ UNCHANGED <<serverDocs, put, online, saveCrossed, dropped, surrendered, latest>>

\* Inverse sync: the location of a point of the PDF is asked for, the answer jumps, or there is none.
onPdfClick ==
    /\ desk.tree /\ ~desk.left /\ ~Modal /\ SpendScreen("jumps")
    /\ desk' = [desk EXCEPT !.lookups = @ \cup {desk.openDoc}] /\ sidebars' = [sidebars EXCEPT !.view = "content"]
    /\ UNCHANGED <<serverDocs, put, farewells, online, ghostsOfScreen>>
handlePdfClick ==
    /\ ~desk.left
    /\ \E open \in desk.lookups :
         LET answered == [desk EXCEPT !.lookups = @ \ {open}]
         IN Become(answered) \/ \E d \in Doc, l \in HeadingLine : Become(jumpToSource(answered, open, d, l))
    /\ UNCHANGED <<serverDocs, put, sidebars, online, saveCrossed, dropped, surrendered, latest, screenLeft>>

\* The live session of the open document has its text.
CollabSynced ==
    /\ ~RestMode /\ ~desk.left /\ desk.view.doc # NoDoc /\ ~desk.view.synced
    /\ desk' = [desk EXCEPT !.view.synced = TRUE]
    /\ UNCHANGED <<put, restOnly, screenLeft>>

readSelection(view) == view.doc # NoDoc /\ view.synced
SelectionAsk == desk.marked # NoDoc /\ ~sidebars.agent
\* A stretch of the shown text is selected or the selection goes; asking the agent quotes it with the open file.
SelectionIn ==
    /\ ~desk.left /\ readSelection(desk.view) /\ ~sidebars.drawer
    /\ \E shown \in {desk.view.doc, NoDoc} \ {desk.marked} : desk' = [desk EXCEPT !.marked = shown]
    /\ UNCHANGED <<put, restOnly, screenLeft>>
aboutSelection ==
    /\ ~desk.left /\ ~Modal /\ SelectionAsk /\ desk.openDoc # NoDoc
    /\ sidebars' = [sidebars EXCEPT !.quote = [path |-> desk.openDoc, text |-> desk.marked], !.agent = TRUE]
    /\ desk' = [desk EXCEPT !.marked = NoDoc]
    /\ UNCHANGED <<serverDocs, put, farewells, online, ghostsOfScreen, screenLeft>>

\* -- the drawer, the phone's tabs and the outline ----------------------------------
DrawerTabs ==
    \E t \in {"files", "outline", "search"} : sidebars.drawer /\ t # sidebars.tab /\ sidebars' = [sidebars EXCEPT !.tab = t]
FileDrawer == DrawerTabs \/ sidebars' = [sidebars EXCEPT !.drawer = ~@]
MobileTabs ==
    \/ \E v \in {"content", "preview"} : v # sidebars.view /\ sidebars' = [sidebars EXCEPT !.view = v]
    \/ sidebars' = [sidebars EXCEPT !.agent = ~@]

\* The row of the section the cursor is in takes the focus; above the first section there is none.
RowFollowed(p) == IF p.current = 0 THEN p ELSE [p EXCEPT !.focus = p.current]
nextFocus(p) == {p.focus + 1, p.focus - 1, 1, p.rows} \cap (1..p.rows)
OutlinePanel ==
    /\ sidebars.tab = "outline" /\ sidebars.drawer
    /\ \E f \in nextFocus(sidebars) : sidebars.focus \in 1..sidebars.rows /\ sidebars' = [sidebars EXCEPT !.focus = f]
OutlineChanges(n) ==
    /\ \E c \in 0..n : sidebars' = LET p == [sidebars EXCEPT !.rows = n, !.current = c]
                                 IN [(IF c = sidebars.current THEN p ELSE RowFollowed(p)) EXCEPT
                                       !.shrunk = (c \in {0, sidebars.current} /\ n < sidebars.focus)]
Panels ==
    /\ ~desk.left /\ ~Modal /\ SpendScreen("panels")
    /\ FileDrawer \/ MobileTabs \/ OutlinePanel \/ \E n \in 0..OutlineRows : OutlineChanges(n)
    /\ UNCHANGED <<serverDocs, desk, put, farewells, online, ghostsOfScreen>>

\* -- leaving ------------------------------------------------------------------------
hasUnsaved == desk.save.status # "clean"
\* In-app navigation: asked about while there are unsaved changes; leaving unmounts the pane.
UnsavedChangesGuard ==
    /\ ~desk.left
    /\ IF hasUnsaved /\ ~desk.blocked THEN desk' = [desk EXCEPT !.blocked = TRUE] /\ UNCHANGED <<farewells, saveOverlapped, surrendered>>
       ELSE \/ /\ desk.blocked /\ desk' = [desk EXCEPT !.blocked = FALSE] /\ UNCHANGED <<farewells, saveOverlapped, surrendered>>
            \/ /\ desk' = [clearTimers(desk) EXCEPT !.left = TRUE, !.blocked = FALSE]
               /\ Farewell(TRUE)
               /\ surrendered' = IF desk.save.status = "conflict" THEN surrendered \cup {desk.save.local} ELSE surrendered
    /\ SpendScreen("leaves")
    /\ UNCHANGED <<serverDocs, put, sidebars, online, saveCrossed, stale, dropped, known, latest>>

-----------------------------------------------------------------------------
screenInit ==
    /\ desk = [selected |-> NoDoc, openDoc |-> NoDoc, started |-> FALSE, tree |-> FALSE, project |-> FALSE, open |-> NoDoc,
               loaded |-> NoDoc, cache |-> [d \in Doc |-> NoData], trouble |-> [d \in Doc |-> "none"], fetching |-> {},
               last |-> NoDoc, held |-> NoResult, out |-> FALSE, seeded |-> FALSE, view |-> PaneUnmounted, reveal |-> Nowhere,
               lookups |-> {}, marked |-> NoDoc, save |-> EMPTY, debounce |-> FALSE, retry |-> FALSE, left |-> FALSE,
               blocked |-> FALSE]
    /\ put = NoPut /\ farewells = {} /\ online = TRUE
    /\ sidebars = [drawer |-> FALSE, tab |-> "files", view |-> "content", agent |-> FALSE, rows |-> OutlineRows, current |-> OutlineRows,
                 focus |-> OutlineRows, shrunk |-> FALSE, quote |-> [path |-> NoDoc, text |-> NoDoc]]
    /\ saveCrossed = FALSE /\ saveOverlapped = FALSE /\ dropped = {} /\ surrendered = {} /\ known = {}
    /\ stale = FALSE /\ latest = [d \in Doc |-> <<d, 0>>]
    /\ screenLeft \in ScreenStories
    /\ serverDocs = [d \in Doc |-> [version |-> 1, text |-> <<IF screenLeft.alike THEN RootDoc ELSE d, 0>>]]

AutosaveStep == DebounceFires \/ RetryFires \/ PutAnswered
LoadStep == useWorkspaceTree \/ CollabSynced \/ Redraw \/ \E d \in Doc : DocumentRead(d)
\* When one of them can be taken.
LoadDue == \/ ~desk.left /\ (~desk.tree \/ ~desk.project \/ EditorPane(desk) # desk)
           \/ ~desk.left /\ ~RestMode /\ desk.view.doc # NoDoc /\ ~desk.view.synced
           \/ online /\ desk.fetching # {}
ScreenServer == PutServed \/ \E p \in farewells : FarewellServed(p)
screenNext ==
    \/ AutosaveStep \/ LoadStep \/ ScreenServer \/ SaveNow \/ Type \/ PutLost \/ useFlushTriggers \/ ConflictDialog \/ PaneBody
    \/ onPdfClick \/ handlePdfClick \/ SelectionIn \/ aboutSelection \/ Panels \/ UnsavedChangesGuard
    \/ \E d \in Doc : OtherSaves(d) \/ getDocument(d) \/ \E l \in HeadingLine : Jump(d, l)
    \/ \E d \in Doc \cup {BinaryFile} : pickFile(d)

-----------------------------------------------------------------------------
\* The autosave's state has one of its six statuses, and a conflict is held exactly while the status says
\* so (autosave/types.ts).
screenTypeOK ==
    /\ desk.save.status \in {"clean", "dirty", "saving", "error", "offline", "conflict"}
    /\ (desk.save.status = "conflict") <=> (desk.save.conflict # NoData)
    /\ desk.selected \in Doc \cup {NoDoc, BinaryFile}
    /\ \A d \in {desk.openDoc, desk.open, desk.loaded, desk.last, desk.view.doc, desk.marked} : d \in Doc \cup {NoDoc}
    /\ desk.fetching \subseteq Doc /\ desk.lookups \subseteq Doc \cup {NoDoc} /\ ~desk.out /\ ~desk.seeded
    /\ sidebars.current \in 0..sidebars.rows

\* Buffered edits are not lost: the last text typed in a document is still in the pane, on its way out, or was
\* stored; it may go only when the person gave it up, the network or another person's save beat a farewell, or in
\* the three known crossings (use-document-autosave.ts:113-137).
Reached(t) == \E k \in known : k[2].text = t
Held(d) == \/ ~desk.left /\ desk.save.doc = d /\ desk.save.local = latest[d]
           \/ \E p \in farewells : p.text = latest[d]
           \/ latest[d][2] = 0 \/ Reached(latest[d]) \/ latest[d] \in surrendered \cup dropped
EditsKept == saveCrossed \/ saveOverlapped \/ stale \/ \A d \in Doc : Held(d)

\* A save replaces only a content the person wrote or was shown (base_version; the two choices of the dialog).
NoBlindOverwrite ==
    [][\A d \in Doc : serverDocs'[d] # serverDocs[d] /\ serverDocs'[d].text # <<d, 1>> => saveCrossed \/ <<d, serverDocs[d]>> \in known]_screenVars

\* "Saved" is shown only when the seeded text is the stored one, as far as the version it was told says, even while
\* a save of another text is on its way; and the text in view is the one that would be saved, but for a view put up again after an
\* error (codemirror-editor.tsx:64-92: it starts with the text last seeded) and a text to show that did not change.
CleanMeansSaved ==
    /\ desk.save.status = "clean" /\ desk.save.doc # NoDoc /\ ~saveCrossed =>
        /\ desk.save.local = desk.save.server
        /\ serverDocs[desk.save.doc].version = desk.save.base => serverDocs[desk.save.doc].text = desk.save.local
    /\ RestMode /\ ~desk.left /\ desk.view.doc # NoDoc /\ ~desk.view.astray =>
        desk.view.doc = desk.save.doc /\ desk.view.text = desk.save.local

\* The document the screen opens on never takes the place of one the person picked while the project loaded.
StartKeepsChoice ==
    [][desk.selected # NoDoc /\ (desk'.tree # desk.tree \/ desk'.project # desk.project) => desk'.selected = desk.selected]_screenVars

\* Under the live session, the agent is asked about the file the selected text is in.
QuoteTrue == RestMode \/ sidebars.quote.path = sidebars.quote.text

\* One row of the outline can be reached by the keyboard whenever there are rows, unless the rows below the
\* focused one went while the cursor stayed where it was (outline-panel.tsx:121-127).
OutlineReachable == sidebars.rows = 0 \/ sidebars.focus <= sidebars.rows \/ sidebars.shrunk

\* What is typed must come to be saved, or the person be told of the failure or the conflict, or leave, or the
\* next document not load (the pane then shows that failure, and the status of the one before is kept).
Settled == desk.save.status \notin {"dirty", "saving"} \/ desk.left \/ desk.loaded = NoDoc

\* What the pane shows and saves is so: its parts fit together (its types), what was typed is kept until it is saved
\* or given up, "saved" is shown only of the stored text, a quote says the file it comes from, and the outline can be
\* reached (use-document-autosave.ts, editor-workspace.tsx).
ScreenTrue == screenTypeOK /\ EditsKept /\ CleanMeansSaved /\ QuoteTrue /\ OutlineReachable

\* The server's text is replaced only by who has seen it, and the document a person picked is not taken away by the
\* one the screen starts on.
ScreenKept == NoBlindOverwrite /\ StartKeepsChoice

ScreenSpec == screenInit /\ [][screenNext]_screenVars

=============================================================================
