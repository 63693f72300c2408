------------------------------ MODULE FileTree ------------------------------
(***************************************************************************)
(* A project's file tree: the rows on the server, changed by requests of   *)
(* several members that check first and write later, and the panel of one  *)
(* browser: its cached tree with optimistic changes, the rows and their    *)
(* keyboard, the inline rename, the dialogs, dragging, uploads, and the    *)
(* file the workspace has selected and shows.                              *)
(*                                                                         *)
(* A name is a number, which is also its alphabetical rank.  `behind' says *)
(* that another member, or a call whose answer was lost, changed the tree  *)
(* since it was read; no event tells the panel of it.  `strayed' says that *)
(* the focused row left the screen by a click or with its file.  `parted'  *)
(* holds the files whose row and bytes have lost each other: the commit    *)
(* covers the row only, bytes are stored and dropped before it.            *)
(***************************************************************************)
EXTENDS Naturals, Sequences, FiniteSets, SequencesExt, FiniteSetsExt, Functions

CONSTANTS
    Root,           \* the root folder
    FirstTree,      \* the rows at the start
    MainDoc,        \* the project's root document
    NewIds,         \* ids the server can give
    TempIds,        \* ids of rows shown before the server answered
    Names,          \* the names typed
    FileStories     \* what the user and the others may do, and how often

Gestures == {"look", "select", "create", "rename", "delete", "move", "upload"}
ASSUME FileTreeAssumption ==
    /\ Names \subseteq Nat /\ Root \in DOMAIN FirstTree /\ MainDoc \in DOMAIN FirstTree
    /\ NewIds \cap TempIds = {} /\ (NewIds \cup TempIds) \cap DOMAIN FirstTree = {}
    /\ FileStories \subseteq [may : SUBSET Gestures, own : Nat, looks : Nat, theirs : SUBSET Gestures,
                              others : Nat, faults : Nat, readOnly : BOOLEAN]

VARIABLES
    entities,       \* the rows of tree_entities: id -> parent, name, kind
    blobs,          \* the files whose bytes are stored
    treeCalls,      \* requests on their way, of this browser ("me") and of others
    fileTree,       \* the tree shown
    treeFetch,      \* the fetch of the tree under way
    chosen,         \* the workspace's selected entity
    knownIds,       \* what the tree last listed
    opened,         \* the entity the editor pane shows
    panel,          \* rows expanded, focused, selected, renamed, dragged; the dialog open
    uploads,        \* the upload list, the batch under way, the conflict asked about
    fileLeft,       \* what is left of the story
    behind, strayed, parted

fileVars == <<entities, blobs, treeCalls, fileTree, treeFetch, chosen, knownIds, opened, panel,
              uploads, fileLeft, behind, strayed, parted>>
treeServer == <<entities, blobs, parted>>
viewVars == <<fileTree, chosen, knownIds, opened>>

Nothing == "nothing"
NoTree == [n \in {} |-> Nothing]
Unselected == [id |-> Nothing, kind |-> "doc", path |-> << >>]
NoDialog == [kind |-> "none", at |-> Nothing, type |-> "doc"]
NoRename == [id |-> Nothing, value |-> 0, typed |-> FALSE, moved |-> FALSE]
Loaded == fileTree # NoTree
FileSpend(what) == fileLeft[what] > 0 /\ fileLeft' = [fileLeft EXCEPT ![what] = @ - 1]
May(gesture) == gesture \in fileLeft.may

-----------------------------------------------------------------------------
(* Trees.                                                                  *)

Ancestor(t, id, k) ==
    LET up[i \in 0..k] == IF i = 0 THEN id ELSE [n \in DOMAIN t |-> IF n = Root THEN n ELSE t[n].parent][up[i - 1]]
    IN  up[k]
_subtree(t, id) ==  \* the entity and everything below it
    {n \in DOMAIN t : \E k \in 0..Cardinality(DOMAIN t) : Ancestor(t, n, k) = id}
is_descendant(t, ancestor, id) == id \in _subtree(t, ancestor)
_sibling_exists(t, parent, name, but) ==
    \E n \in DOMAIN t \ {but} : t[n].parent = parent /\ t[n].name = name
compute_path(t, id) ==
    LET path[n \in DOMAIN t] == IF n = Root THEN << >> ELSE Append(path[t[n].parent], t[n].name)
    IN  path[id]
build_tree(t) ==    \* what hangs from the root, each row with its path
    [n \in _subtree(t, Root) |-> t[n] @@ [path |-> compute_path(t, n)]]
Entity(t, id) == [id |-> id, kind |-> t[id].kind, path |-> t[id].path]
AnyOf(ids) == CHOOSE id \in ids : TRUE

addChild(t, id, row) == IF row.parent \in DOMAIN t THEN (id :> row) @@ t ELSE t
updateNode(t, id, name) == IF id \in DOMAIN t THEN [t EXCEPT ![id].name = name] ELSE t
removeNode(t, id) == Restrict(t, DOMAIN t \ _subtree(t, id))
reparent(t, id, parent) ==
    IF id \notin DOMAIN t THEN t
    ELSE IF parent \in DOMAIN t THEN [t EXCEPT ![id].parent = parent] ELSE removeNode(t, id)

sortNodes(t, folder) ==     \* folders first, then by name
    SetToSortSeq({n \in DOMAIN t : t[n].parent = folder},
        LAMBDA m, n : IF (t[m].kind = "folder") # (t[n].kind = "folder") THEN t[m].kind = "folder"
                      ELSE t[m].name < t[n].name)
flattenVisible(t, expanded) ==
    LET under[f \in DOMAIN t] ==
            FoldLeft(LAMBDA rows, n : rows \o <<n>> \o IF n \in expanded THEN under[n] ELSE << >>,
                     << >>, sortNodes(t, f))
    IN  IF t = NoTree THEN << >> ELSE under[Root]
TreeRows == flattenVisible(fileTree, panel.expanded)
Folders == {n \in DOMAIN fileTree : fileTree[n].kind = "folder"}
Focused == SelectInSeq(TreeRows, LAMBDA n : n = panel.focused)
resolveParentFolder ==
    IF panel.selected \notin DOMAIN fileTree THEN Root
    ELSE IF panel.selected \in Folders THEN panel.selected ELSE fileTree[panel.selected].parent

-----------------------------------------------------------------------------
(* What the screen makes of a new tree or a new selection.                 *)

pickStartDocument(t) ==
    LET docs == {n \in DOMAIN t : t[n].kind = "doc"}
    IN  IF MainDoc \in docs THEN Entity(t, MainDoc)
        ELSE IF docs # {} THEN Entity(t, CHOOSE n \in docs : TRUE) ELSE Unselected
selectionStays(ids, t, selected) == selected
selectionAfterTreeChange(ids, t, selected) ==
    IF selected.id \in DOMAIN t THEN Entity(t, selected.id)
    ELSE IF selected.id \in ids THEN Unselected ELSE selected
RenamedIn(t, id) == id \in DOMAIN t \cap DOMAIN fileTree /\ t[id].name # fileTree[id].name
(* `shown' is the panel as the gesture left it.                            *)
Render(t, selected, shown) ==
    \E start \in {IF ~panel.started /\ selected = Unselected /\ t # NoTree
                  THEN pickStartDocument(t) ELSE selected},
       rows \in {flattenVisible(t, shown.expanded)}, before \in {ToSet(TreeRows)} :
    \E next \in {IF t = NoTree THEN start ELSE selectionAfterTreeChange(knownIds, t, start)} :
        /\ fileTree' = t /\ knownIds' = DOMAIN t /\ chosen' = next
        /\ opened' = IF next # Unselected /\ next.kind # "folder" THEN next ELSE opened
        /\ panel' = [shown EXCEPT
               !.started = @ \/ t # NoTree,
               !.selected = IF next.id # chosen.id THEN next.id ELSE @,
               !.focused = IF @ = Nothing /\ rows # << >> THEN rows[1] ELSE @,
               !.rename.moved = @ \/ RenamedIn(t, shown.rename.id)]
        /\ strayed' = \/ strayed /\ shown.focused = panel.focused
                      \/ shown.focused \in before \ ToSet(rows)

(* A gesture that only changes the panel.                                  *)
Look(shown) == Render(fileTree, chosen, shown) /\ UNCHANGED <<treeCalls, treeFetch, uploads, behind, treeServer>>

-----------------------------------------------------------------------------
(* The tree's fetch.                                                       *)

invalidateTree == treeFetch' = IF Loaded \/ treeFetch.at = "none"
                               THEN [at |-> "asked", got |-> NoTree] ELSE treeFetch
get_tree ==
    /\ treeFetch.at = "asked"
    /\ treeFetch' = [at |-> "read", got |-> build_tree(entities)]
    /\ behind' = FALSE
    /\ UNCHANGED <<treeServer, treeCalls, viewVars, panel, uploads, fileLeft, strayed>>
useProjectTree ==
    /\ treeFetch.at = "read"
    /\ treeFetch' = [at |-> "none", got |-> NoTree]
    /\ Render(treeFetch.got, chosen, panel)
    /\ UNCHANGED <<treeServer, treeCalls, uploads, fileLeft, behind>>
getTree ==          \* the fetch fails: the tree stays, with an error and its Retry above it
    /\ treeFetch.at # "none" /\ Loaded /\ FileSpend("faults")
    /\ treeFetch' = [at |-> "failed", got |-> NoTree]
    /\ UNCHANGED <<treeServer, treeCalls, viewVars, panel, uploads, behind, strayed>>
FileTreeBody ==
    /\ treeFetch.at = "failed" /\ treeFetch' = [at |-> "asked", got |-> NoTree]
    /\ UNCHANGED <<treeServer, treeCalls, viewVars, panel, uploads, fileLeft, behind, strayed>>

-----------------------------------------------------------------------------
(* The server: a call's checks, then its writes at the commit.             *)

FreeId == NewIds \ (DOMAIN entities \cup blobs \cup {c.id : c \in treeCalls})
TreeDecided(c) == c.at \in {"done", "refused", "failed"}
Became(c, new) ==   \* nobody waits for the answers of the others' calls
    treeCalls' = (treeCalls \ {c}) \cup {o \in {new} : o.by = "me" \/ ~TreeDecided(o)}
TreeAdvance(c, at) == Became(c, [c EXCEPT !.at = at])
_get_entity_as_parent(c) == c.parent \in DOMAIN entities /\ entities[c.parent].kind = "folder"
FilesIn(folder) == {n \in _subtree(entities, folder) : entities[n].kind = "file"}
_file_key(c) == FilesIn(c.id) \cap {c.id}
_file_keys_in_subtree(c) == FilesIn(c.id)
OldRow(c) == c.op \in {"rename", "move", "delete"}
RowPlace(c) ==         \* the folder and the name the row will have: one call changes one of them
    [parent |-> IF c.op = "rename" /\ c.id \in DOMAIN entities THEN entities[c.id].parent ELSE c.parent,
     name |-> IF c.op = "move" /\ c.id \in DOMAIN entities THEN entities[c.id].name ELSE c.name]
NameTaken(c) == c.op # "delete" /\ _sibling_exists(entities, RowPlace(c).parent, RowPlace(c).name, c.id)
Allowed(c) ==
    /\ OldRow(c) => c.id \in DOMAIN entities
    /\ c.op \in {"create", "upload", "move"} => _get_entity_as_parent(c)
    /\ c.op = "move" => ~is_descendant(entities, c.id, c.parent)
check_entity(c) ==
    /\ c.at = "asked"
    /\ Became(c, [c EXCEPT !.at = IF ~Allowed(c) THEN "failed" ELSE IF NameTaken(c) THEN "refused" ELSE "checked",
                           !.keys = IF c.op = "delete" THEN _file_keys_in_subtree(c) ELSE {},
                           !.seen = IF c.op = "delete" THEN FilesIn(c.id) ELSE {}])
    /\ UNCHANGED <<treeServer, behind>>

Needs(c) == IF c.op = "delete" THEN _subtree(entities, c.id) ELSE {c.id, RowPlace(c).parent}
RowLocked(c) ==        \* what is flushed keeps rows, names and the folder of a new row
    \E o \in treeCalls \ {c} : o.at = "flushed" /\
        LET dropped == IF o.op = "delete" THEN _subtree(entities, o.id) ELSE {}
        IN  \/ Needs(c) \cap dropped # {}
            \/ c.op = "delete" /\ o.op = "upload" /\ o.parent \in Needs(c)
            \/ c.op # "delete" /\ o.op = "upload" /\ RowPlace(c) = RowPlace(o)
            \/ c.op # "delete" /\ \E n \in dropped : entities[n].parent = RowPlace(c).parent /\ entities[n].name = RowPlace(c).name
RowThere(c) == c.op \in {"rename", "move"} => c.id \in DOMAIN entities
Holds(c) ==         \* the table's constraints: foreign keys, one name per folder
    ~NameTaken(c) /\ (c.op \in {"create", "upload", "move"} => c.parent \in DOMAIN entities)
Row(c) == [parent |-> c.parent, name |-> c.name, kind |-> c.kind]
Commit(c) == TreeAdvance(c, "done") /\ behind' = (behind \/ c.by # "me")
create_entity(c) ==
    /\ c.op = "create" /\ Commit(c)
    /\ entities' = (c.id :> Row(c)) @@ entities /\ UNCHANGED <<blobs, parted>>
rename_entity(c) ==
    /\ c.op = "rename" /\ Commit(c)
    /\ entities' = updateNode(entities, c.id, c.name) /\ UNCHANGED <<blobs, parted>>
move_entity(c) ==
    /\ c.op = "move" /\ Commit(c)
    /\ entities' = [entities EXCEPT ![c.id].parent = c.parent]
    /\ UNCHANGED <<blobs, parted>>
delete_rows(c) ==       \* and whatever hangs from the row, seen by nobody yet
    c.op = "delete" /\ TreeAdvance(c, "flushed") /\ UNCHANGED <<treeServer, behind>>
store_put(c) ==
    /\ c.op = "upload" /\ TreeAdvance(c, "flushed")
    /\ blobs' = blobs \cup {c.id} /\ UNCHANGED <<entities, parted, behind>>
write_entity(c) ==
    /\ c.at = "checked" /\ ~RowLocked(c)
    /\ \/ /\ RowThere(c) /\ Holds(c)
          /\ \/ create_entity(c) \/ rename_entity(c) \/ move_entity(c) \/ delete_rows(c) \/ store_put(c)
       \/ /\ ~(RowThere(c) /\ Holds(c)) /\ UNCHANGED <<treeServer, behind>>
          /\ TreeAdvance(c, IF RowThere(c) THEN "refused" ELSE "failed")
upload_file(c) ==
    /\ c.at = "flushed" /\ c.op = "upload" /\ Commit(c)
    /\ entities' = (c.id :> Row(c)) @@ entities /\ UNCHANGED <<blobs, parted>>
store_delete(c) ==      \* one object after the other
    /\ c.at = "flushed"
    /\ \E key \in c.keys : Became(c, [c EXCEPT !.keys = @ \ {key}]) /\ blobs' = blobs \ {key}
    /\ UNCHANGED <<entities, parted, behind>>
delete_entity(c) ==
    /\ c.at = "flushed" /\ c.op = "delete" /\ c.keys = {} /\ Commit(c)
    /\ entities' = removeNode(entities, c.id) /\ UNCHANGED blobs
    /\ parted' = parted \cup (FilesIn(c.id) \ c.seen) \cup (c.seen \cap DOMAIN entities')
TreeServer ==
    /\ \E c \in treeCalls : check_entity(c) \/ write_entity(c) \/ upload_file(c) \/ store_delete(c) \/ delete_entity(c)
    /\ UNCHANGED <<treeFetch, viewVars, panel, uploads, fileLeft, strayed>>
(* The request fails: its rows are rolled back.  An upload that fails in   *)
(* the route drops its bytes, one that fails at the commit does not; what  *)
(* a deletion dropped is gone.                                             *)
get_db_session ==
    /\ FileSpend("faults")
    /\ \E c \in treeCalls :
         /\ c.at \in {"checked", "flushed"} /\ TreeAdvance(c, "failed")
         /\ blobs' \in IF c.op = "upload" THEN {blobs, blobs \ {c.id}} ELSE {blobs}
         /\ parted' = parted \cup ((c.seen \cap DOMAIN entities) \ blobs) \cup ((blobs' \cap {c.id}) \ DOMAIN entities)
    /\ UNCHANGED <<entities, treeFetch, viewVars, panel, uploads, behind, strayed>>

TreeCall(op, id, parent, name, kind) ==
    [by |-> "me", op |-> op, id |-> id, parent |-> parent, name |-> name, kind |-> kind,
     prior |-> NoTree, item |-> 0, replace |-> FALSE, at |-> "asked", keys |-> {}, seen |-> {}]
OthersAsk ==        \* another member, through a panel of their own
    /\ FileSpend("others")
    /\ \E n \in DOMAIN entities, f \in DOMAIN entities, name \in Names :
         LET row == entities[n]
             Ask(c) == treeCalls' = treeCalls \cup {[c EXCEPT !.by = "ana"]}
             Fresh(op, kind) == FreeId # {} /\ Ask(TreeCall(op, AnyOf(FreeId), f, name, kind))
         IN  \/ "create" \in fileLeft.theirs /\ Fresh("create", "doc")
             \/ "upload" \in fileLeft.theirs /\ Fresh("upload", "file")
             \/ "rename" \in fileLeft.theirs /\ n # Root /\ Ask(TreeCall("rename", n, row.parent, name, row.kind))
             \/ "move" \in fileLeft.theirs /\ n # Root /\ entities[f].kind = "folder" /\ f # n
                /\ Ask(TreeCall("move", n, f, row.name, row.kind))
             \/ "delete" \in fileLeft.theirs /\ n # Root /\ Ask(TreeCall("delete", n, row.parent, row.name, row.kind))
    /\ UNCHANGED <<treeServer, treeFetch, viewVars, panel, uploads, behind, strayed>>

-----------------------------------------------------------------------------
(* The mutations: the tree changes at once, the server answers, the tree   *)
(* is read again; a refusal first puts back the tree of before.            *)

NoModal == panel.dialog = NoDialog /\ uploads.conflict = {}
OwnCalls == {c \in treeCalls : c.by = "me"}
TreeCallsOwn == {c \in OwnCalls : c.op # "upload"}
Optimistic(c, optimistic, shown) ==
    /\ FileSpend("own") /\ treeCalls' = treeCalls \cup {[c EXCEPT !.prior = fileTree]}
    /\ treeFetch' = [at |-> "none", got |-> NoTree]
    /\ Render(optimistic, chosen, shown) /\ UNCHANGED <<treeServer, uploads, behind>>
useCreateEntity(type, parent, name, shown) ==
    LET temp == AnyOf(TempIds \ DOMAIN fileTree)
        row == [parent |-> parent, name |-> name, kind |-> type, path |-> << >>]
    IN  /\ FreeId # {} /\ TempIds \ DOMAIN fileTree # {}
        /\ Optimistic(TreeCall("create", AnyOf(FreeId), parent, name, type), addChild(fileTree, temp, row), shown)
useRenameEntity(id, name, shown) ==
    Optimistic(TreeCall("rename", id, Root, name, "doc"), updateNode(fileTree, id, name), shown)
useMoveEntity(id, parent, shown) ==
    Optimistic(TreeCall("move", id, parent, 0, "doc"), reparent(fileTree, id, parent), shown)
useDeleteEntity(id, shown) ==
    Optimistic(TreeCall("delete", id, Root, 0, "doc"), removeNode(fileTree, id), shown)

treeSettled(refused) == invalidateTree
TreeAnswered ==
    /\ \E c \in TreeCallsOwn :
         /\ TreeDecided(c) /\ treeCalls' = treeCalls \ {c}
         /\ Render(IF c.at = "done" THEN fileTree ELSE c.prior, chosen, panel)
         /\ treeSettled(c.at # "done")
    /\ UNCHANGED <<treeServer, uploads, fileLeft, behind>>
(* The connection breaks: the server may still do what was asked.          *)
TreeCallLost ==
    /\ FileSpend("faults")
    /\ \E c \in TreeCallsOwn :
         /\ (c.at = "asked" /\ treeCalls' = treeCalls \ {c}) \/ Became(c, [c EXCEPT !.by = "ana"])
         /\ Render(c.prior, chosen, panel) /\ treeSettled(TRUE)
    /\ UNCHANGED <<treeServer, uploads, behind>>

-----------------------------------------------------------------------------
(* The rows.                                                               *)

ShownRows(n) == n \in ToSet(TreeRows)
toggleFolder(n) == [panel EXCEPT !.expanded = IF n \in @ THEN @ \ {n} ELSE @ \cup {n}]
expand(n) == [panel EXCEPT !.expanded = @ \cup {n}]
focusRow(n) == [panel EXCEPT !.focused = n]
select(n, shown) ==
    /\ Render(fileTree, IF n \in Folders THEN chosen ELSE Entity(fileTree, n), [shown EXCEPT !.selected = n])
    /\ UNCHANGED <<treeServer, treeCalls, treeFetch, uploads, behind>>
Pressed(n) == IF fileTree[n].kind = "folder" THEN Look(toggleFolder(n)) ELSE select(n, panel)
FolderToggle == May("look") /\ \E n \in Folders : ShownRows(n) /\ Look(toggleFolder(n))
FileTreeNode ==
    /\ May("select")
    /\ \E n \in ToSet(TreeRows) : select(n, panel) \/ Pressed(n)       \* a click, a double click
startRename(n) == [panel EXCEPT !.rename = [id |-> n, value |-> fileTree[n].name, typed |-> FALSE, moved |-> FALSE]]
requestDelete(n) == [panel EXCEPT !.dialog = [kind |-> "delete", at |-> n, type |-> fileTree[n].kind]]
openCreate(type, parent) ==
    [expand(parent) EXCEPT !.dialog = [kind |-> "create", at |-> parent, type |-> type]]

ParentRow(n) == IF fileTree[n].parent # Root THEN fileTree[n].parent ELSE n
useTreeKeyboard ==
    LET n == panel.focused
        folder == n \in Folders
        wrap(i) == TreeRows[((Focused + i - 1) % Len(TreeRows)) + 1]
    IN  /\ May("look") /\ panel.rename.id = Nothing /\ Focused # 0
        /\ \/ Look(focusRow(TreeRows[IF Focused < Len(TreeRows) THEN Focused + 1 ELSE Focused]))    \* down
           \/ Look(focusRow(TreeRows[IF Focused > 1 THEN Focused - 1 ELSE Focused]))            \* up
           \/ folder /\ n \notin panel.expanded /\ Look(expand(n))                          \* right
           \/ folder /\ n \in panel.expanded /\ Focused < Len(TreeRows) /\ Look(focusRow(TreeRows[Focused + 1]))
           \/ folder /\ n \in panel.expanded /\ Look(toggleFolder(n))                             \* left
           \/ ~(folder /\ n \in panel.expanded) /\ Look(focusRow(ParentRow(n)))
           \/ Pressed(n)                                                                   \* Enter
           \/ ~fileLeft.readOnly /\ Look(startRename(n))                                    \* F2
           \/ ~fileLeft.readOnly /\ Look(requestDelete(n))                                  \* Delete
           \/ Look(focusRow(Head(TreeRows))) \/ Look(focusRow(Last(TreeRows)))                      \* Home, End
           \/ \E name \in Names, i \in 1..Len(TreeRows) :                                        \* a letter
                 /\ fileTree[wrap(i)].name = name
                 /\ \A j \in 1..(i - 1) : fileTree[wrap(j)].name # name
                 /\ Look(focusRow(wrap(i)))
onMenuAction ==     \* a row's menu, and the label's double click
    /\ ~fileLeft.readOnly
    /\ \E n \in ToSet(TreeRows) :
         \/ May("rename") /\ Look(startRename(n))
         \/ May("delete") /\ Look(requestDelete(n))
         \/ May("create") /\ n \in Folders /\ \E type \in {"doc", "folder"} : Look(openCreate(type, n))
FileTreeToolbar ==
    /\ ~fileLeft.readOnly /\ Loaded /\ May("create")
    /\ \E type \in {"doc", "folder"} : Look(openCreate(type, resolveParentFolder))
RowGesture ==
    /\ NoModal /\ FileSpend("looks")
    /\ FolderToggle \/ FileTreeNode \/ useTreeKeyboard \/ onMenuAction \/ FileTreeToolbar

InlineRenameInput ==
    /\ FileSpend("looks") /\ ShownRows(panel.rename.id)
    /\ \E name \in Names : Look([panel EXCEPT !.rename.value = name, !.rename.typed = TRUE])
RenameNeeded(r) == fileTree[r.id].name # r.value
commitRename ==     \* Enter, or the focus leaves the input
    LET r == panel.rename
        closed == [panel EXCEPT !.rename = NoRename]
    IN  /\ ShownRows(r.id) /\ May("rename")
        /\ \/ ~fileLeft.readOnly /\ RenameNeeded(r) /\ useRenameEntity(r.id, r.value, closed)
           \/ (fileLeft.readOnly \/ ~RenameNeeded(r)) /\ Look(closed) /\ UNCHANGED fileLeft
onCancelRename ==
    /\ ShownRows(panel.rename.id) /\ Look([panel EXCEPT !.rename = NoRename]) /\ UNCHANGED fileLeft

CreateEntityDialog ==
    /\ panel.dialog.kind = "create" /\ May("create")
    /\ \E name \in Names : useCreateEntity(panel.dialog.type, panel.dialog.at, name, [panel EXCEPT !.dialog = NoDialog])
DeleteEntityDialog ==
    LET n == panel.dialog.at
    IN  /\ panel.dialog.kind = "delete" /\ May("delete")
        /\ useDeleteEntity(n, [panel EXCEPT !.dialog = NoDialog,
                                            !.selected = IF @ = n THEN Nothing ELSE @])
closeTreeDialog == panel.dialog # NoDialog /\ Look([panel EXCEPT !.dialog = NoDialog]) /\ UNCHANGED fileLeft

CanMove(n, parent) ==
    /\ ~fileLeft.readOnly /\ n # parent /\ ~is_descendant(fileTree, n, parent)
    /\ n \in DOMAIN fileTree => fileTree[n].parent # parent
(* The row is picked up, the tree may be read again, and it is dropped on  *)
(* a folder or beside the rows; "Move to root" needs no dragging.          *)
onDragStart ==
    /\ NoModal /\ May("move") /\ FileSpend("looks") /\ panel.rename.id = Nothing
    /\ \E n \in ToSet(TreeRows) : Look([panel EXCEPT !.dragging = n])
useTreeDrag ==
    /\ panel.dragging # Nothing
    /\ \E parent \in {Root} \cup {n \in Folders : ShownRows(n)} :
         LET dropped == [panel EXCEPT !.dragging = Nothing]
         IN  \/ CanMove(panel.dragging, parent)
                /\ useMoveEntity(panel.dragging, parent, [dropped EXCEPT !.expanded = @ \cup {parent}])
             \/ ~CanMove(panel.dragging, parent) /\ Look(dropped) /\ UNCHANGED fileLeft
NodeMenuItems ==    \* Move to root
    /\ NoModal /\ May("move")
    /\ \E n \in ToSet(TreeRows) :
         fileTree[n].parent # Root /\ CanMove(n, Root) /\ useMoveEntity(n, Root, expand(Root))

-----------------------------------------------------------------------------
(* Uploads.                                                                *)

UploadVars == <<entities, parted, blobs, viewVars, panel, behind, strayed>>
UploadItem(name, parent, id) == [name |-> name, parent |-> parent, id |-> id, at |-> "uploading"]
runUpload(name, parent, replace, rest) ==
    LET id == AnyOf(FreeId)
    IN  /\ FreeId # {}
        /\ uploads' = [rest EXCEPT !.list = Append(@, UploadItem(name, parent, id))]
        /\ treeCalls' = treeCalls \cup
               {[TreeCall("upload", id, parent, name, "file") EXCEPT
                   !.item = Len(uploads.list) + 1, !.replace = replace]}
onFilesPicked ==    \* the chooser of a folder's menu, of the toolbar, of the empty tree
    /\ NoModal /\ May("upload") /\ ~fileLeft.readOnly /\ Loaded /\ FileSpend("own")
    /\ uploads.batch = << >> /\ ~\E c \in OwnCalls : c.op = "upload"
    /\ \E parent \in Folders, files \in {f \in SetToSeqs(Names) : f # << >>} :
         uploads' = [uploads EXCEPT !.batch = files, !.parent = parent, !.picked = @ \cup ToSet(files)]
    /\ UNCHANGED <<UploadVars, treeCalls, treeFetch>>
useUploads ==       \* one file of the batch after the other
    /\ uploads.batch # << >> /\ ~\E c \in OwnCalls : c.op = "upload" /\ ~c.replace
    /\ runUpload(Head(uploads.batch), uploads.parent, FALSE, [uploads EXCEPT !.batch = Tail(@)])
    /\ UNCHANGED <<UploadVars, treeFetch, fileLeft>>
MarkNone(c, at) == uploads
Mark(c, at) == [uploads EXCEPT !.list[c.item].at = at]
UploadAnswered ==
    /\ \E c \in OwnCalls :
         /\ c.op = "upload" /\ treeCalls' = treeCalls \ {c}
         /\ \/ /\ c.at = "done" /\ uploads' = Mark(c, "done") /\ invalidateTree
            \/ /\ c.at = "failed" \/ (c.at = "refused" /\ c.replace)     \* the batch goes on
               /\ uploads' = Mark(c, "error") /\ UNCHANGED treeFetch
            \/ /\ c.at = "refused" /\ ~c.replace /\ UNCHANGED treeFetch    \* it stops, to ask
               /\ uploads' = [Mark(c, "error") EXCEPT !.batch = << >>, !.cut = @ \cup ToSet(uploads.batch),
                                                      !.conflict = {c.name}]
    /\ UNCHANGED <<UploadVars, fileLeft>>
UploadLost ==
    /\ FileSpend("faults")
    /\ \E c \in OwnCalls :
         /\ c.op = "upload" /\ uploads' = Mark(c, "error")
         /\ (c.at = "asked" /\ treeCalls' = treeCalls \ {c}) \/ Became(c, [c EXCEPT !.by = "ana"])
         /\ behind' = (behind \/ c.at = "done")
    /\ UNCHANGED <<entities, parted, blobs, viewVars, panel, strayed, treeFetch>>
UploadConflictDialog ==
    /\ uploads.conflict # {}
    /\ \/ uploads' = [uploads EXCEPT !.conflict = {}] /\ UNCHANGED treeCalls
       \/ runUpload(AnyOf(uploads.conflict), uploads.parent, TRUE, [uploads EXCEPT !.conflict = {}])
    /\ UNCHANGED <<UploadVars, treeFetch, fileLeft>>
UploadList ==       \* a finished row is dismissed
    /\ \E i \in DOMAIN uploads.list :
         /\ uploads.list[i].at \in {"done", "error"}
         /\ uploads' = [uploads EXCEPT !.list[i].at = "dismissed"]
    /\ FileSpend("looks") /\ UNCHANGED <<UploadVars, treeCalls, treeFetch>>

-----------------------------------------------------------------------------
TreeAtRest == Loaded /\ treeFetch.at = "none" /\ OwnCalls = {} /\ uploads.batch = << >> /\ ~behind
FileStep ==         \* what happens by itself
    get_tree \/ useProjectTree \/ TreeServer \/ TreeAnswered \/ UploadAnswered \/ useUploads
fileNext ==
    \/ FileStep \/ getTree \/ FileTreeBody \/ get_db_session \/ OthersAsk \/ TreeCallLost \/ UploadLost
    \/ RowGesture \/ InlineRenameInput \/ commitRename \/ onCancelRename
    \/ CreateEntityDialog \/ DeleteEntityDialog \/ closeTreeDialog
    \/ onDragStart \/ useTreeDrag \/ NodeMenuItems
    \/ onFilesPicked \/ UploadConflictDialog \/ UploadList
fileInit ==
    /\ entities = FirstTree /\ blobs = {n \in DOMAIN FirstTree : FirstTree[n].kind = "file"}
    /\ treeCalls = {} /\ treeFetch = [at |-> "asked", got |-> NoTree]
    /\ fileTree = NoTree /\ chosen = Unselected /\ knownIds = {} /\ opened = Unselected
    /\ panel = [expanded |-> {}, focused |-> Nothing, selected |-> Nothing, rename |-> NoRename,
                dragging |-> Nothing, dialog |-> NoDialog, started |-> FALSE]
    /\ uploads = [list |-> << >>, batch |-> << >>, parent |-> Root, conflict |-> {}, picked |-> {}, cut |-> {}]
    /\ fileLeft \in FileStories
    /\ behind = FALSE /\ strayed = FALSE /\ parted = {}

-----------------------------------------------------------------------------
fileTypeOK ==
    /\ DOMAIN entities \subseteq DOMAIN FirstTree \cup NewIds /\ blobs \subseteq DOMAIN FirstTree \cup NewIds
    /\ treeFetch.at \in {"none", "asked", "read", "failed"}
    /\ Loaded => _subtree(fileTree, Root) = DOMAIN fileTree
    /\ panel.focused \in DOMAIN FirstTree \cup NewIds \cup TempIds \cup {Nothing} /\ panel.focused # Root
    /\ \A c \in treeCalls : c.by \in {"me", "ana"} /\ c.at \in {"asked", "checked", "flushed", "done", "refused", "failed"}

(* However optimistic changes, refusals, lost answers and fetches overlap, *)
(* the panel ends up with the server's tree (use-file-tree.ts).            *)
TreeConverges == TreeAtRest => fileTree = build_tree(entities)

(* The selected file is one the project has, at the path it has there,     *)
(* after any rename, move or deletion (selection-follows-tree.ts).         *)
SelectionTrue ==
    TreeAtRest /\ chosen # Unselected =>
        chosen.id \in DOMAIN entities /\ chosen.path = compute_path(entities, chosen.id)

(* Every file has its bytes, and bytes belong to a file: but while the     *)
(* deletion drops them or the upload has them stored and not yet a row, and *)
(* but for files parted from their bytes: by a deletion or an upload that  *)
(* failed at its commit, and by a move or an upload that crossed the       *)
(* collection of the keys (files.py upload_file, service.py delete_entity). *)
BlobsMatch ==
    LET Flushed(op) == {c \in treeCalls : c.op = op /\ c.at = "flushed"}
    IN  /\ \A n \in DOMAIN entities : entities[n].kind = "file" =>
              n \in blobs \cup parted \/ \E c \in Flushed("delete") : n \in c.seen
        /\ blobs \subseteq DOMAIN entities \cup parted \cup {c.id : c \in Flushed("upload")}

(* Of the files picked none is forgotten: each was uploaded, failed with a *)
(* row saying so, or was dropped when an earlier one conflicted.           *)
UploadsTold ==
    uploads.batch = << >> /\ ~(\E c \in OwnCalls : c.op = "upload") =>
        \A name \in uploads.picked : name \in uploads.cut \/
            \E i \in DOMAIN uploads.list : uploads.list[i].name = name /\ uploads.list[i].at # "uploading"

(* The rows can be reached by keyboard, but for a focused row that was     *)
(* taken off the screen (use-roving-rows.ts, use-tree-keyboard.ts).        *)
RowInReach == TreeRows # << >> => strayed \/ panel.focused \in ToSet(TreeRows)

(* A rename sends a name somebody typed: an input left alone sends none,   *)
(* unless the file was renamed under it (file-tree-node.tsx).              *)
RenamesTyped ==
    [][\A c \in treeCalls' \ treeCalls :
           c.by = "me" /\ c.op = "rename" /\ c.at = "asked" => panel.rename.typed \/ panel.rename.moved]_fileVars

(* A viewer changes nothing, by no menu, key, drag or input.               *)
ViewerSendsNothing == fileLeft.readOnly => OwnCalls = {} /\ uploads.batch = << >>

(* A change is on its way.  That must end with the server's answer and a   *)
(* tree read after it.                                                     *)
TreeOpen == OwnCalls # {} \/ treeFetch.at \notin {"none", "failed"}

=============================================================================
