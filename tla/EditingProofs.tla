-------------------------- MODULE EditingProofs -------------------------------
(***************************************************************************)
(* Proofs about EditorScreen: that what was typed is kept, that "saved" is *)
(* true, that no save replaces a text unseen, that the document picked is  *)
(* not taken away, that a quote names its file and that the outline can be *)
(* reached.                                                                *)
(*                                                                         *)
(* The invariant `ScreenInv' says, beside the types, that the pane, the    *)
(* cache, the autosave, the saves on their way and the contents the person *)
(* has seen agree with the server (`DeskInv', `SaveInv', `SeenInv'), and   *)
(* where the text a person leaves behind still is (`EditsInv').            *)
(*                                                                         *)
(* About Spellcheck: that the marks of a document at rest are its          *)
(* misspelled words, and that the personal dictionary shown becomes the    *)
(* server's.  The invariant `SpellInv' says what verdicts mean, that the   *)
(* last check asked has marked what it is to mark or still waits, and that *)
(* the list shown is the server's or is about to be read.                  *)
(***************************************************************************)
EXTENDS EditorScreen, Spellcheck, TLAPS

-----------------------------------------------------------------------------
(* The types *)

Doc0 == Doc \cup {NoDoc}
Contents == Doc0 \X Nat
Data == [version : Nat, text : Contents]
Views == [doc : Doc0, line : Nat, synced : BOOLEAN, text : Contents, astray : BOOLEAN]
Statuses == {"clean", "dirty", "saving", "error", "offline", "conflict"}
Saves == [doc : Doc0, base : Nat, server : Contents, local : Contents, shown : Contents, status : Statuses,
          retries : Nat, conflict : Data]
Results == [doc : Doc0, data : Data]
Places == [doc : Doc0, line : Nat]
Troubles == {"none", "error", "gone"}
Desks == [selected : Doc0 \cup {BinaryFile}, openDoc : Doc0, started : BOOLEAN, tree : BOOLEAN, project : BOOLEAN,
          open : Doc0, loaded : Doc0, cache : [Doc -> Data], trouble : [Doc -> Troubles], fetching : SUBSET Doc,
          last : Doc0, held : Results, out : BOOLEAN, seeded : BOOLEAN, view : Views, reveal : Places,
          lookups : SUBSET Doc0, marked : Doc0, save : Saves, debounce : BOOLEAN, retry : BOOLEAN, left : BOOLEAN,
          blocked : BOOLEAN]
Answers == {"none", "saved", "conflict", "lost"}
Puts == [doc : Doc0, text : Contents, base : Nat, answer : Answers, now : Data]
Goodbyes == [doc : Doc, text : Contents, base : Nat]
Sides == [drawer : BOOLEAN, tab : {"files", "outline", "search"}, view : {"content", "preview"}, agent : BOOLEAN,
          rows : Nat, current : Nat, focus : Nat, shrunk : BOOLEAN, quote : [path : Doc0, text : Doc0]]
Stories == [mode : {"rest", "collab"}, alike : BOOLEAN, edits : Nat, undos : Nat, others : Nat, losses : Nat,
            outages : Nat, switches : Nat, jumps : Nat, panels : Nat, leaves : Nat]

TypeInv ==
    /\ desk \in Desks /\ ~desk.out /\ ~desk.seeded
    /\ put \in Puts /\ farewells \subseteq Goodbyes /\ sidebars \in Sides /\ online \in BOOLEAN
    /\ sidebars.current \in 0..sidebars.rows
    /\ serverDocs \in [Doc -> Data] /\ \A d \in Doc : serverDocs[d].version > 0
    /\ saveCrossed \in BOOLEAN /\ saveOverlapped \in BOOLEAN /\ stale \in BOOLEAN
    /\ known \subseteq Doc \X Data /\ dropped \subseteq Contents /\ surrendered \subseteq Contents
    /\ latest \in [Doc -> Contents]
    /\ screenLeft \in Stories

\* What the pane's query holds is what the server had at that version.
Fits(x, d) == x.version <= serverDocs[d].version /\ (x.version = serverDocs[d].version => x = serverDocs[d])
DataFits(d) ==
    /\ \A x \in Doc : Fits(d.cache[x], x)
    /\ d.held.doc # NoDoc => Fits(d.held.data, d.held.doc)

\* The autosave holds the document last seeded, and a REST view shows it.
Seeded(d) == d.loaded # NoDoc => d.save.doc = d.loaded
RestOK(d) ==
    RestMode => \/ d.view = PaneUnmounted
                \/ d.view.doc = d.loaded /\ d.loaded # NoDoc /\ (~d.view.astray => d.view.text = d.save.local)
\* A live view holds the open document, and what is selected is in it.
LiveOK(d) == ~RestMode => d.view.doc = d.open /\ d.marked \in {NoDoc, d.view.doc}
OpenOK(d) == d.open # NoDoc => d.openDoc = d.open
DeskOK(d) == d \in Desks /\ DataFits(d) /\ Seeded(d) /\ RestOK(d) /\ LiveOK(d) /\ OpenOK(d)
DeskInv == DeskOK(desk) /\ QuoteTrue

SaveInv ==
    /\ (desk.save.status = "conflict") <=> (desk.save.conflict # NoData)
    /\ desk.save.status = "conflict" => put = NoPut
    /\ desk.save.status = "clean" => desk.save.local = desk.save.server
    /\ put = NoPut \/ put.doc \in Doc
    /\ put.answer \in {"saved", "conflict"} => put.doc \in Doc /\ Fits(put.now, put.doc) /\ put.now.version > 0
    /\ put.answer = "saved" => put.now.text = put.text /\ <<put.doc, put.now>> \in known
    /\ \A k \in known : Fits(k[2], k[1])

\* Every save starts from a content the person wrote or was shown.
SeenAt(d, base) == \E k \in known : k[1] = d /\ k[2].version = base
SeenInv ==
    ~saveCrossed =>
    /\ desk.save.doc # NoDoc => <<desk.save.doc, [version |-> desk.save.base, text |-> desk.save.server]>> \in known
    /\ desk.save.conflict # NoData => desk.save.doc # NoDoc /\ <<desk.save.doc, desk.save.conflict>> \in known
    /\ put # NoPut => SeenAt(put.doc, put.base)
    /\ \A p \in farewells : SeenAt(p.doc, p.base)

\* Where a text can be that is no longer in the pane.
Safe(t) == Reached(t) \/ t \in surrendered \cup dropped
Calm == ~saveCrossed /\ ~saveOverlapped /\ ~stale
Away(d) == d.left \/ d.loaded = NoDoc
LeftKept == desk.save.doc # NoDoc /\ Away(desk) => Safe(desk.save.local) \/ \E p \in farewells : p.text = desk.save.local
FarewellOK(p) ==
    /\ p.doc = desk.save.doc => Away(desk) /\ (desk.save.local = p.text \/ Safe(p.text))
    /\ p.doc = put.doc => put.text = p.text \/ Safe(p.text)
    /\ \A q \in farewells : q.doc = p.doc => q = p
    /\ Safe(p.text) \/ serverDocs[p.doc].version = p.base \/ serverDocs[p.doc].text = <<p.doc, 1>>
EditsInv == Calm => (\A d \in Doc : Held(d)) /\ LeftKept /\ \A p \in farewells : FarewellOK(p)

ScreenInv == TypeInv /\ DeskInv /\ SaveInv /\ SeenInv /\ EditsInv /\ OutlineReachable

-----------------------------------------------------------------------------
(* The functions the pane is made of *)

\* Neither no document nor a binary file is a document.
LEMMA DocFacts == NoDoc \notin Doc /\ BinaryFile \notin Doc /\ NoDoc # BinaryFile /\ RootDoc \in Doc
  BY ScreenAssumption DEF NoDoc, BinaryFile

\* The values things start with have their types.
LEMMA StartValues ==
    /\ NoDoc \in Doc0 /\ Blank \in Contents /\ NoData \in Data /\ NoData.version = 0
    /\ PaneUnmounted \in Views /\ PaneUnmounted.doc = NoDoc /\ PaneUnmounted.synced = FALSE
    /\ EMPTY \in Saves /\ EMPTY.doc = NoDoc /\ EMPTY.status = "clean" /\ EMPTY.conflict = NoData
    /\ EMPTY.local = Blank /\ EMPTY.server = Blank
    /\ NoResult \in Results /\ NoResult.doc = NoDoc
    /\ NoPut \in Puts /\ NoPut.doc = NoDoc /\ NoPut.answer = "none"
    /\ Nowhere \in Places
<1>1. NoDoc \in Doc0 /\ Blank \in Contents
  BY DEF Doc0, Blank, Contents
<1>2. NoData \in Data /\ NoData.version = 0
  BY <1>1 DEF NoData, Data
<1>3. PaneUnmounted \in Views /\ PaneUnmounted.doc = NoDoc /\ PaneUnmounted.synced = FALSE
  BY <1>1 DEF PaneUnmounted, Views
<1>4. /\ EMPTY \in Saves /\ EMPTY.doc = NoDoc /\ EMPTY.status = "clean" /\ EMPTY.conflict = NoData
      /\ EMPTY.local = Blank /\ EMPTY.server = Blank
  BY <1>1, <1>2 DEF EMPTY, Saves, Statuses
<1>5. NoResult \in Results /\ NoResult.doc = NoDoc
  BY <1>1, <1>2 DEF NoResult, Results
<1>6. NoPut \in Puts /\ NoPut.doc = NoDoc /\ NoPut.answer = "none"
  BY <1>1, <1>2 DEF NoPut, Puts, Answers
<1>7. Nowhere \in Places
  BY <1>1 DEF Nowhere, Places
<1> QED
  BY <1>1, <1>2, <1>3, <1>4, <1>5, <1>6, <1>7

\* What a desk keeps when only its fetches, its view or its queries change.
SameSave(d, e) ==
    e.loaded = d.loaded /\ e.save = d.save /\ e.out = d.out /\ e.seeded = d.seeded /\ e.left = d.left
SamePick(d, e) ==
    /\ e.selected = d.selected /\ e.openDoc = d.openDoc /\ e.open = d.open
    /\ e.tree = d.tree /\ e.project = d.project

\* A fetch changes nothing but itself and the error of what it fetches.
LEMMA FetchFacts ==
    ASSUME NEW d \in Desks, NEW docs \in SUBSET Doc
    PROVE  /\ Fetch(d, docs) \in Desks /\ SameSave(d, Fetch(d, docs)) /\ SamePick(d, Fetch(d, docs))
           /\ Fetch(d, docs).cache = d.cache /\ Fetch(d, docs).held = d.held /\ Fetch(d, docs).last = d.last
           /\ Fetch(d, docs).view = d.view /\ Fetch(d, docs).marked = d.marked
<1> DEFINE t == [x \in Doc |-> IF x \in docs /\ d.cache[x] = NoData THEN "none" ELSE d.trouble[x]]
           f == d.fetching \cup docs
<1>1. t \in [Doc -> Troubles] /\ f \in SUBSET Doc
  BY DEF Desks, Troubles
<1>2. Fetch(d, docs) = [d EXCEPT !.fetching = f, !.trouble = t]
  BY DEF Fetch
<1> HIDE DEF t, f
<1> QED
  BY <1>1, <1>2, ZenonT(60) DEF Desks, SameSave, SamePick

\* What the query gives is a document's data as the server once had it.
LEMMA ResultFacts ==
    ASSUME NEW d \in Desks, DataFits(d)
    PROVE  /\ Result(d) \in Results /\ (Result(d).doc # NoDoc => Fits(Result(d).data, Result(d).doc))
           /\ (Failed(d) /\ ~Cached(d) => Result(d).doc = NoDoc)
<1>1. d.open \in Doc0 /\ d.last \in Doc0 /\ d.held \in Results /\ d.cache \in [Doc -> Data]
  BY DEF Desks
<1>2. CASE Cached(d)
  <2>1. d.open \in Doc
    BY <1>1, <1>2 DEF Cached, Doc0
  <2>2. Result(d) = [doc |-> d.open, data |-> d.cache[d.open]]
    BY <1>2 DEF Result
  <2> QED
    BY <1>1, <1>2, <2>1, <2>2 DEF DataFits, Results
<1>3. CASE ~Cached(d) /\ Failed(d)
  BY <1>3, StartValues DEF Result
<1>4. CASE ~Cached(d) /\ ~Failed(d)
  <2>1. Result(d) = keepPreviousData(d)
    BY <1>4 DEF Result
  <2>2. CASE d.held # NoResult
    BY <1>1, <1>4, <2>1, <2>2 DEF keepPreviousData, DataFits
  <2>3. CASE d.held = NoResult /\ d.last = NoDoc
    BY <1>4, <2>1, <2>3, StartValues DEF keepPreviousData
  <2>4. CASE d.held = NoResult /\ d.last # NoDoc
    <3>1. d.last \in Doc /\ Result(d) = [doc |-> d.last, data |-> d.cache[d.last]]
      BY <1>1, <2>1, <2>4 DEF keepPreviousData, Doc0
    <3> QED
      BY <1>1, <1>4, <3>1 DEF DataFits, Results
  <2> QED
    BY <2>2, <2>3, <2>4
<1> QED
  BY <1>2, <1>3, <1>4

\* Drawing the REST view puts it up, takes it away or leaves it.
LEMMA ViewFacts ==
    ASSUME NEW d \in Desks, NEW there \in BOOLEAN
    PROVE  LET e == CodeMirrorEditor(d, there)
           IN  /\ e \in Desks /\ SameSave(d, e) /\ SamePick(d, e)
               /\ e.cache = d.cache /\ e.held = d.held /\ e.last = d.last
               /\ (~there => e.view = PaneUnmounted)
               /\ (there => e.view = d.view \/ (e.view.doc = d.loaded /\ (~e.view.astray => d.save.shown = d.save.local)
                                               /\ e.view.text = d.save.shown))
<1>1. CASE ~there
  <2>1. CodeMirrorEditor(d, there) = [d EXCEPT !.view = PaneUnmounted, !.marked = NoDoc]
    BY <1>1 DEF CodeMirrorEditor
  <2> QED
    BY <1>1, <2>1, StartValues, ZenonT(60) DEF Desks, SameSave, SamePick
<1>2. CASE there /\ d.view # PaneUnmounted
  BY <1>2 DEF CodeMirrorEditor, SameSave, SamePick
<1>3. CASE there /\ d.view = PaneUnmounted
  <2>0. PICK b \in BOOLEAN : b <=> d.save.shown # d.save.local
    BY Zenon
  <2> DEFINE v == [doc |-> d.loaded, line |-> 0, synced |-> TRUE, text |-> d.save.shown, astray |-> b]
  <2>1. CodeMirrorEditor(d, there) = [d EXCEPT !.view = v]
    BY <1>3, <2>0 DEF CodeMirrorEditor
  <2>2. v \in Views /\ v.doc = d.loaded /\ v.text = d.save.shown /\ v.astray = b
    BY DEF Views, Desks, Saves
  <2> HIDE DEF v
  <2> QED
    BY <1>3, <2>0, <2>1, <2>2, ZenonT(60) DEF Desks, SameSave, SamePick
<1> QED
  BY <1>1, <1>2, <1>3

\* A save that has just been seeded with what the server once had.
Fresh(s) ==
    /\ s.doc \in Doc /\ s.local = s.server /\ s.shown = s.server /\ s.status = "clean" /\ s.conflict = NoData
    /\ Fits([version |-> s.base, text |-> s.server], s.doc)

\* Seeding takes the data of the query's result.
LEMMA SeedFacts ==
    ASSUME NEW d \in Desks, NEW r \in Results, r.doc # NoDoc, Fits(r.data, r.doc)
    PROVE  LET e == seed(d, r)
           IN  /\ e \in Desks /\ SamePick(d, e) /\ e.left = d.left /\ e.out = d.out
               /\ e.cache = d.cache /\ e.held = d.held /\ e.last = d.last /\ e.view = d.view /\ e.marked = d.marked
               /\ e.loaded = r.doc /\ e.seeded /\ Fresh(e.save) /\ e.save.doc = r.doc
<1> DEFINE s == [EMPTY EXCEPT !.doc = r.doc, !.base = r.data.version, !.server = r.data.text,
                              !.local = r.data.text, !.shown = r.data.text]
<1>1. /\ s \in Saves /\ s.doc = r.doc /\ s.base = r.data.version /\ s.server = r.data.text
      /\ s.local = r.data.text /\ s.shown = r.data.text /\ s.status = "clean" /\ s.conflict = NoData
  BY StartValues DEF Results, Data, Saves
<1>2. seed(d, r) = [d EXCEPT !.loaded = r.doc, !.seeded = TRUE, !.save = s]
  BY DEF seed
<1>3. Fresh(s)
  <2>1. r.doc \in Doc /\ r.data = [version |-> s.base, text |-> s.server]
    BY <1>1 DEF Results, Data, Doc0
  <2> QED
    BY <1>1, <2>1 DEF Fresh
<1>4. r.doc \in Doc0
  BY DEF Results
<1> HIDE DEF s
<1> DEFINE e == seed(d, r)
<1>5. e \in Desks
  BY <1>1, <1>2, <1>4, ZenonT(60) DEF Desks
<1>6. SamePick(d, e) /\ e.left = d.left /\ e.out = d.out
  BY <1>2 DEF Desks, SamePick
<1>7. e.cache = d.cache /\ e.held = d.held /\ e.last = d.last /\ e.view = d.view /\ e.marked = d.marked
  BY <1>2 DEF Desks
<1>8. e.loaded = r.doc /\ e.seeded /\ e.save = s
  BY <1>2 DEF Desks
<1> HIDE DEF e
<1> QED
  BY <1>1, <1>3, <1>5, <1>6, <1>7, <1>8 DEF e

\* Moving the view to a line changes nothing else.
LEMMA RevealFacts ==
    ASSUME NEW d \in Desks, NEW n \in Nat
    PROVE  /\ [d EXCEPT !.view.line = n] \in Desks
           /\ SameSave(d, [d EXCEPT !.view.line = n]) /\ SamePick(d, [d EXCEPT !.view.line = n])
           /\ [d EXCEPT !.view.line = n].cache = d.cache /\ [d EXCEPT !.view.line = n].held = d.held
           /\ [d EXCEPT !.view.line = n].last = d.last /\ [d EXCEPT !.view.line = n].marked = d.marked
           /\ [d EXCEPT !.view.line = n].view.doc = d.view.doc
           /\ [d EXCEPT !.view.line = n].view.text = d.view.text
           /\ [d EXCEPT !.view.line = n].view.astray = d.view.astray
<1> DEFINE v == [d.view EXCEPT !.line = n]
<1>0. d.view \in Views
  BY DEF Desks
<1>1. v \in Views /\ v.doc = d.view.doc /\ v.text = d.view.text /\ v.astray = d.view.astray
  BY <1>0 DEF Views
<1>2. [d EXCEPT !.view.line = n] = [d EXCEPT !.view = v]
  BY DEF Desks
<1> HIDE DEF v
<1> QED
  BY <1>1, <1>2 DEF Desks, SameSave, SamePick

\* A jump that waited is shown where the view is, which changes nothing else.
LEMMA LoadedFacts ==
    ASSUME NEW d \in Desks
    PROVE  LET e == handleDocumentLoaded(d)
           IN  /\ e \in Desks /\ SameSave(d, e) /\ SamePick(d, e)
               /\ e.cache = d.cache /\ e.held = d.held /\ e.last = d.last /\ e.marked = d.marked
               /\ e.view.doc = d.view.doc /\ e.view.text = d.view.text /\ e.view.astray = d.view.astray
<1>1. CASE d.reveal.doc = d.open /\ d.view # PaneUnmounted
  <2> DEFINE n == IF d.view.synced THEN d.reveal.line ELSE 0
             f == [d EXCEPT !.view.line = n]
  <2>1. n \in Nat
    BY DEF Desks, Places
  <2>2. handleDocumentLoaded(d) = [f EXCEPT !.reveal = Nowhere]
    BY <1>1 DEF handleDocumentLoaded, Desks
  <2> HIDE DEF n
  <2>3. f \in Desks /\ SameSave(d, f) /\ SamePick(d, f)
    BY <2>1, RevealFacts
  <2>4. /\ f.cache = d.cache /\ f.held = d.held /\ f.last = d.last /\ f.marked = d.marked
        /\ f.view.doc = d.view.doc /\ f.view.text = d.view.text /\ f.view.astray = d.view.astray
    BY <2>1, RevealFacts
  <2> HIDE DEF f
  <2>5. /\ [f EXCEPT !.reveal = Nowhere] \in Desks
        /\ SameSave(f, [f EXCEPT !.reveal = Nowhere]) /\ SamePick(f, [f EXCEPT !.reveal = Nowhere])
        /\ [f EXCEPT !.reveal = Nowhere].view = f.view /\ [f EXCEPT !.reveal = Nowhere].cache = f.cache
        /\ [f EXCEPT !.reveal = Nowhere].held = f.held /\ [f EXCEPT !.reveal = Nowhere].last = f.last
        /\ [f EXCEPT !.reveal = Nowhere].marked = f.marked
    BY <2>3, StartValues DEF Desks, SameSave, SamePick
  <2> QED
    BY <2>2, <2>3, <2>4, <2>5 DEF SameSave, SamePick
<1>2. CASE ~(d.reveal.doc = d.open /\ d.view # PaneUnmounted)
  BY <1>2 DEF handleDocumentLoaded, SameSave, SamePick
<1> QED
  BY <1>1, <1>2

\* Where there is a REST view, swapping makes it the loaded document's, showing the text to show unless it is astray.
LEMMA SwapFacts ==
    ASSUME NEW d \in Desks, NEW before
    PROVE  LET e == swapText(d, before)
           IN  /\ e \in Desks /\ SameSave(d, e) /\ SamePick(d, e)
               /\ e.cache = d.cache /\ e.held = d.held /\ e.last = d.last /\ e.marked = d.marked
               /\ (RestMode => \/ e.view = PaneUnmounted
                               \/ e.view.doc = d.loaded /\ (~e.view.astray => e.view.text = d.save.shown))
               /\ (~RestMode => e.view = d.view)
<1>1. CASE ~RestMode \/ d.view = PaneUnmounted
  BY <1>1 DEF swapText, SameSave, SamePick
<1>2. CASE ~(~RestMode \/ d.view = PaneUnmounted) /\ d.save.shown \in {before, d.view.text}
  <2>0. PICK b \in BOOLEAN : b <=> d.view.text # d.save.shown
    BY Zenon
  <2> DEFINE v == [d.view EXCEPT !.doc = d.loaded, !.astray = b]
  <2>1. d.view \in Views /\ d.loaded \in Doc0
    BY DEF Desks
  <2>2. v \in Views /\ v.doc = d.loaded /\ v.astray = b /\ v.text = d.view.text
    BY <2>1 DEF Views
  <2>3. swapText(d, before) = [d EXCEPT !.view = v]
    <3>1. swapText(d, before) = [d EXCEPT !.view.doc = d.loaded, !.view.astray = d.view.text # d.save.shown]
      BY <1>2 DEF swapText
    <3>2. (d.view.text # d.save.shown) = b
      BY <2>0
    <3> QED
      BY <3>1, <3>2 DEF Desks
  <2> HIDE DEF v
  <2> QED
    BY <1>2, <2>0, <2>2, <2>3 DEF Desks, SameSave, SamePick
<1>3. CASE ~(~RestMode \/ d.view = PaneUnmounted) /\ d.save.shown \notin {before, d.view.text}
  <2> DEFINE v == [doc |-> d.loaded, line |-> 0, synced |-> TRUE, text |-> d.save.shown, astray |-> FALSE]
  <2>1. v \in Views /\ v.doc = d.loaded /\ v.text = d.save.shown
    BY DEF Views, Desks, Saves
  <2>2. swapText(d, before) = [d EXCEPT !.view = v]
    BY <1>3 DEF swapText
  <2> HIDE DEF v
  <2> QED
    BY <1>3, <2>1, <2>2 DEF Desks, SameSave, SamePick
<1> QED
  BY <1>1, <1>2, <1>3

-----------------------------------------------------------------------------
(* Drawing the pane *)

\* What the effects of a render do to the autosave: nothing, or the seeded document goes, or another is seeded.
Draws(d, e) ==
    \/ SameSave(d, e)
    \/ /\ ~d.left /\ ~e.left /\ d.loaded # NoDoc /\ e.loaded = NoDoc /\ e.out
       /\ e.save = d.save /\ (e.seeded <=> d.seeded)
    \/ /\ ~d.left /\ ~e.left /\ e.seeded /\ Fresh(e.save) /\ e.loaded # NoDoc
       /\ (e.out <=> (d.out \/ d.loaded # NoDoc))

\* What is so of a desk that renders have brought about since the desk `o'.
After(o, e) ==
    /\ e.left <=> o.left
    /\ e.seeded \/ (e.save = o.save /\ e.loaded \in {o.loaded, NoDoc})
    /\ e.seeded => Fresh(e.save)
    /\ o.loaded # NoDoc /\ (e.seeded \/ e.loaded # o.loaded) => e.out
    /\ e.out /\ ~e.seeded => e.loaded = NoDoc
    /\ o.left => ~e.seeded /\ ~e.out /\ e.loaded = o.loaded

\* One more render does not change that.
LEMMA AfterDraws ==
    ASSUME NEW o \in Desks, NEW d \in Desks, NEW e \in Desks, After(o, d), Draws(d, e)
    PROVE  After(o, e)
<1>1. /\ d.out \in BOOLEAN /\ d.seeded \in BOOLEAN /\ d.left \in BOOLEAN
      /\ e.out \in BOOLEAN /\ e.seeded \in BOOLEAN /\ e.left \in BOOLEAN
      /\ o.out \in BOOLEAN /\ o.seeded \in BOOLEAN /\ o.left \in BOOLEAN
  BY DEF Desks
<1>2. CASE SameSave(d, e)
  BY <1>1, <1>2, Zenon DEF After, SameSave
<1>3. CASE ~SameSave(d, e)
  BY <1>1, <1>3, Zenon DEF After, Draws
<1> QED
  BY <1>2, <1>3

\* The query's data goes with the desk.
LEMMA SameData ==
    ASSUME NEW d, NEW e, DataFits(d), e.cache = d.cache, e.held = d.held
    PROVE  DataFits(e)
  BY DEF DataFits

\* A render of the pane keeps its parts together.
LEMMA PaneFacts ==
    ASSUME NEW d \in Desks, DataFits(d), Seeded(d), RestOK(d)
    PROVE  LET e == EditorPane(d)
           IN  /\ e \in Desks /\ DataFits(e) /\ Seeded(e) /\ RestOK(e) /\ SamePick(d, e) /\ Draws(d, e)
               /\ (~RestMode => e.view.doc = d.view.doc /\ e.marked = d.marked)
<1> DEFINE r == Result(d)
           to == IF d.open = NoDoc THEN NoDoc ELSE r.doc
           observed == [d EXCEPT !.held = IF Cached(d) \/ Failed(d) THEN NoResult ELSE r,
                                 !.last = IF Cached(d) THEN d.open ELSE @]
           drawn == IF RestMode THEN CodeMirrorEditor(observed, to # NoDoc /\ ~Failed(d)) ELSE observed
           outgoing == IF d.loaded = NoDoc THEN drawn ELSE [clearTimers(drawn) EXCEPT !.out = TRUE]
           e == EditorPane(d)
<1>1. /\ r \in Results /\ (r.doc # NoDoc => Fits(r.data, r.doc)) /\ to \in Doc0 /\ to \in {NoDoc, r.doc}
  BY ResultFacts, StartValues DEF Results
<1>2. /\ observed \in Desks /\ SameSave(d, observed) /\ SamePick(d, observed)
      /\ observed.cache = d.cache /\ observed.view = d.view /\ observed.marked = d.marked
      /\ DataFits(observed)
  <2> DEFINE h == IF Cached(d) \/ Failed(d) THEN NoResult ELSE r
             l == IF Cached(d) THEN d.open ELSE d.last
  <2>1. h \in Results /\ l \in Doc0 /\ (h.doc # NoDoc => Fits(h.data, h.doc))
    BY <1>1, StartValues DEF Desks
  <2>2. observed = [d EXCEPT !.held = h, !.last = l]
    BY DEF Desks
  <2> HIDE DEF h, l, observed, r, to
  <2>3. /\ observed \in Desks /\ SameSave(d, observed) /\ SamePick(d, observed)
        /\ observed.cache = d.cache /\ observed.view = d.view /\ observed.marked = d.marked /\ observed.held = h
    BY <2>1, <2>2 DEF Desks, SameSave, SamePick
  <2> QED
    BY <2>1, <2>3 DEF DataFits
<1>3. /\ drawn \in Desks /\ SameSave(d, drawn) /\ SamePick(d, drawn) /\ DataFits(drawn) /\ RestOK(observed)
      /\ (~RestMode => drawn.view = d.view /\ drawn.marked = d.marked)
      /\ (RestMode => \/ drawn.view = PaneUnmounted
                      \/ drawn.view = d.view
                      \/ /\ drawn.view.doc = d.loaded /\ drawn.view.text = d.save.shown
                         /\ (~drawn.view.astray => d.save.shown = d.save.local))
      /\ (RestMode /\ to = NoDoc => drawn.view = PaneUnmounted)
  <2>1. RestOK(observed)
    BY <1>2 DEF RestOK, SameSave
  <2> HIDE DEF observed, r, to
  <2>2. CASE ~RestMode
    BY <1>2, <2>1, <2>2
  <2>3. CASE RestMode
    <3>1. PICK there \in BOOLEAN : there <=> (to # NoDoc /\ ~Failed(d))
      BY Zenon
    <3>2. drawn = CodeMirrorEditor(observed, there)
      <4>1. (to # NoDoc /\ ~Failed(d)) = there
        BY <3>1
      <4> QED
        BY <2>3, <4>1
    <3> HIDE DEF drawn
    <3>3. /\ drawn \in Desks /\ SameSave(observed, drawn) /\ SamePick(observed, drawn)
          /\ drawn.cache = observed.cache /\ drawn.held = observed.held
          /\ (~there => drawn.view = PaneUnmounted)
          /\ (there => drawn.view = observed.view
                       \/ (drawn.view.doc = observed.loaded
                           /\ (~drawn.view.astray => observed.save.shown = observed.save.local)
                           /\ drawn.view.text = observed.save.shown))
      BY <1>2, <3>2, ViewFacts
    <3>4. SameSave(d, drawn) /\ SamePick(d, drawn)
      BY <1>2, <3>3 DEF SameSave, SamePick
    <3>5. DataFits(drawn)
      BY <1>2, <3>3, SameData
    <3> QED
      BY <1>2, <2>1, <2>3, <3>1, <3>3, <3>4, <3>5 DEF SameSave
  <2> QED
    BY <2>2, <2>3
<1>4. e = IF d.left \/ to = d.loaded THEN IF d.left THEN d ELSE drawn
          ELSE IF to = NoDoc THEN [outgoing EXCEPT !.loaded = NoDoc]
          ELSE swapText(handleDocumentLoaded(seed(outgoing, r)), d.save.shown)
  BY DEF EditorPane
<1>5. CASE d.left
  BY <1>4, <1>5 DEF SameSave, SamePick, Draws
<1>6. CASE ~d.left /\ to = d.loaded
  <2>1. e = drawn
    BY <1>4, <1>6
  <2>2. Seeded(drawn)
    BY <1>3 DEF Seeded, SameSave
  <2>3. RestOK(drawn)
    BY <1>3, <1>6 DEF RestOK, SameSave
  <2> QED
    BY <1>3, <2>1, <2>2, <2>3 DEF Draws
<1>7. ASSUME ~d.left, to # d.loaded
      PROVE  /\ outgoing \in Desks /\ SamePick(d, outgoing) /\ DataFits(outgoing)
             /\ outgoing.loaded = d.loaded /\ outgoing.save = d.save /\ (outgoing.seeded <=> d.seeded) /\ ~outgoing.left
             /\ (outgoing.out <=> (d.out \/ d.loaded # NoDoc))
             /\ outgoing.view = drawn.view /\ outgoing.marked = drawn.marked
  <2> HIDE DEF drawn
  <2>1. CASE d.loaded = NoDoc
    BY <1>3, <1>7, <2>1 DEF SameSave
  <2>2. CASE d.loaded # NoDoc
    <3>1. outgoing = [drawn EXCEPT !.debounce = FALSE, !.retry = FALSE, !.out = TRUE]
      BY <1>3, <2>2 DEF clearTimers, Desks
    <3> HIDE DEF outgoing
    <3>2. /\ outgoing \in Desks /\ SamePick(drawn, outgoing) /\ outgoing.cache = drawn.cache /\ outgoing.held = drawn.held
          /\ outgoing.loaded = drawn.loaded /\ outgoing.save = drawn.save /\ outgoing.seeded = drawn.seeded
          /\ outgoing.left = drawn.left /\ outgoing.out /\ outgoing.view = drawn.view /\ outgoing.marked = drawn.marked
      BY <1>3, <3>1, ZenonT(60) DEF Desks, SamePick
    <3>3. DataFits(outgoing)
      BY <1>3, <3>2, SameData
    <3>4. SamePick(d, outgoing)
      BY <1>3, <3>2 DEF SamePick
    <3> QED
      BY <1>3, <1>7, <2>2, <3>2, <3>3, <3>4 DEF SameSave
  <2> QED
    BY <2>1, <2>2
<1> HIDE DEF outgoing, drawn, observed
<1>8. CASE ~d.left /\ to # d.loaded /\ to = NoDoc
  <2>1. e = [outgoing EXCEPT !.loaded = NoDoc]
    BY <1>4, <1>8
  <2>2. d.loaded # NoDoc
    BY <1>8
  <2> HIDE DEF e, to, r
  <2>3. /\ e \in Desks /\ SamePick(outgoing, e) /\ e.cache = outgoing.cache /\ e.held = outgoing.held
        /\ e.loaded = NoDoc /\ e.save = outgoing.save /\ e.seeded = outgoing.seeded /\ e.left = outgoing.left
        /\ e.out = outgoing.out /\ e.view = outgoing.view /\ e.marked = outgoing.marked
    BY <1>7, <1>8, <2>1, StartValues DEF Desks, SamePick
  <2>4. Seeded(e) /\ RestOK(e)
    BY <1>3, <1>7, <1>8, <2>3 DEF Seeded, RestOK
  <2>5. DataFits(e)
    BY <1>7, <1>8, <2>3, SameData
  <2>6. SamePick(d, e)
    BY <1>7, <1>8, <2>3 DEF SamePick
  <2>7. Draws(d, e)
    BY <1>7, <1>8, <2>2, <2>3 DEF Draws
  <2> QED
    BY <1>3, <1>7, <1>8, <2>3, <2>4, <2>5, <2>6, <2>7 DEF e
<1>9. CASE ~d.left /\ to # d.loaded /\ to # NoDoc
  <2>1. to = r.doc /\ r.doc # NoDoc /\ Fits(r.data, r.doc)
    BY <1>1, <1>9
  <2> DEFINE s == seed(outgoing, r)
             h == handleDocumentLoaded(s)
  <2>2. e = swapText(h, d.save.shown)
    BY <1>4, <1>9
  <2> HIDE DEF e, to, r
  <2>3. /\ s \in Desks /\ SamePick(outgoing, s) /\ s.left = outgoing.left /\ s.out = outgoing.out
        /\ s.cache = outgoing.cache /\ s.held = outgoing.held /\ s.view = outgoing.view /\ s.marked = outgoing.marked
        /\ s.loaded = r.doc /\ s.seeded /\ Fresh(s.save) /\ s.save.doc = r.doc
    BY <1>1, <1>7, <1>9, <2>1, SeedFacts
  <2> HIDE DEF s
  <2>4. /\ h \in Desks /\ SameSave(s, h) /\ SamePick(s, h) /\ h.cache = s.cache /\ h.held = s.held
        /\ h.marked = s.marked /\ h.view.doc = s.view.doc
    BY <2>3, LoadedFacts
  <2> HIDE DEF h
  <2>5. /\ e \in Desks /\ SameSave(h, e) /\ SamePick(h, e) /\ e.cache = h.cache /\ e.held = h.held /\ e.marked = h.marked
        /\ (RestMode => \/ e.view = PaneUnmounted
                        \/ e.view.doc = h.loaded /\ (~e.view.astray => e.view.text = h.save.shown))
        /\ (~RestMode => e.view = h.view)
    BY <2>2, <2>4, SwapFacts
  <2>6. e.loaded = r.doc /\ e.save = s.save /\ e.seeded /\ e.left = outgoing.left /\ e.out = outgoing.out
    BY <2>3, <2>4, <2>5 DEF SameSave
  <2>7. Seeded(e)
    BY <2>3, <2>6 DEF Seeded
  <2>8. RestOK(e)
    BY <2>1, <2>3, <2>4, <2>5, <2>6 DEF RestOK, Fresh, SameSave
  <2>9. DataFits(e)
    BY <1>7, <1>9, <2>3, <2>4, <2>5, SameData
  <2>10. SamePick(d, e)
    BY <1>7, <1>9, <2>3, <2>4, <2>5 DEF SamePick
  <2>11. Draws(d, e)
    BY <1>7, <1>9, <2>1, <2>3, <2>6 DEF Draws
  <2>12. ~RestMode => e.view.doc = d.view.doc /\ e.marked = d.marked
    BY <1>3, <1>7, <1>9, <2>3, <2>4, <2>5
  <2> QED
    BY <2>5, <2>7, <2>8, <2>9, <2>10, <2>11, <2>12 DEF e
<1> QED
  BY <1>5, <1>6, <1>8, <1>9

-----------------------------------------------------------------------------
(* What the screen does with the pane *)

\* The record of the autosave goes along when a desk changes elsewhere.
LEMMA SeededSame ==
    ASSUME NEW d, NEW e, SameSave(d, e)
    PROVE  (Seeded(d) => Seeded(e)) /\ Draws(d, e)
  BY DEF Seeded, SameSave, Draws

\* Fetching on its own keeps the desk in order.
LEMMA FetchKeeps ==
    ASSUME NEW d, DeskOK(d), NEW docs \in SUBSET Doc
    PROVE  DeskOK(Fetch(d, docs)) /\ Draws(d, Fetch(d, docs)) /\ SamePick(d, Fetch(d, docs))
<1> DEFINE e == Fetch(d, docs)
<1>1. /\ e \in Desks /\ SameSave(d, e) /\ SamePick(d, e) /\ e.cache = d.cache /\ e.held = d.held
      /\ e.view = d.view /\ e.marked = d.marked
  BY FetchFacts DEF DeskOK
<1> HIDE DEF e
<1>2. DataFits(e) /\ Seeded(e) /\ Draws(d, e)
  BY <1>1, SameData, SeededSame DEF DeskOK
<1>3. RestOK(e) /\ LiveOK(e) /\ OpenOK(e)
  BY <1>1 DEF DeskOK, RestOK, LiveOK, OpenOK, SameSave, SamePick
<1> QED
  BY <1>1, <1>2, <1>3 DEF DeskOK, e

\* Drawing the pane keeps the desk in order.
LEMMA PaneKeeps ==
    ASSUME NEW d, DeskOK(d)
    PROVE  DeskOK(EditorPane(d)) /\ Draws(d, EditorPane(d)) /\ SamePick(d, EditorPane(d))
<1> DEFINE e == EditorPane(d)
<1>1. /\ e \in Desks /\ DataFits(e) /\ Seeded(e) /\ RestOK(e) /\ SamePick(d, e) /\ Draws(d, e)
      /\ (~RestMode => e.view.doc = d.view.doc /\ e.marked = d.marked)
  BY PaneFacts DEF DeskOK
<1> HIDE DEF e
<1>2. LiveOK(e) /\ OpenOK(e)
  BY <1>1 DEF DeskOK, LiveOK, OpenOK, SamePick
<1> QED
  BY <1>1, <1>2 DEF DeskOK, e

\* What the pane has open changes; the selection has already changed.
Opened(d, e, to) ==
    e.open = to /\ e.openDoc = d.openDoc /\ e.selected = d.selected /\ e.tree = d.tree /\ e.project = d.project
LEMMA OpenKeeps ==
    ASSUME NEW d \in Desks, DataFits(d), Seeded(d), RestOK(d), LiveOK(d), NEW to \in Doc0, to # NoDoc => d.openDoc = to
    PROVE  LET e == setOpenEntity(d, to) IN DeskOK(e) /\ Draws(d, e) /\ Opened(d, e, to)
<1> DEFINE e == setOpenEntity(d, to)
           a == [d EXCEPT !.open = to]
           f == Fetch(a, {to} \ {NoDoc})
           g == EditorPane(f)
<1>1. CASE to = d.open
  <2>1. e = d
    BY <1>1 DEF setOpenEntity
  <2> HIDE DEF e
  <2>2. OpenOK(d) /\ SameSave(d, d)
    BY <1>1 DEF OpenOK, SameSave
  <2>3. Draws(d, d)
    BY <2>2 DEF Draws
  <2> QED
    BY <1>1, <2>1, <2>2, <2>3 DEF DeskOK, e, Opened
<1>2. CASE to # d.open
  <2>1. e = useCollabDoc(g)
    BY <1>2 DEF setOpenEntity
  <2>2. /\ a \in Desks /\ SameSave(d, a) /\ a.cache = d.cache /\ a.held = d.held /\ a.view = d.view /\ a.marked = d.marked
        /\ Opened(d, a, to)
    BY DEF Desks, SameSave, Opened
  <2> HIDE DEF a
  <2>3. DataFits(a) /\ Seeded(a) /\ RestOK(a)
    <3>1. DataFits(a) /\ Seeded(a)
      BY <2>2, SameData, SeededSame
    <3>2. RestOK(a)
      BY <2>2 DEF RestOK, SameSave
    <3> QED
      BY <3>1, <3>2
  <2>4. {to} \ {NoDoc} \in SUBSET Doc
    BY DEF Doc0
  <2>5. /\ f \in Desks /\ SameSave(a, f) /\ SamePick(a, f) /\ f.cache = a.cache /\ f.held = a.held
        /\ f.view = a.view /\ f.marked = a.marked
    BY <2>2, <2>4, FetchFacts
  <2> HIDE DEF f
  <2>6. DataFits(f) /\ Seeded(f) /\ RestOK(f)
    <3>1. DataFits(f) /\ Seeded(f)
      BY <2>3, <2>5, SameData, SeededSame
    <3>2. RestOK(f)
      BY <2>3, <2>5 DEF RestOK, SameSave
    <3> QED
      BY <3>1, <3>2
  <2>7. g \in Desks /\ DataFits(g) /\ Seeded(g) /\ RestOK(g) /\ SamePick(f, g) /\ Draws(f, g)
    BY <2>5, <2>6, PaneFacts
  <2> HIDE DEF g
  <2>8. Draws(d, g) /\ Opened(d, g, to)
    <3>1. SameSave(d, f)
      BY <2>2, <2>5 DEF SameSave
    <3>2. Draws(d, g)
      BY <2>7, <3>1 DEF Draws, SameSave
    <3> QED
      BY <2>2, <2>5, <2>7, <3>2 DEF Opened, SamePick
  <2>9. CASE RestMode
    <3>1. e = g
      BY <2>1, <2>9 DEF useCollabDoc
    <3> HIDE DEF e
    <3>2. LiveOK(g) /\ OpenOK(g)
      BY <2>8, <2>9 DEF LiveOK, OpenOK, Opened
    <3> QED
      BY <2>7, <2>8, <3>1, <3>2 DEF DeskOK, e
  <2>10. CASE ~RestMode
    <3> DEFINE v == IF g.open = NoDoc THEN PaneUnmounted ELSE [PaneUnmounted EXCEPT !.doc = g.open]
    <3>1. e = [g EXCEPT !.view = v, !.marked = NoDoc]
      BY <2>1, <2>10 DEF useCollabDoc
    <3>2. v \in Views /\ v.doc = g.open
      <4>1. g.open \in Doc0
        BY <2>7 DEF Desks
      <4> QED
        BY <4>1, StartValues DEF Views
    <3> HIDE DEF e, v
    <3>3. /\ e \in Desks /\ SameSave(g, e) /\ SamePick(g, e) /\ e.cache = g.cache /\ e.held = g.held
          /\ e.view = v /\ e.marked = NoDoc
      BY <2>7, <3>1, <3>2, StartValues DEF Desks, SameSave, SamePick
    <3>4. DataFits(e) /\ Seeded(e)
      BY <2>7, <3>3, SameData, SeededSame
    <3>5. RestOK(e) /\ LiveOK(e) /\ OpenOK(e)
      BY <2>8, <2>10, <3>2, <3>3 DEF RestOK, LiveOK, OpenOK, SamePick, Opened
    <3>6. Draws(d, e)
      BY <2>8, <3>3 DEF Draws, SameSave
    <3>7. Opened(d, e, to)
      BY <2>8, <3>3 DEF Opened, SamePick
    <3> QED
      BY <3>3, <3>4, <3>5, <3>6, <3>7 DEF DeskOK, e
  <2> QED
    BY <2>9, <2>10
<1> QED
  BY <1>1, <1>2

\* A desk in order that renders have brought about since `o', which knows as much of the project.
Ready(o, d) == o \in Desks /\ DeskOK(d) /\ After(o, d) /\ d.tree = o.tree /\ d.project = o.project

\* Drawing the pane leads from one such desk to another.
LEMMA PaneReady ==
    ASSUME NEW o, NEW d, Ready(o, d)
    PROVE  Ready(o, EditorPane(d))
<1>1. DeskOK(EditorPane(d)) /\ Draws(d, EditorPane(d)) /\ SamePick(d, EditorPane(d))
  BY PaneKeeps DEF Ready
<1>2. After(o, EditorPane(d))
  BY <1>1, AfterDraws DEF Ready, DeskOK
<1> QED
  BY <1>1, <1>2 DEF Ready, SamePick

\* Fetching does.
LEMMA FetchReady ==
    ASSUME NEW o, NEW d, Ready(o, d), NEW docs \in SUBSET Doc
    PROVE  Ready(o, Fetch(d, docs))
<1>1. DeskOK(Fetch(d, docs)) /\ Draws(d, Fetch(d, docs)) /\ SamePick(d, Fetch(d, docs))
  BY FetchKeeps DEF Ready
<1>2. After(o, Fetch(d, docs))
  BY <1>1, AfterDraws DEF Ready, DeskOK
<1> QED
  BY <1>1, <1>2 DEF Ready, SamePick

\* So does what changes only fields no other part of the desk depends on.
LEMMA AsideReady ==
    ASSUME NEW o, NEW d, Ready(o, d), NEW e \in Desks, SameSave(d, e), e.cache = d.cache, e.held = d.held,
           e.view = d.view, e.marked = d.marked, e.open = d.open, e.openDoc = d.openDoc,
           e.tree = d.tree, e.project = d.project
    PROVE  Ready(o, e)
<1>1. DataFits(e) /\ Seeded(e) /\ Draws(d, e)
  BY SameData, SeededSame DEF Ready, DeskOK
<1>2. RestOK(e) /\ LiveOK(e) /\ OpenOK(e)
  BY DEF Ready, DeskOK, RestOK, LiveOK, OpenOK, SameSave
<1>3. After(o, e)
  BY <1>1, AfterDraws DEF Ready, DeskOK
<1> QED
  BY <1>1, <1>2, <1>3 DEF Ready, DeskOK

\* Selecting a document, another file or nothing does.
LEMMA SelectReady ==
    ASSUME NEW o, NEW d, Ready(o, d), NEW to \in Doc0 \cup {BinaryFile}
    PROVE  Ready(o, setSelected(d, to)) /\ setSelected(d, to).selected = to
<1> DEFINE l == IF to \in Doc THEN to ELSE d.openDoc
           n == IF to \in Doc THEN to ELSE NoDoc
           a == [d EXCEPT !.selected = to, !.openDoc = l]
           e == setOpenEntity(a, n)
<1>1. setSelected(d, to) = e /\ l \in Doc0 /\ n \in Doc0 /\ (n # NoDoc => l = n)
  BY StartValues DEF setSelected, Ready, DeskOK, Desks, Doc0
<1>2. /\ a \in Desks /\ SameSave(d, a) /\ a.cache = d.cache /\ a.held = d.held /\ a.view = d.view /\ a.marked = d.marked
      /\ a.open = d.open /\ a.openDoc = l /\ a.selected = to /\ a.tree = d.tree /\ a.project = d.project
  <2> HIDE DEF l
  <2> QED
    BY <1>1 DEF Ready, DeskOK, Desks, SameSave
<1> HIDE DEF a, l, n
<1>3. DataFits(a) /\ Seeded(a) /\ RestOK(a) /\ LiveOK(a)
  <2>1. DataFits(a) /\ Seeded(a)
    BY <1>2, SameData, SeededSame DEF Ready, DeskOK
  <2> QED
    BY <1>2, <2>1 DEF Ready, DeskOK, RestOK, LiveOK, SameSave
<1>4. DeskOK(e) /\ Draws(a, e) /\ Opened(a, e, n)
  BY <1>1, <1>2, <1>3, OpenKeeps
<1> HIDE DEF e
<1>5. Draws(d, e)
  BY <1>2, <1>4 DEF Draws, SameSave
<1>6. After(o, e)
  BY <1>4, <1>5, AfterDraws DEF Ready, DeskOK
<1> QED
  BY <1>1, <1>2, <1>4, <1>6 DEF Ready, Opened

\* Letting go of a document that is not found does.
LEMMA ClearReady ==
    ASSUME NEW o, NEW d, Ready(o, d)
    PROVE  Ready(o, onClearSelection(d))
<1> DEFINE a == [d EXCEPT !.selected = NoDoc]
           e == setOpenEntity(a, NoDoc)
<1>1. CASE ~notFound(d)
  BY <1>1 DEF onClearSelection
<1>2. CASE notFound(d)
  <2>1. onClearSelection(d) = e
    BY <1>2 DEF onClearSelection
  <2>2. /\ a \in Desks /\ SameSave(d, a) /\ a.cache = d.cache /\ a.held = d.held /\ a.view = d.view /\ a.marked = d.marked
        /\ a.open = d.open /\ a.openDoc = d.openDoc /\ a.tree = d.tree /\ a.project = d.project
    BY StartValues DEF Ready, DeskOK, Desks, SameSave
  <2> HIDE DEF a
  <2>3. DataFits(a) /\ Seeded(a) /\ RestOK(a) /\ LiveOK(a)
    <3>1. DataFits(a) /\ Seeded(a)
      BY <2>2, SameData, SeededSame DEF Ready, DeskOK
    <3> QED
      BY <2>2, <3>1 DEF Ready, DeskOK, RestOK, LiveOK, SameSave
  <2>4. DeskOK(e) /\ Draws(a, e) /\ Opened(a, e, NoDoc)
    BY <2>2, <2>3, StartValues, OpenKeeps
  <2> HIDE DEF e
  <2>5. Draws(d, e)
    BY <2>2, <2>4 DEF Draws, SameSave
  <2>6. After(o, e)
    BY <2>4, <2>5, AfterDraws DEF Ready, DeskOK
  <2> QED
    BY <2>1, <2>2, <2>4, <2>6 DEF Ready, Opened
<1> QED
  BY <1>1, <1>2

\* Opening the start document does, and it leaves a document that is selected alone.
LEMMA StartReady ==
    ASSUME NEW o, NEW d, Ready(o, d)
    PROVE  Ready(o, useStartDocument(d)) /\ (d.selected # NoDoc => useStartDocument(d) = d)
<1> DEFINE a == [d EXCEPT !.started = TRUE]
<1>1. CASE ~(~d.started /\ d.selected = NoDoc /\ d.tree /\ d.project)
  BY <1>1 DEF useStartDocument
<1>2. CASE ~d.started /\ d.selected = NoDoc /\ d.tree /\ d.project
  <2>1. useStartDocument(d) = onClearSelection(setSelected(a, RootDoc))
    BY <1>2 DEF useStartDocument
  <2>2. /\ a \in Desks /\ SameSave(d, a) /\ a.cache = d.cache /\ a.held = d.held /\ a.view = d.view /\ a.marked = d.marked
        /\ a.open = d.open /\ a.openDoc = d.openDoc /\ a.tree = d.tree /\ a.project = d.project
    BY DEF Ready, DeskOK, Desks, SameSave
  <2> HIDE DEF a
  <2>3. Ready(o, a)
    BY <2>2, AsideReady
  <2>4. Ready(o, setSelected(a, RootDoc))
    BY <2>3, SelectReady, DocFacts DEF Doc0
  <2> QED
    BY <1>2, <2>1, <2>4, ClearReady
<1> QED
  BY <1>1, <1>2

\* Picking a document or another file does.
LEMMA PickReady ==
    ASSUME NEW o, NEW d, Ready(o, d), NEW to \in Doc \cup {BinaryFile}
    PROVE  Ready(o, useOpenDocument(d, to))
<1>1. Ready(o, setSelected(d, to))
  BY SelectReady DEF Doc0
<1>2. Ready(o, onClearSelection(setSelected(d, to)))
  BY <1>1, ClearReady
<1> QED
  BY <1>2, StartReady DEF useOpenDocument

\* So does a jump to a line, whatever document the caller saw as open.
LEMMA JumpReady ==
    ASSUME NEW o, NEW d, Ready(o, d), NEW x, NEW to \in Doc, NEW n \in Nat
    PROVE  Ready(o, jumpToSource(d, x, to, n))
<1> DEFINE b == [d EXCEPT !.reveal = [doc |-> to, line |-> n]]
           k == IF d.view.synced THEN n ELSE 0
           c == [d EXCEPT !.view.line = k]
<1>1. CASE x = to /\ d.view.doc # NoDoc
  <2>1. jumpToSource(d, x, to, n) = c /\ k \in Nat
    BY <1>1 DEF jumpToSource, revealLine
  <2> HIDE DEF k
  <2>2. /\ c \in Desks /\ SameSave(d, c) /\ SamePick(d, c) /\ c.cache = d.cache /\ c.held = d.held
        /\ c.marked = d.marked /\ c.view.doc = d.view.doc /\ c.view.text = d.view.text /\ c.view.astray = d.view.astray
    BY <2>1, RevealFacts DEF Ready, DeskOK
  <2> HIDE DEF c
  <2>3. DataFits(c) /\ Seeded(c) /\ Draws(d, c)
    BY <2>2, SameData, SeededSame DEF Ready, DeskOK
  <2>4. RestOK(c)
    <3>1. CASE RestMode
      <4>1. d.view # PaneUnmounted
        BY <1>1, StartValues
      <4> QED
        BY <2>2, <4>1 DEF Ready, DeskOK, RestOK, SameSave
    <3>2. CASE ~RestMode
      BY <3>2 DEF RestOK
    <3> QED
      BY <3>1, <3>2
  <2>5. LiveOK(c) /\ OpenOK(c)
    BY <2>2 DEF Ready, DeskOK, LiveOK, OpenOK, SamePick
  <2>6. After(o, c)
    BY <2>2, <2>3, AfterDraws DEF Ready, DeskOK
  <2> QED
    BY <2>1, <2>2, <2>3, <2>4, <2>5, <2>6 DEF Ready, DeskOK, SamePick
<1>2. CASE ~(x = to /\ d.view.doc # NoDoc)
  <2>1. jumpToSource(d, x, to, n) = useOpenDocument(b, to)
    BY <1>2 DEF jumpToSource
  <2>2. [doc |-> to, line |-> n] \in Places
    BY DEF Places, Doc0
  <2>3. /\ b \in Desks /\ SameSave(d, b) /\ b.cache = d.cache /\ b.held = d.held /\ b.view = d.view /\ b.marked = d.marked
        /\ b.open = d.open /\ b.openDoc = d.openDoc /\ b.tree = d.tree /\ b.project = d.project
    BY <2>2 DEF Ready, DeskOK, Desks, SameSave
  <2> HIDE DEF b
  <2>4. Ready(o, b)
    BY <2>3, AsideReady
  <2> QED
    BY <2>1, <2>4, PickReady
<1> QED
  BY <1>1, <1>2

\* A desk in order is where renders start from.
LEMMA DeskReady ==
    ASSUME TypeInv, DeskInv
    PROVE  Ready(desk, desk)
<1>1. After(desk, desk)
  BY DEF TypeInv, After
<1> QED
  BY <1>1 DEF Ready, TypeInv, DeskInv

-----------------------------------------------------------------------------
(* What renders bring about becomes the state *)

\* A version seen stays seen.
LEMMA SeenGrows ==
    ASSUME known \subseteq known', NEW d, NEW b, SeenAt(d, b)
    PROVE  SeenAt(d, b)'
  BY DEF SeenAt

\* What the sidebars and the budgets may do while the pane is drawn.
Beside ==
    /\ sidebars' \in Sides /\ sidebars'.current \in 0..sidebars'.rows /\ sidebars'.quote = sidebars.quote
    /\ OutlineReachable' /\ screenLeft' \in Stories /\ screenLeft'.mode = screenLeft.mode

\* What a render leaves alone of the rest.
Around == UNCHANGED <<serverDocs, put, online, saveCrossed, dropped, surrendered, latest>>

\* No step but the one that brings them changes what is known of the tree and the project.
Steady == desk'.tree = desk.tree /\ desk'.project = desk.project

\* The step written out: the desk, the farewell sent, what is counted as stale and as seen.
LEMMA BecomeFacts ==
    ASSUME TypeInv, NEW e, e \in Desks, Become(e)
    PROVE  /\ desk' \in Desks /\ desk'.out = FALSE /\ desk'.seeded = FALSE
           /\ desk'.save = e.save /\ desk'.loaded = e.loaded /\ desk'.left = e.left
           /\ desk'.cache = e.cache /\ desk'.held = e.held /\ desk'.view = e.view /\ desk'.marked = e.marked
           /\ SamePick(e, desk')
           /\ Farewell(e.out) /\ stale' = (stale \/ (e.seeded /\ Behind(e.save)))
           /\ (e.seeded => known' = known \cup {<<e.save.doc, [version |-> e.save.base, text |-> e.save.server]>>})
           /\ (~e.seeded => known' = known)
<1>1. /\ desk' = [e EXCEPT !.out = FALSE, !.seeded = FALSE] /\ Farewell(e.out)
      /\ stale' = (stale \/ (e.seeded /\ Behind(e.save)))
      /\ known' = IF e.seeded THEN known \cup {<<e.save.doc, [version |-> e.save.base, text |-> e.save.server]>>} ELSE known
  BY DEF Become
<1>2. /\ desk' \in Desks /\ desk'.out = FALSE /\ desk'.seeded = FALSE
      /\ desk'.save = e.save /\ desk'.loaded = e.loaded /\ desk'.left = e.left
      /\ desk'.cache = e.cache /\ desk'.held = e.held /\ desk'.view = e.view /\ desk'.marked = e.marked
      /\ SamePick(e, desk')
  BY <1>1 DEF Desks, SamePick
<1> QED
  BY <1>1, <1>2

\* The farewell written out.
LEMMA FarewellFacts ==
    ASSUME TypeInv, NEW out \in BOOLEAN, Farewell(out)
    PROVE  /\ farewells \subseteq farewells' /\ farewells' \subseteq Goodbyes
           /\ \A p \in farewells' : p \in farewells \/ (p = goodbye(desk) /\ p.doc = desk.save.doc /\ p.base = desk.save.base
                                        /\ p.text = desk.save.local /\ out /\ desk.loaded # NoDoc /\ desk.save.doc \in Doc)
           /\ (out /\ desk.loaded # NoDoc /\ Unsaved(desk.save) => goodbye(desk) \in farewells' /\ goodbye(desk).text = desk.save.local)
           /\ saveOverlapped' \in BOOLEAN /\ (saveOverlapped => saveOverlapped')
           /\ (~saveOverlapped' /\ out => desk.save.status # "conflict")
           /\ (~saveOverlapped' /\ farewells' # farewells =>
                  put = NoPut /\ serverDocs[desk.save.doc].version = desk.save.base)
<1>1. /\ farewells' = IF out /\ desk.loaded # NoDoc /\ Unsaved(desk.save) THEN farewells \cup {goodbye(desk)} ELSE farewells
      /\ saveOverlapped' = (saveOverlapped \/ (out /\ desk.save.status = "conflict")
                       \/ (farewells' # farewells /\ (put # NoPut \/ serverDocs[desk.save.doc].version # desk.save.base)))
  BY DEF Farewell
<1>2. desk.save \in Saves /\ desk.save.doc \in Doc0 /\ farewells \subseteq Goodbyes /\ saveOverlapped \in BOOLEAN
  BY DEF TypeInv, Desks, Saves
<1>3. /\ saveOverlapped' \in BOOLEAN /\ (saveOverlapped => saveOverlapped')
      /\ (~saveOverlapped' /\ out => desk.save.status # "conflict")
      /\ (~saveOverlapped' /\ farewells' # farewells =>
                  put = NoPut /\ serverDocs[desk.save.doc].version = desk.save.base)
  BY <1>1, <1>2, Zenon
<1>4. goodbye(desk).doc = desk.save.doc /\ goodbye(desk).text = desk.save.local /\ goodbye(desk).base = desk.save.base
  BY DEF goodbye
<1>5. Unsaved(desk.save) => desk.save.doc \in Doc /\ goodbye(desk) \in Goodbyes
  BY <1>2 DEF Unsaved, Doc0, Goodbyes, goodbye, Saves
<1> QED
  BY <1>1, <1>2, <1>3, <1>4, <1>5

\* A render keeps all but where the text of the document before still is.
LEMMA BecomeSaves ==
    ASSUME ScreenInv, NEW e, DeskOK(e), After(desk, e), Become(e), Around, Beside
    PROVE  TypeInv' /\ DeskInv' /\ SaveInv' /\ SeenInv' /\ known \subseteq known'
<1> DEFINE k == <<e.save.doc, [version |-> e.save.base, text |-> e.save.server]>>
<1>1. /\ desk' \in Desks /\ desk'.out = FALSE /\ desk'.seeded = FALSE
      /\ desk'.save = e.save /\ desk'.loaded = e.loaded /\ desk'.left = e.left
      /\ desk'.cache = e.cache /\ desk'.held = e.held /\ desk'.view = e.view /\ desk'.marked = e.marked
      /\ SamePick(e, desk')
      /\ Farewell(e.out) /\ stale' = (stale \/ (e.seeded /\ Behind(e.save)))
      /\ (e.seeded => known' = known \cup {k}) /\ (~e.seeded => known' = known)
  BY BecomeFacts DEF ScreenInv, DeskOK
<1>2. e.out \in BOOLEAN /\ e.seeded \in BOOLEAN /\ e.save \in Saves
  BY DEF DeskOK, Desks
<1>3. farewells' \subseteq Goodbyes /\ saveOverlapped' \in BOOLEAN
      /\ \A p \in farewells' : p \in farewells \/ (p.doc = desk.save.doc /\ p.base = desk.save.base /\ desk.save.doc \in Doc)
  BY <1>1, <1>2, FarewellFacts DEF ScreenInv
<1>4. known \subseteq known' /\ (e.seeded => k \in known' /\ k \in Doc \X Data /\ Fresh(e.save))
  BY <1>1, <1>2 DEF After, Fresh, Data, Saves
<1>5. ~e.seeded => e.save = desk.save /\ e.loaded \in {desk.loaded, NoDoc}
  BY DEF After
<1>6. RestMode' <=> RestMode
  BY DEF RestMode, Beside
<1>7. TypeInv'
  <2>1. stale' \in BOOLEAN
    BY <1>1
  <2>2. known' \subseteq Doc \X Data
    BY <1>1, <1>4 DEF ScreenInv, TypeInv
  <2> QED
    BY <1>1, <1>3, <2>1, <2>2 DEF ScreenInv, TypeInv, Around, Beside
<1>8. DeskInv'
  <2>1. DataFits(desk)'
    BY <1>1 DEF DeskOK, DataFits, Fits, Around
  <2>2. Seeded(desk)' /\ RestOK(desk)' /\ LiveOK(desk)' /\ OpenOK(desk)'
    BY <1>1, <1>6 DEF DeskOK, Seeded, RestOK, LiveOK, OpenOK, SamePick
  <2>3. QuoteTrue'
    BY <1>6 DEF QuoteTrue, ScreenInv, DeskInv, Beside
  <2> QED
    BY <1>1, <2>1, <2>2, <2>3 DEF DeskInv, DeskOK
<1>9. SaveInv'
  <2>1. serverDocs' = serverDocs /\ put' = put
    BY DEF Around
  <2>2. \A q \in known' : Fits(q[2], q[1])'
    <3>1. e.seeded => Fits(k[2], k[1])
      BY <1>4 DEF Fresh
    <3>2. \A q \in known' : Fits(q[2], q[1])
      BY <1>1, <3>1 DEF ScreenInv, SaveInv
    <3> QED
      BY <2>1, <3>2 DEF Fits
  <2>3. put.answer = "saved" => <<put.doc, put.now>> \in known'
    BY <1>4 DEF ScreenInv, SaveInv
  <2>4. put.answer \in {"saved", "conflict"} => put.doc \in Doc /\ Fits(put.now, put.doc)' /\ put.now.version > 0
    BY <2>1 DEF ScreenInv, SaveInv, Fits
  <2>5. CASE e.seeded
    BY <1>1, <1>4, <2>1, <2>2, <2>3, <2>4, <2>5 DEF ScreenInv, SaveInv, Fresh
  <2>6. CASE ~e.seeded
    BY <1>1, <1>5, <2>1, <2>2, <2>3, <2>4, <2>6 DEF ScreenInv, SaveInv
  <2> QED
    BY <2>5, <2>6
<1>10. SeenInv'
  <2>1. saveCrossed' = saveCrossed /\ put' = put
    BY DEF Around
  <2> SUFFICES ASSUME ~saveCrossed
               PROVE  /\ e.save.doc # NoDoc => k \in known'
                      /\ e.save.conflict # NoData => e.save.doc # NoDoc /\ <<e.save.doc, e.save.conflict>> \in known'
                      /\ put # NoPut => SeenAt(put.doc, put.base)'
                      /\ \A p \in farewells' : SeenAt(p.doc, p.base)'
    BY <1>1, <2>1 DEF SeenInv
  <2>2. /\ desk.save.doc # NoDoc => <<desk.save.doc, [version |-> desk.save.base, text |-> desk.save.server]>> \in known
        /\ desk.save.conflict # NoData => desk.save.doc # NoDoc /\ <<desk.save.doc, desk.save.conflict>> \in known
        /\ put # NoPut => SeenAt(put.doc, put.base)
        /\ \A p \in farewells : SeenAt(p.doc, p.base)
    BY DEF ScreenInv, SeenInv
  <2>3. e.save.doc # NoDoc => k \in known'
    BY <1>4, <1>5, <2>2
  <2>4. e.save.conflict # NoData => e.save.doc # NoDoc /\ <<e.save.doc, e.save.conflict>> \in known'
    BY <1>4, <1>5, <2>2 DEF Fresh
  <2>5. desk.save.doc \in Doc => SeenAt(desk.save.doc, desk.save.base)
    BY <2>2, DocFacts DEF SeenAt
  <2>6. \A p \in farewells' : SeenAt(p.doc, p.base)
    BY <1>3, <2>2, <2>5
  <2>7. put # NoPut => SeenAt(put.doc, put.base)'
    BY <1>4, <2>1, <2>2 DEF SeenAt
  <2>8. \A p \in farewells' : SeenAt(p.doc, p.base)'
    BY <1>4, <2>6, SeenGrows
  <2> QED
    BY <2>3, <2>4, <2>7, <2>8
<1> QED
  BY <1>4, <1>7, <1>8, <1>9, <1>10

\* A render keeps what was typed: in the pane, in a farewell or stored.
LEMMA BecomeEdits ==
    ASSUME ScreenInv, NEW e, DeskOK(e), After(desk, e), Become(e), Around, known \subseteq known'
    PROVE  EditsInv'
<1> DEFINE k == <<e.save.doc, [version |-> e.save.base, text |-> e.save.server]>>
           SafeNow(t) == (\E q \in known' : q[2].text = t) \/ t \in surrendered' \cup dropped'
           Kept(t) == SafeNow(t) \/ \E p \in farewells' : p.text = t
<1>1. /\ desk'.save = e.save /\ desk'.loaded = e.loaded /\ desk'.left = e.left
      /\ Farewell(e.out) /\ stale' = (stale \/ (e.seeded /\ Behind(e.save)))
      /\ (e.seeded => k \in known')
  BY BecomeFacts DEF ScreenInv, DeskOK
<1>2. /\ e.out \in BOOLEAN /\ e.seeded \in BOOLEAN /\ e.left \in BOOLEAN
      /\ desk.left \in BOOLEAN /\ desk.save.doc \in Doc0
  BY DEF ScreenInv, TypeInv, DeskOK, Desks, Saves
<1>3. /\ farewells \subseteq farewells'
      /\ \A p \in farewells' : p \in farewells \/ (p = goodbye(desk) /\ p.doc = desk.save.doc /\ p.base = desk.save.base
                                   /\ p.text = desk.save.local /\ e.out /\ desk.loaded # NoDoc /\ desk.save.doc \in Doc)
      /\ (e.out /\ desk.loaded # NoDoc /\ Unsaved(desk.save) => goodbye(desk) \in farewells' /\ goodbye(desk).text = desk.save.local)
      /\ (saveOverlapped => saveOverlapped')
      /\ (~saveOverlapped' /\ e.out => desk.save.status # "conflict")
      /\ (~saveOverlapped' /\ farewells' # farewells => put = NoPut /\ serverDocs[desk.save.doc].version = desk.save.base)
  BY <1>1, <1>2, FarewellFacts DEF ScreenInv
<1>4. /\ e.left <=> desk.left
      /\ e.seeded \/ (e.save = desk.save /\ e.loaded \in {desk.loaded, NoDoc})
      /\ e.seeded => Fresh(e.save)
      /\ desk.loaded # NoDoc /\ (e.seeded \/ e.loaded # desk.loaded) => e.out
      /\ e.out /\ ~e.seeded => e.loaded = NoDoc
      /\ desk.left => ~e.seeded /\ ~e.out /\ e.loaded = desk.loaded
  BY DEF After
<1>5. /\ serverDocs' = serverDocs /\ put' = put /\ latest' = latest /\ dropped' = dropped
      /\ surrendered' = surrendered /\ saveCrossed' = saveCrossed
  BY DEF Around
<1> SUFFICES ASSUME Calm'
             PROVE  (\A d \in Doc : Held(d)') /\ LeftKept' /\ \A p \in farewells' : FarewellOK(p)'
  BY DEF EditsInv
<1>6. Calm /\ ~saveOverlapped' /\ (e.seeded => ~Behind(e.save))
  BY <1>1, <1>3, <1>5 DEF Calm
<1>7. (\A d \in Doc : Held(d)) /\ LeftKept /\ \A p \in farewells : FarewellOK(p)
  BY <1>6 DEF ScreenInv, EditsInv
<1>8. /\ \A t : Safe(t) => SafeNow(t)
      /\ \A t : (Safe(t) \/ \E p \in farewells : p.text = t) => Kept(t)
  BY <1>3, <1>5 DEF Safe, Reached
<1>9. e.out /\ desk.loaded # NoDoc /\ desk.save.doc # NoDoc => Kept(desk.save.local)
  <2> SUFFICES ASSUME e.out, desk.loaded # NoDoc, desk.save.doc # NoDoc
               PROVE  Kept(desk.save.local)
    OBVIOUS
  <2>1. CASE Unsaved(desk.save)
    BY <1>3, <2>1
  <2>2. CASE ~Unsaved(desk.save)
    <3>1. desk.save.local = desk.save.server
      BY <1>3, <1>6, <2>2 DEF Unsaved
    <3>2. <<desk.save.doc, [version |-> desk.save.base, text |-> desk.save.server]>> \in known
      BY <1>6 DEF Calm, ScreenInv, SeenInv
    <3>3. Reached(desk.save.local)
      BY <3>1, <3>2 DEF Reached
    <3> QED
      BY <1>8, <3>3 DEF Safe
  <2> QED
    BY <2>1, <2>2
<1>10. desk.save.doc # NoDoc /\ (e.seeded \/ Away(e)) => Kept(desk.save.local)
  <2> SUFFICES ASSUME desk.save.doc # NoDoc, e.seeded \/ Away(e)
               PROVE  Kept(desk.save.local)
    OBVIOUS
  <2>1. CASE Away(desk)
    BY <1>7, <1>8, <2>1 DEF LeftKept
  <2>2. CASE ~Away(desk)
    <3>1. e.out /\ desk.loaded # NoDoc
      BY <1>4, <2>2 DEF Away
    <3> QED
      BY <1>9, <3>1
  <2> QED
    BY <2>1, <2>2
<1>11. ASSUME NEW d \in Doc
       PROVE  Held(d)'
  <2>1. Held(d)' <=> \/ ~e.left /\ e.save.doc = d /\ e.save.local = latest[d]
                     \/ latest[d][2] = 0 \/ Kept(latest[d])
    BY <1>1, <1>5, Zenon DEF Held, Reached
  <2>2. CASE ~desk.left /\ desk.save.doc = d /\ desk.save.local = latest[d]
    BY <1>4, <1>10, <2>1, <2>2, DocFacts
  <2>3. CASE ~(~desk.left /\ desk.save.doc = d /\ desk.save.local = latest[d])
    <3>1. latest[d][2] = 0 \/ Safe(latest[d]) \/ \E p \in farewells : p.text = latest[d]
      BY <1>7, <2>3 DEF Held, Safe
    <3> QED
      BY <1>8, <2>1, <3>1
  <2> QED
    BY <2>2, <2>3
<1>12. LeftKept'
  <2> SUFFICES ASSUME e.save.doc # NoDoc, Away(e)
               PROVE  Kept(e.save.local)
    BY <1>1 DEF LeftKept, Away, Safe, Reached
  <2>1. CASE e.seeded
    <3>1. k[2].text = e.save.local
      BY <1>4, <2>1 DEF Fresh
    <3> QED
      BY <1>1, <2>1, <3>1, Zenon
  <2>2. CASE ~e.seeded
    BY <1>4, <1>10, <2>2
  <2> QED
    BY <2>1, <2>2
<1>13. ASSUME NEW p \in farewells'
       PROVE  FarewellOK(p)'
  <2>0. FarewellOK(p)' <=>
          /\ p.doc = e.save.doc => Away(e) /\ (e.save.local = p.text \/ SafeNow(p.text))
          /\ p.doc = put.doc => put.text = p.text \/ SafeNow(p.text)
          /\ \A q \in farewells' : q.doc = p.doc => q = p
          /\ SafeNow(p.text) \/ serverDocs[p.doc].version = p.base \/ serverDocs[p.doc].text = <<p.doc, 1>>
    BY <1>1, <1>5, Zenon DEF FarewellOK, Away, Safe, Reached
  <2>1. e.seeded => p.doc # e.save.doc
    BY <1>6, <1>5 DEF Behind
  <2>2. ASSUME NEW q \in farewells, q.doc = desk.save.doc
        PROVE  ~(e.out /\ desk.loaded # NoDoc)
    BY <1>4, <1>7, <2>2 DEF FarewellOK, Away
  <2>3. \A q \in farewells' : q.doc = p.doc => q = p
    BY <1>3, <1>7, <2>2 DEF FarewellOK
  <2>4. CASE p \in farewells
    <3>1. FarewellOK(p)
      BY <1>7, <2>4
    <3>2. p.doc = e.save.doc => Away(e) /\ (e.save.local = p.text \/ SafeNow(p.text))
      BY <1>4, <1>8, <2>1, <3>1 DEF FarewellOK, Away
    <3> QED
      BY <1>8, <2>0, <2>3, <3>1, <3>2 DEF FarewellOK
  <2>5. CASE p \notin farewells
    <3>1. /\ p.doc = desk.save.doc /\ p.base = desk.save.base /\ p.text = desk.save.local /\ e.out /\ desk.save.doc \in Doc
          /\ put = NoPut /\ serverDocs[desk.save.doc].version = desk.save.base
      BY <1>3, <1>6, <2>5
    <3>2. p.doc = e.save.doc => Away(e) /\ e.save.local = p.text
      BY <1>4, <2>1, <3>1 DEF Away
    <3>3. p.doc # put.doc
      BY <3>1, StartValues, DocFacts
    <3> QED
      BY <2>0, <2>3, <3>1, <3>2, <3>3
  <2> QED
    BY <2>4, <2>5
<1> QED
  BY <1>11, <1>12, <1>13

\* A render keeps the invariant.
LEMMA BecomeKeeps ==
    ASSUME ScreenInv, NEW e, DeskOK(e), After(desk, e), Become(e), Around, Beside
    PROVE  ScreenInv'
<1>1. TypeInv' /\ DeskInv' /\ SaveInv' /\ SeenInv' /\ known \subseteq known'
  BY BecomeSaves
<1>2. EditsInv'
  BY <1>1, BecomeEdits
<1> QED
  BY <1>1, <1>2 DEF ScreenInv, Beside

\* And where the tree and the project stay as they are, they do.
LEMMA ReadyKeeps ==
    ASSUME ScreenInv, NEW e, Ready(desk, e), Become(e), Around, Beside
    PROVE  ScreenInv' /\ Steady
<1>1. ScreenInv'
  BY BecomeKeeps DEF Ready
<1>2. SamePick(e, desk')
  BY BecomeFacts DEF Ready, DeskOK, ScreenInv
<1> QED
  BY <1>1, <1>2 DEF Steady, SamePick, Ready

-----------------------------------------------------------------------------
(* The actions that draw the pane *)

\* One less of what the story allows leaves the story's type and its mode.
LEMMA SpendFacts ==
    ASSUME screenLeft \in Stories,
           NEW what \in {"edits", "undos", "others", "losses", "outages", "switches", "jumps", "panels", "leaves"},
           SpendScreen(what)
    PROVE  screenLeft' \in Stories /\ screenLeft'.mode = screenLeft.mode
<1>1. screenLeft[what] \in Nat /\ screenLeft[what] > 0 /\ screenLeft' = [screenLeft EXCEPT ![what] = @ - 1]
  BY DEF SpendScreen, Stories
<1>2. screenLeft[what] - 1 \in Nat
  BY <1>1
<1> DEFINE n == screenLeft[what] - 1
<1>3. screenLeft' = [screenLeft EXCEPT ![what] = n] /\ n \in Nat
  BY <1>1, <1>2
<1> HIDE DEF n
<1> QED
  BY <1>3 DEF Stories

\* Sidebars and budgets that stay are beside the pane.
LEMMA StillBeside ==
    ASSUME ScreenInv, sidebars' = sidebars, screenLeft' \in Stories, screenLeft'.mode = screenLeft.mode
    PROVE  Beside
  BY DEF ScreenInv, TypeInv, OutlineReachable, Beside

\* A drawer closed, or the other side of the phone shown, is beside it.
LEMMA DrawerBeside ==
    ASSUME ScreenInv, NEW s \in BOOLEAN, NEW v \in {"content", "preview"},
           sidebars' = [sidebars EXCEPT !.view = v, !.drawer = s],
           screenLeft' \in Stories, screenLeft'.mode = screenLeft.mode
    PROVE  Beside
<1>1. sidebars \in Sides /\ sidebars.current \in 0..sidebars.rows
  BY DEF ScreenInv, TypeInv
<1>2. /\ sidebars' \in Sides /\ sidebars'.current = sidebars.current /\ sidebars'.rows = sidebars.rows
      /\ sidebars'.focus = sidebars.focus /\ sidebars'.shrunk = sidebars.shrunk /\ sidebars'.quote = sidebars.quote
  BY <1>1 DEF Sides
<1> QED
  BY <1>1, <1>2 DEF ScreenInv, OutlineReachable, Beside

\* An answer that comes in the cache keeps the desk in order.
LEMMA CacheReady ==
    ASSUME ScreenInv, NEW d \in Doc
    PROVE  Ready(desk, [desk EXCEPT !.cache[d] = serverDocs[d], !.fetching = @ \ {d}, !.trouble[d] = "none"])
<1> DEFINE c == [desk.cache EXCEPT ![d] = serverDocs[d]]
           f == desk.fetching \ {d}
           t == [desk.trouble EXCEPT ![d] = "none"]
           a == [desk EXCEPT !.cache = c, !.fetching = f, !.trouble = t]
<1>1. [desk EXCEPT !.cache[d] = serverDocs[d], !.fetching = @ \ {d}, !.trouble[d] = "none"] = a
  BY DEF ScreenInv, TypeInv, Desks
<1>2. Ready(desk, desk)
  BY DeskReady DEF ScreenInv
<1>3. c \in [Doc -> Data] /\ f \in SUBSET Doc /\ t \in [Doc -> Troubles]
  BY DEF ScreenInv, TypeInv, Desks, Troubles
<1>4. \A x \in Doc : Fits(c[x], x)
  <2>1. Fits(serverDocs[d], d)
    BY DEF Fits, ScreenInv, TypeInv, Data
  <2> QED
    BY <1>2, <2>1 DEF Ready, DeskOK, DataFits, Desks
<1> HIDE DEF c, f, t
<1>5. /\ a \in Desks /\ SameSave(desk, a) /\ SamePick(desk, a) /\ a.cache = c /\ a.held = desk.held
      /\ a.view = desk.view /\ a.marked = desk.marked
  BY <1>3 DEF ScreenInv, TypeInv, Desks, SameSave, SamePick
<1> HIDE DEF a
<1>6. DataFits(a)
  BY <1>2, <1>4, <1>5 DEF Ready, DeskOK, DataFits
<1>7. Seeded(a) /\ Draws(desk, a)
  BY <1>2, <1>5, SeededSame DEF Ready, DeskOK
<1>8. RestOK(a) /\ LiveOK(a) /\ OpenOK(a)
  BY <1>2, <1>5 DEF Ready, DeskOK, RestOK, LiveOK, OpenOK, SameSave, SamePick
<1>9. After(desk, a)
  BY <1>2, <1>5, <1>7, AfterDraws DEF Ready
<1>10. Ready(desk, a)
  BY <1>2, <1>5, <1>6, <1>7, <1>8, <1>9 DEF Ready, DeskOK, SamePick
<1> QED
  BY <1>1, <1>10

\* Desks that differ only in what the pane does not depend on.
LEMMA AsideDesk ==
    ASSUME ScreenInv, NEW e \in Desks, SameSave(desk, e), e.cache = desk.cache, e.held = desk.held,
           e.view = desk.view, e.marked = desk.marked, e.open = desk.open, e.openDoc = desk.openDoc
    PROVE  DeskOK(e) /\ After(desk, e) /\ Ready(e, e)
<1>1. Ready(desk, desk)
  BY DeskReady DEF ScreenInv
<1>2. DataFits(e) /\ Seeded(e) /\ Draws(desk, e)
  BY <1>1, SameData, SeededSame DEF Ready, DeskOK
<1>3. RestOK(e) /\ LiveOK(e) /\ OpenOK(e)
  BY <1>1 DEF Ready, DeskOK, RestOK, LiveOK, OpenOK, SameSave
<1>4. After(desk, e)
  BY <1>1, <1>2, AfterDraws DEF Ready
<1>5. After(e, e)
  BY DEF ScreenInv, TypeInv, After, SameSave
<1> QED
  BY <1>2, <1>3, <1>4, <1>5 DEF Ready, DeskOK

\* A desk brought about from one that differs only so from the state's is brought about from the state's.
LEMMA AsideAfter ==
    ASSUME NEW o, NEW d, NEW e, After(d, e), SameSave(o, d)
    PROVE  After(o, e)
  BY DEF After, SameSave

\* The actions that draw the pane keep the invariant.
LEMMA DocumentReadKeeps == ASSUME ScreenInv, NEW d \in Doc, DocumentRead(d) PROVE ScreenInv' /\ Steady
<1> DEFINE a == [desk EXCEPT !.cache[d] = serverDocs[d], !.fetching = @ \ {d}, !.trouble[d] = "none"]
<1>1. Become(EditorPane(a)) /\ Around /\ sidebars' = sidebars /\ screenLeft' = screenLeft
  BY DEF DocumentRead, Around
<1>2. Ready(desk, a)
  BY CacheReady
<1> HIDE DEF a
<1>3. Ready(desk, EditorPane(a))
  BY <1>2, PaneReady
<1>4. Beside
  BY <1>1, StillBeside DEF ScreenInv, TypeInv
<1> QED
  BY <1>1, <1>3, <1>4, ReadyKeeps

\* A load that fails.
LEMMA LoadFailsKeeps == ASSUME ScreenInv, NEW d \in Doc, getDocument(d) PROVE ScreenInv' /\ Steady
<1>1. PICK why \in {"error", "gone"} :
         Become(useStartDocument(onClearSelection(EditorPane([desk EXCEPT !.fetching = @ \ {d}, !.trouble[d] = why]))))
  BY DEF getDocument
<1> DEFINE f == desk.fetching \ {d}
           t == [desk.trouble EXCEPT ![d] = why]
           a == [desk EXCEPT !.fetching = f, !.trouble = t]
<1>2. [desk EXCEPT !.fetching = @ \ {d}, !.trouble[d] = why] = a /\ f \in SUBSET Doc /\ t \in [Doc -> Troubles]
  BY DEF ScreenInv, TypeInv, Desks, Troubles
<1> HIDE DEF f, t
<1>3. a \in Desks /\ SameSave(desk, a) /\ a.cache = desk.cache /\ a.held = desk.held /\ a.tree = desk.tree
      /\ a.view = desk.view /\ a.marked = desk.marked /\ a.open = desk.open /\ a.openDoc = desk.openDoc
      /\ a.project = desk.project
  BY <1>2 DEF ScreenInv, TypeInv, Desks, SameSave
<1> HIDE DEF a
<1>4. Ready(desk, a)
  BY <1>3, DeskReady, AsideReady DEF ScreenInv
<1>5. Ready(desk, onClearSelection(EditorPane(a)))
  BY <1>4, PaneReady, ClearReady
<1>6. Ready(desk, useStartDocument(onClearSelection(EditorPane(a))))
  BY <1>5, StartReady
<1>7. Around /\ sidebars' = sidebars /\ SpendScreen("losses")
  BY DEF getDocument, Around
<1>8. Beside
  BY <1>7, SpendFacts, StillBeside DEF ScreenInv, TypeInv
<1> QED
  BY <1>1, <1>2, <1>6, <1>7, <1>8, ReadyKeeps

\* A redraw after a refetch.
LEMMA RedrawKeeps == ASSUME ScreenInv, Redraw PROVE ScreenInv' /\ Steady
<1>1. Become(EditorPane(desk)) /\ Around /\ sidebars' = sidebars /\ screenLeft' = screenLeft
  BY DEF Redraw, Around
<1>2. Ready(desk, EditorPane(desk))
  BY DeskReady, PaneReady DEF ScreenInv
<1>3. Beside
  BY <1>1, StillBeside DEF ScreenInv, TypeInv
<1> QED
  BY <1>1, <1>2, <1>3, ReadyKeeps

\* The Retry under the error of a load.
LEMMA PaneBodyKeeps == ASSUME ScreenInv, PaneBody PROVE ScreenInv' /\ Steady
<1>1. /\ Become(EditorPane(Fetch(desk, {desk.open}))) /\ Around /\ sidebars' = sidebars /\ screenLeft' = screenLeft
      /\ desk.open # NoDoc
  BY DEF PaneBody, Around, Failed
<1>2. {desk.open} \in SUBSET Doc
  BY <1>1 DEF ScreenInv, TypeInv, Desks, Doc0
<1>3. Ready(desk, Fetch(desk, {desk.open}))
  BY <1>2, DeskReady, FetchReady DEF ScreenInv
<1>4. Ready(desk, EditorPane(Fetch(desk, {desk.open})))
  BY <1>3, PaneReady
<1>5. Beside
  BY <1>1, StillBeside DEF ScreenInv, TypeInv
<1> QED
  BY <1>1, <1>4, <1>5, ReadyKeeps

\* The tree or the project comes.
LEMMA WorkspaceTreeKeeps == ASSUME ScreenInv, useWorkspaceTree PROVE ScreenInv' /\ (desk.selected # NoDoc => desk'.selected = desk.selected)
<1> DEFINE a == [desk EXCEPT !.tree = TRUE]
           b == [desk EXCEPT !.project = TRUE]
<1>1. Around /\ sidebars' = sidebars /\ screenLeft' = screenLeft
  BY DEF useWorkspaceTree, Around
<1>2. Become(useStartDocument(a)) \/ Become(useStartDocument(Fetch(b, {RootDoc})))
  BY DEF useWorkspaceTree, useMainDocumentText
<1>3. a \in Desks /\ SameSave(desk, a) /\ a.cache = desk.cache /\ a.held = desk.held
      /\ a.view = desk.view /\ a.marked = desk.marked /\ a.open = desk.open /\ a.openDoc = desk.openDoc
      /\ a.selected = desk.selected
  BY DEF ScreenInv, TypeInv, Desks, SameSave
<1>4. b \in Desks /\ SameSave(desk, b) /\ b.cache = desk.cache /\ b.held = desk.held
      /\ b.view = desk.view /\ b.marked = desk.marked /\ b.open = desk.open /\ b.openDoc = desk.openDoc
      /\ b.selected = desk.selected
  BY DEF ScreenInv, TypeInv, Desks, SameSave
<1> HIDE DEF a, b
<1>5. Beside
  BY <1>1, StillBeside DEF ScreenInv, TypeInv
<1>6. CASE Become(useStartDocument(a))
  <2>1. Ready(a, useStartDocument(a)) /\ (a.selected # NoDoc => useStartDocument(a) = a)
    BY <1>3, AsideDesk, StartReady
  <2>2. After(desk, useStartDocument(a))
    BY <1>3, <2>1, AsideAfter DEF Ready
  <2>3. SamePick(useStartDocument(a), desk')
    BY <1>6, <2>1, BecomeFacts DEF Ready, DeskOK, ScreenInv
  <2>4. desk.selected # NoDoc => desk'.selected = desk.selected
    BY <1>3, <2>1, <2>3 DEF SamePick
  <2>5. ScreenInv'
    BY <1>1, <1>5, <1>6, <2>1, <2>2, BecomeKeeps DEF Ready
  <2> QED
    BY <2>4, <2>5
<1>7. CASE Become(useStartDocument(Fetch(b, {RootDoc})))
  <2> DEFINE f == Fetch(b, {RootDoc})
  <2>1. Ready(b, f) /\ f.selected = b.selected
    BY <1>4, AsideDesk, FetchReady, FetchFacts, DocFacts DEF SamePick
  <2> HIDE DEF f
  <2>2. Ready(b, useStartDocument(f)) /\ (f.selected # NoDoc => useStartDocument(f) = f)
    BY <2>1, StartReady
  <2>3. After(desk, useStartDocument(f))
    BY <1>4, <2>2, AsideAfter DEF Ready
  <2>4. Become(useStartDocument(f))
    BY <1>7 DEF f
  <2>5. SamePick(useStartDocument(f), desk')
    BY <2>2, <2>4, BecomeFacts DEF Ready, DeskOK, ScreenInv
  <2>6. desk.selected # NoDoc => desk'.selected = desk.selected
    BY <1>4, <2>1, <2>2, <2>5 DEF SamePick
  <2>7. ScreenInv'
    BY <1>1, <1>5, <2>2, <2>3, <2>4, BecomeKeeps DEF Ready
  <2> QED
    BY <2>6, <2>7
<1> QED
  BY <1>2, <1>6, <1>7

\* A file picked in the drawer.
LEMMA PickKeeps == ASSUME ScreenInv, NEW d \in Doc \cup {BinaryFile}, pickFile(d) PROVE ScreenInv' /\ Steady
<1>1. /\ Become(useOpenDocument(desk, d)) /\ Around /\ SpendScreen("switches")
      /\ sidebars' = [sidebars EXCEPT !.drawer = FALSE]
  BY DEF pickFile, Around
<1>2. Ready(desk, useOpenDocument(desk, d))
  BY DeskReady, PickReady DEF ScreenInv
<1>3. sidebars' = [sidebars EXCEPT !.view = sidebars.view, !.drawer = FALSE] /\ sidebars.view \in {"content", "preview"}
  BY <1>1 DEF ScreenInv, TypeInv, Sides
<1>4. screenLeft' \in Stories /\ screenLeft'.mode = screenLeft.mode
  BY <1>1, SpendFacts DEF ScreenInv, TypeInv
<1>5. Beside
  BY <1>3, <1>4, DrawerBeside
<1> QED
  BY <1>1, <1>2, <1>5, ReadyKeeps

\* A jump to a line.
LEMMA JumpKeeps == ASSUME ScreenInv, NEW d \in Doc, NEW l \in HeadingLine, Jump(d, l) PROVE ScreenInv' /\ Steady
<1>1. /\ Become(jumpToSource(desk, desk.openDoc, d, l)) /\ Around /\ SpendScreen("jumps")
      /\ \E entry \in BOOLEAN : sidebars' = [sidebars EXCEPT !.view = "content", !.drawer = @ /\ ~entry]
  BY DEF Jump, Around
<1>2. Ready(desk, jumpToSource(desk, desk.openDoc, d, l))
  BY DeskReady, JumpReady, ScreenAssumption DEF ScreenInv
<1>3. PICK s \in BOOLEAN : sidebars' = [sidebars EXCEPT !.view = "content", !.drawer = s]
  <2>1. PICK entry \in BOOLEAN : sidebars' = [sidebars EXCEPT !.view = "content", !.drawer = sidebars.drawer /\ ~entry]
    BY <1>1
  <2>2. (sidebars.drawer /\ ~entry) \in BOOLEAN
    BY Zenon
  <2> QED
    BY <2>1, <2>2, Zenon
<1>4. screenLeft' \in Stories /\ screenLeft'.mode = screenLeft.mode
  BY <1>1, SpendFacts DEF ScreenInv, TypeInv
<1>5. Beside
  BY <1>3, <1>4, DrawerBeside
<1> QED
  BY <1>1, <1>2, <1>5, ReadyKeeps

\* The answer of an inverse sync.
LEMMA PdfAnswerKeeps == ASSUME ScreenInv, handlePdfClick PROVE ScreenInv' /\ Steady
<1>1. Around /\ sidebars' = sidebars /\ screenLeft' = screenLeft
  BY DEF handlePdfClick, Around
<1>2. PICK open \in desk.lookups :
         LET answered == [desk EXCEPT !.lookups = @ \ {open}]
         IN Become(answered) \/ \E d \in Doc, l \in HeadingLine : Become(jumpToSource(answered, open, d, l))
  BY DEF handlePdfClick
<1> DEFINE k == desk.lookups \ {open}
           a == [desk EXCEPT !.lookups = k]
<1>3. [desk EXCEPT !.lookups = @ \ {open}] = a /\ k \in SUBSET Doc0
  BY DEF ScreenInv, TypeInv, Desks
<1> HIDE DEF k
<1>4. a \in Desks /\ SameSave(desk, a) /\ a.cache = desk.cache /\ a.held = desk.held /\ a.tree = desk.tree
      /\ a.view = desk.view /\ a.marked = desk.marked /\ a.open = desk.open /\ a.openDoc = desk.openDoc
      /\ a.project = desk.project
  BY <1>3 DEF ScreenInv, TypeInv, Desks, SameSave
<1> HIDE DEF a
<1>5. Ready(desk, a)
  BY <1>4, DeskReady, AsideReady DEF ScreenInv
<1>6. Beside
  BY <1>1, StillBeside DEF ScreenInv, TypeInv
<1>7. CASE Become(a)
  BY <1>1, <1>5, <1>6, <1>7, ReadyKeeps
<1>8. ASSUME NEW d \in Doc, NEW l \in HeadingLine, Become(jumpToSource(a, open, d, l))
      PROVE  ScreenInv' /\ Steady
  <2>1. Ready(desk, jumpToSource(a, open, d, l))
    BY <1>5, JumpReady, ScreenAssumption
  <2> QED
    BY <1>1, <1>6, <1>8, <2>1, ReadyKeeps
<1> QED
  BY <1>2, <1>3, <1>7, <1>8

-----------------------------------------------------------------------------
(* The autosave, the server and the rest of the screen *)

\* What was typed stays kept while the text in the pane and the farewells stay as they are.
LEMMA EditsStay ==
    ASSUME ScreenInv, Calm' => Calm,
           desk'.save.doc = desk.save.doc, desk'.save.local = desk.save.local,
           desk'.loaded = desk.loaded, desk'.left = desk.left,
           farewells' = farewells, latest' = latest, known \subseteq known',
           surrendered \subseteq surrendered', dropped \subseteq dropped',
           Calm => \A p \in farewells : FarewellOK(p) /\ p.doc = put'.doc => put'.text = p.text \/ Safe(p.text)',
           Calm => \A p \in farewells : FarewellOK(p) =>
                       Safe(p.text)' \/ serverDocs'[p.doc].version = p.base \/ serverDocs'[p.doc].text = <<p.doc, 1>>
    PROVE  EditsInv'
<1> SUFFICES ASSUME Calm'
             PROVE  (\A d \in Doc : Held(d)') /\ LeftKept' /\ \A p \in farewells : FarewellOK(p)'
  BY DEF EditsInv
<1>1. Calm /\ (\A d \in Doc : Held(d)) /\ LeftKept /\ \A p \in farewells : FarewellOK(p)
  BY DEF ScreenInv, EditsInv
<1>2. \A t : Safe(t) => Safe(t)'
  BY DEF Safe, Reached
<1>3. ASSUME NEW d \in Doc
      PROVE  Held(d)'
  <2>1. Held(d)
    BY <1>1
  <2> QED
    BY <2>1 DEF Held, Reached
<1>4. LeftKept'
  BY <1>1 DEF LeftKept, Away, Safe, Reached
<1>5. ASSUME NEW p \in farewells
      PROVE  FarewellOK(p)'
  <2>1. FarewellOK(p) /\ (p.doc = put'.doc => put'.text = p.text \/ Safe(p.text)')
        /\ (Safe(p.text)' \/ serverDocs'[p.doc].version = p.base \/ serverDocs'[p.doc].text = <<p.doc, 1>>)
    BY <1>1
  <2>2. p.doc = desk.save.doc => Away(desk) /\ (desk.save.local = p.text \/ Safe(p.text)')
    <3>1. Safe(p.text) => Safe(p.text)'
      BY DEF Safe, Reached
    <3> QED
      BY <2>1, <3>1 DEF FarewellOK
  <2>3. \A q \in farewells : q.doc = p.doc => q = p
    BY <2>1 DEF FarewellOK
  <2> QED
    BY <2>1, <2>2, <2>3 DEF FarewellOK, Away
<1> QED
  BY <1>3, <1>4, <1>5

\* What the server holds only grows: what fitted it fits it.
Grown ==
    \A d \in Doc : serverDocs'[d].version >= serverDocs[d].version
                   /\ (serverDocs'[d].version = serverDocs[d].version => serverDocs'[d] = serverDocs[d])
LEMMA FitsGrown ==
    ASSUME serverDocs \in [Doc -> Data], serverDocs' \in [Doc -> Data], Grown, NEW d \in Doc, NEW x \in Data, Fits(x, d)
    PROVE  Fits(x, d)'
<1>1. serverDocs[d].version \in Nat /\ serverDocs'[d].version \in Nat /\ x.version \in Nat
  BY DEF Data
<1> QED
  BY <1>1 DEF Fits, Grown

\* So does all that the invariant says fits it.
LEMMA GrownKeeps ==
    ASSUME ScreenInv, serverDocs' \in [Doc -> Data], Grown, desk' = desk
    PROVE  /\ DataFits(desk)' /\ \A k \in known : Fits(k[2], k[1])'
           /\ \A d \in Doc, x \in Data : Fits(x, d) => Fits(x, d)'
<1>1. /\ serverDocs \in [Doc -> Data] /\ desk \in Desks /\ known \subseteq Doc \X Data /\ put \in Puts /\ DataFits(desk)
      /\ \A k \in known : Fits(k[2], k[1])
      /\ put.answer \in {"saved", "conflict"} => put.doc \in Doc /\ Fits(put.now, put.doc)
  BY DEF ScreenInv, TypeInv, SaveInv, DeskInv, DeskOK
<1>2. DataFits(desk)'
  <2>1. \A x \in Doc : Fits(desk.cache[x], x)'
    <3> SUFFICES ASSUME NEW x \in Doc
                 PROVE  Fits(desk.cache[x], x)'
      OBVIOUS
    <3>1. desk.cache[x] \in Data /\ Fits(desk.cache[x], x)
      BY <1>1 DEF Desks, DataFits
    <3> QED
      BY <1>1, <3>1, FitsGrown
  <2>2. desk.held.doc # NoDoc => Fits(desk.held.data, desk.held.doc)'
    <3> SUFFICES ASSUME desk.held.doc # NoDoc
                 PROVE  Fits(desk.held.data, desk.held.doc)'
      OBVIOUS
    <3>1. desk.held.doc \in Doc /\ desk.held.data \in Data /\ Fits(desk.held.data, desk.held.doc)
      BY <1>1 DEF Desks, Results, DataFits, Doc0
    <3> QED
      BY <1>1, <3>1, FitsGrown
  <2> QED
    BY <2>1, <2>2 DEF DataFits
<1>3. \A k \in known : Fits(k[2], k[1])'
  <2> SUFFICES ASSUME NEW k \in known
               PROVE  Fits(k[2], k[1])'
    OBVIOUS
  <2>1. k[2] \in Data /\ k[1] \in Doc /\ Fits(k[2], k[1])
    BY <1>1
  <2> QED
    BY <1>1, <2>1, FitsGrown
<1>4. \A d \in Doc, x \in Data : Fits(x, d) => Fits(x, d)'
  BY <1>1, FitsGrown
<1> QED
  BY <1>2, <1>3, <1>4

\* Where nothing changes but what the autosave does not depend on, and the sidebars, the invariant stays.
LEMMA QuietKeeps ==
    ASSUME ScreenInv, DeskOK(desk)', SameSave(desk, desk'),
           UNCHANGED <<serverDocs, put, farewells, ghostsOfScreen>>, online' \in BOOLEAN,
           sidebars' \in Sides, sidebars'.current \in 0..sidebars'.rows, QuoteTrue', OutlineReachable',
           screenLeft' \in Stories
    PROVE  ScreenInv'
<1>1. /\ serverDocs' = serverDocs /\ put' = put /\ farewells' = farewells /\ saveCrossed' = saveCrossed
      /\ saveOverlapped' = saveOverlapped /\ stale' = stale /\ dropped' = dropped /\ surrendered' = surrendered
      /\ known' = known /\ latest' = latest
  BY DEF ghostsOfScreen
<1>2. desk'.loaded = desk.loaded /\ desk'.save = desk.save /\ desk'.left = desk.left
      /\ (desk'.out <=> desk.out) /\ (desk'.seeded <=> desk.seeded)
  BY DEF SameSave
<1>3. TypeInv'
  BY <1>1, <1>2 DEF ScreenInv, TypeInv, DeskOK
<1>4. SaveInv'
  BY <1>1, <1>2 DEF ScreenInv, SaveInv, Fits
<1>5. SeenInv'
  BY <1>1, <1>2 DEF ScreenInv, SeenInv, SeenAt
<1>6. EditsInv'
  <2>1. Calm' => Calm
    BY <1>1 DEF Calm
  <2>2. \A p \in farewells : FarewellOK(p) =>
             /\ p.doc = put'.doc => put'.text = p.text \/ Safe(p.text)'
             /\ Safe(p.text)' \/ serverDocs'[p.doc].version = p.base \/ serverDocs'[p.doc].text = <<p.doc, 1>>
    BY <1>1 DEF FarewellOK, Safe, Reached
  <2> QED
    BY <1>1, <1>2, <2>1, <2>2, EditsStay
<1> QED
  BY <1>3, <1>4, <1>5, <1>6 DEF ScreenInv, DeskInv

\* Patching the autosave changes it alone, and not once the screen has gone.
SameElse(d, e) ==
    /\ SamePick(d, e) /\ e.loaded = d.loaded /\ e.out = d.out /\ e.seeded = d.seeded /\ e.left = d.left
    /\ e.cache = d.cache /\ e.held = d.held /\ e.view = d.view /\ e.marked = d.marked
LEMMA PatchFacts ==
    ASSUME NEW d \in Desks, NEW s \in Saves
    PROVE  patch(d, s) \in Desks /\ SameElse(d, patch(d, s)) /\ patch(d, s).save \in {d.save, s}
<1>1. [d EXCEPT !.save = s] \in Desks /\ SameElse(d, [d EXCEPT !.save = s]) /\ [d EXCEPT !.save = s].save = s
  BY DEF Desks, SameElse, SamePick
<1>2. SameElse(d, d)
  BY DEF SameElse, SamePick
<1> QED
  BY <1>1, <1>2 DEF patch

\* So does a timer that is started or stopped.
LEMMA TimerFacts ==
    ASSUME NEW d \in Desks, NEW b \in BOOLEAN
    PROVE  /\ [d EXCEPT !.debounce = b] \in Desks /\ SameElse(d, [d EXCEPT !.debounce = b])
           /\ [d EXCEPT !.debounce = b].save = d.save
           /\ [d EXCEPT !.retry = b] \in Desks /\ SameElse(d, [d EXCEPT !.retry = b])
           /\ [d EXCEPT !.retry = b].save = d.save
  BY DEF Desks, SameElse, SamePick

\* Those changes one after another.
LEMMA ElseChain ==
    ASSUME NEW d, NEW e, NEW f, SameElse(d, e), SameElse(e, f)
    PROVE  SameElse(d, f)
  BY DEF SameElse, SamePick

\* One flush written out.
LEMMA FlushFacts ==
    ASSUME NEW d \in Desks, flush(d)
    PROVE  /\ desk' \in Desks /\ SameElse(d, desk')
           /\ desk'.save.doc = d.save.doc /\ desk'.save.base = d.save.base /\ desk'.save.server = d.save.server
           /\ desk'.save.local = d.save.local /\ desk'.save.conflict = d.save.conflict
           /\ \/ desk'.save.status = d.save.status
              \/ d.save.status # "conflict" /\ desk'.save.status = "saving"
              \/ d.save.status # "conflict" /\ desk'.save.status = "clean" /\ d.save.local = d.save.server
           /\ \/ put' = put
              \/ /\ Sends(d) /\ put' \in Puts /\ put'.doc = d.save.doc /\ put'.text = d.save.local
                 /\ put'.base = d.save.base /\ put'.answer = "none"
<1> DEFINE quiet == [d EXCEPT !.debounce = FALSE]
           s1 == [d.save EXCEPT !.status = "saving"]
           s2 == [d.save EXCEPT !.status = "clean"]
           p == [doc |-> d.save.doc, text |-> d.save.local, base |-> d.save.base, answer |-> "none", now |-> NoData]
<1>1. /\ put' = IF Sends(d) THEN p ELSE put
      /\ desk' = IF Sends(d) THEN patch(quiet, s1)
                 ELSE IF d.save.doc # NoDoc /\ d.save.status # "conflict" /\ d.save.local = d.save.server
                 THEN patch(quiet, s2) ELSE quiet
  BY DEF flush
<1>2. d.save \in Saves
  BY DEF Desks
<1>3. quiet \in Desks /\ SameElse(d, quiet) /\ quiet.save = d.save
  BY TimerFacts
<1>4. /\ s1 \in Saves /\ s1.doc = d.save.doc /\ s1.base = d.save.base /\ s1.server = d.save.server
      /\ s1.local = d.save.local /\ s1.conflict = d.save.conflict /\ s1.status = "saving"
  BY <1>2 DEF Saves, Statuses
<1>5. /\ s2 \in Saves /\ s2.doc = d.save.doc /\ s2.base = d.save.base /\ s2.server = d.save.server
      /\ s2.local = d.save.local /\ s2.conflict = d.save.conflict /\ s2.status = "clean"
  BY <1>2 DEF Saves, Statuses
<1>6. p \in Puts /\ p.doc = d.save.doc /\ p.text = d.save.local /\ p.base = d.save.base /\ p.answer = "none"
  BY <1>2, StartValues DEF Saves, Puts, Answers
<1> HIDE DEF quiet, s1, s2, p
<1>7. patch(quiet, s1) \in Desks /\ SameElse(d, patch(quiet, s1)) /\ patch(quiet, s1).save \in {d.save, s1}
  BY <1>3, <1>4, PatchFacts, ElseChain
<1>8. patch(quiet, s2) \in Desks /\ SameElse(d, patch(quiet, s2)) /\ patch(quiet, s2).save \in {d.save, s2}
  BY <1>3, <1>5, PatchFacts, ElseChain
<1>9. CASE Sends(d)
  <2>1. put' = p /\ desk' = patch(quiet, s1) /\ d.save.status # "conflict"
    BY <1>1, <1>9 DEF Sends
  <2> QED
    BY <1>4, <1>6, <1>7, <1>9, <2>1
<1>10. CASE ~Sends(d) /\ d.save.doc # NoDoc /\ d.save.status # "conflict" /\ d.save.local = d.save.server
  <2>1. put' = put /\ desk' = patch(quiet, s2)
    BY <1>1, <1>10
  <2> QED
    BY <1>5, <1>8, <1>10, <2>1
<1>11. CASE ~Sends(d) /\ ~(d.save.doc # NoDoc /\ d.save.status # "conflict" /\ d.save.local = d.save.server)
  <2>1. put' = put /\ desk' = quiet
    BY <1>1, <1>11
  <2> QED
    BY <1>3, <2>1
<1> QED
  BY <1>9, <1>10, <1>11

\* The desk stays in order where only the autosave changes, and not its document or its text.
LEMMA ElseKeeps ==
    ASSUME NEW d, DeskOK(d), NEW e \in Desks, SameElse(d, e), e.save.doc = d.save.doc, e.save.local = d.save.local
    PROVE  DeskOK(e)
<1>1. DataFits(e)
  BY SameData DEF DeskOK, SameElse
<1> QED
  BY <1>1 DEF DeskOK, SameElse, SamePick, Seeded, RestOK, LiveOK, OpenOK

\* A flush keeps the invariant.
LEMMA FlushKeeps ==
    ASSUME ScreenInv, NEW d, DeskOK(d), SameSave(desk, d), SamePick(desk, d), flush(d),
           UNCHANGED <<serverDocs, farewells, sidebars, ghostsOfScreen>>, online' \in BOOLEAN,
           screenLeft' \in Stories, screenLeft'.mode = screenLeft.mode
    PROVE  ScreenInv' /\ Steady
<1>1. /\ serverDocs' = serverDocs /\ farewells' = farewells /\ saveCrossed' = saveCrossed /\ sidebars' = sidebars
      /\ saveOverlapped' = saveOverlapped /\ stale' = stale /\ dropped' = dropped /\ surrendered' = surrendered
      /\ known' = known /\ latest' = latest
  BY DEF ghostsOfScreen
<1>2. /\ desk' \in Desks /\ SameElse(d, desk')
      /\ desk'.save.doc = d.save.doc /\ desk'.save.base = d.save.base /\ desk'.save.server = d.save.server
      /\ desk'.save.local = d.save.local /\ desk'.save.conflict = d.save.conflict
      /\ \/ desk'.save.status = d.save.status
         \/ d.save.status # "conflict" /\ desk'.save.status = "saving"
         \/ d.save.status # "conflict" /\ desk'.save.status = "clean" /\ d.save.local = d.save.server
      /\ \/ put' = put
         \/ /\ Sends(d) /\ put' \in Puts /\ put'.doc = d.save.doc /\ put'.text = d.save.local
            /\ put'.base = d.save.base /\ put'.answer = "none"
  BY FlushFacts DEF DeskOK
<1>3. /\ d.save = desk.save /\ desk'.loaded = desk.loaded /\ desk'.left = desk.left
      /\ desk'.out = desk.out /\ desk'.seeded = desk.seeded
  BY <1>2 DEF SameSave, SameElse
<1>4. DeskOK(desk')
  BY <1>2, ElseKeeps
<1>5. desk.save \in Saves /\ desk.save.doc \in Doc0
  BY DEF ScreenInv, TypeInv, Desks, Saves
<1>6. TypeInv'
  BY <1>1, <1>2, <1>3 DEF ScreenInv, TypeInv
<1>7. DeskInv'
  <2>1. RestMode' <=> RestMode
    BY DEF RestMode
  <2>2. QuoteTrue'
    BY <1>1, <2>1 DEF QuoteTrue, ScreenInv, DeskInv
  <2>3. DataFits(desk)'
    BY <1>1, <1>4 DEF DeskOK, DataFits, Fits
  <2> QED
    BY <1>4, <2>1, <2>2, <2>3 DEF DeskInv, DeskOK, Seeded, RestOK, LiveOK, OpenOK
<1>8. SaveInv'
  <2>1. put' = put \/ (put'.doc \in Doc /\ put'.answer = "none" /\ desk.save.status # "conflict")
    BY <1>2, <1>3, <1>5 DEF Sends, Doc0
  <2>2. (desk'.save.status = "conflict") <=> (desk.save.status = "conflict")
    BY <1>2, <1>3
  <2>3. \A k \in known' : Fits(k[2], k[1])'
    BY <1>1 DEF ScreenInv, SaveInv, Fits
  <2>4. CASE put' = put
    <3>1. put.answer \in {"saved", "conflict"} => put.doc \in Doc /\ Fits(put.now, put.doc)' /\ put.now.version > 0
      BY <1>1, <2>4 DEF ScreenInv, SaveInv, Fits
    <3> QED
      BY <1>1, <1>2, <1>3, <2>2, <2>3, <2>4, <3>1 DEF ScreenInv, SaveInv
  <2>5. CASE put'.doc \in Doc /\ put'.answer = "none" /\ desk.save.status # "conflict"
    BY <1>1, <1>2, <1>3, <2>2, <2>3, <2>5 DEF ScreenInv, SaveInv
  <2> QED
    BY <2>1, <2>4, <2>5
<1>9. SeenInv'
  <2> SUFFICES ASSUME ~saveCrossed
               PROVE  /\ desk'.save.doc # NoDoc => <<desk'.save.doc, [version |-> desk'.save.base, text |-> desk'.save.server]>> \in known
                      /\ desk'.save.conflict # NoData => desk'.save.doc # NoDoc /\ <<desk'.save.doc, desk'.save.conflict>> \in known
                      /\ put' # NoPut => SeenAt(put'.doc, put'.base)
                      /\ \A p \in farewells : SeenAt(p.doc, p.base)
    BY <1>1 DEF SeenInv, SeenAt
  <2>1. Sends(d) => SeenAt(desk.save.doc, desk.save.base)
    BY <1>3 DEF Sends, ScreenInv, SeenInv, SeenAt
  <2> QED
    BY <1>2, <1>3, <2>1 DEF ScreenInv, SeenInv
<1>10. EditsInv'
  <2>1. Calm' => Calm
    BY <1>1 DEF Calm
  <2>2. \A p \in farewells : Safe(p.text) => Safe(p.text)'
    BY <1>1 DEF Safe, Reached
  <2>3. \A p \in farewells : FarewellOK(p) /\ p.doc = put'.doc => put'.text = p.text \/ Safe(p.text)'
    BY <1>2, <1>3, <2>2 DEF FarewellOK
  <2>4. \A p \in farewells : FarewellOK(p) =>
             Safe(p.text)' \/ serverDocs'[p.doc].version = p.base \/ serverDocs'[p.doc].text = <<p.doc, 1>>
    BY <1>1, <2>2 DEF FarewellOK
  <2> QED
    BY <1>1, <1>2, <1>3, <2>1, <2>3, <2>4, EditsStay
<1>11. OutlineReachable'
  BY <1>1 DEF ScreenInv, OutlineReachable
<1>12. Steady
  BY <1>2 DEF Steady, SameElse, SamePick
<1> QED
  BY <1>6, <1>7, <1>8, <1>9, <1>10, <1>11, <1>12 DEF ScreenInv

\* What fires a flush.
LEMMA FlushActionsKeep ==
    ASSUME ScreenInv, DebounceFires \/ RetryFires \/ SaveNow
    PROVE  ScreenInv' /\ Steady
<1>1. desk \in Desks /\ DeskOK(desk) /\ online \in BOOLEAN /\ screenLeft \in Stories
  BY DEF ScreenInv, TypeInv, DeskInv
<1>2. UNCHANGED <<serverDocs, farewells, sidebars, ghostsOfScreen>> /\ online' = online /\ screenLeft' = screenLeft
  BY DEF DebounceFires, RetryFires, SaveNow, restOnly
<1>3. CASE flush(desk)
  <2>1. SameSave(desk, desk) /\ SamePick(desk, desk)
    BY DEF SameSave, SamePick
  <2> QED
    BY <1>1, <1>2, <1>3, <2>1, FlushKeeps
<1>4. CASE flush([desk EXCEPT !.retry = FALSE])
  <2> DEFINE d == [desk EXCEPT !.retry = FALSE]
  <2>1. d \in Desks /\ SameElse(desk, d) /\ d.save = desk.save
    BY <1>1, TimerFacts
  <2> HIDE DEF d
  <2>2. DeskOK(d) /\ SameSave(desk, d) /\ SamePick(desk, d)
    BY <1>1, <2>1, ElseKeeps DEF SameElse, SameSave
  <2> QED
    BY <1>1, <1>2, <1>4, <2>2, FlushKeeps DEF d
<1> QED
  BY <1>3, <1>4 DEF DebounceFires, RetryFires, SaveNow

\* The network goes or comes back.
LEMMA ConnectivityKeeps ==
    ASSUME ScreenInv, useFlushTriggers
    PROVE  ScreenInv' /\ Steady
<1>1. /\ desk \in Desks /\ DeskOK(desk) /\ screenLeft \in Stories /\ sidebars \in Sides
      /\ sidebars.current \in 0..sidebars.rows /\ QuoteTrue /\ OutlineReachable
  BY DEF ScreenInv, TypeInv, DeskInv
<1>2. UNCHANGED <<serverDocs, farewells, sidebars, ghostsOfScreen>> /\ serverDocs' = serverDocs /\ sidebars' = sidebars
  BY DEF useFlushTriggers
<1>3. ASSUME desk' = desk \/ desk' = Fetch(desk, InUse(desk)), put' = put, online' \in BOOLEAN,
             screenLeft' \in Stories, screenLeft'.mode = screenLeft.mode
      PROVE  ScreenInv' /\ Steady
  <2>1. InUse(desk) \in SUBSET Doc
    BY <1>1, DocFacts DEF InUse, Desks, Doc0
  <2>2. DeskOK(desk') /\ SameSave(desk, desk') /\ Steady
    BY <1>1, <1>3, <2>1, FetchKeeps, FetchFacts DEF SameSave, SamePick, Steady
  <2>3. RestMode' <=> RestMode
    BY <1>3 DEF RestMode
  <2>4. DataFits(desk)'
    BY <1>2, <2>2 DEF DeskOK, DataFits, Fits
  <2>5. DeskOK(desk)' /\ QuoteTrue' /\ OutlineReachable'
    BY <1>1, <1>2, <2>2, <2>3, <2>4 DEF DeskOK, Seeded, RestOK, LiveOK, OpenOK, QuoteTrue, OutlineReachable
  <2> QED
    BY <1>1, <1>2, <1>3, <2>2, <2>5, QuietKeeps
<1>4. CASE online /\ SpendScreen("outages") /\ online' = FALSE /\ UNCHANGED <<desk, put>>
  BY <1>1, <1>3, <1>4, SpendFacts
<1>5. CASE ~online /\ online' = TRUE /\ screenLeft' = screenLeft /\ desk' = refetchOnReconnect(desk) /\ put' = put
  BY <1>1, <1>3, <1>5 DEF refetchOnReconnect
<1>6. CASE ~online /\ online' = TRUE /\ screenLeft' = screenLeft /\ flush(refetchOnReconnect(desk))
  <2>1. InUse(desk) \in SUBSET Doc
    BY <1>1, DocFacts DEF InUse, Desks, Doc0
  <2> DEFINE d == Fetch(desk, InUse(desk))
  <2>2. DeskOK(d) /\ SameSave(desk, d) /\ SamePick(desk, d)
    BY <1>1, <2>1, FetchKeeps, FetchFacts
  <2>3. flush(d)
    BY <1>6 DEF refetchOnReconnect
  <2> HIDE DEF d
  <2> QED
    BY <1>1, <1>2, <1>6, <2>2, <2>3, FlushKeeps
<1> QED
  BY <1>4, <1>5, <1>6 DEF useFlushTriggers, Connectivity

\* A save or its answer lost.
LEMMA PutLostKeeps ==
    ASSUME ScreenInv, PutLost
    PROVE  ScreenInv'
<1>1. /\ put \in Puts /\ put # NoPut /\ put' = [put EXCEPT !.answer = "lost"] /\ desk' = desk
      /\ serverDocs' = serverDocs /\ farewells' = farewells /\ saveCrossed' = saveCrossed /\ sidebars' = sidebars
      /\ saveOverlapped' = saveOverlapped /\ stale' = stale /\ dropped' = dropped /\ surrendered' = surrendered
      /\ known' = known /\ latest' = latest /\ online' = online
  BY DEF PutLost, restOnly, ghostsOfScreen, ScreenInv, TypeInv
<1>2. put' \in Puts /\ put'.doc = put.doc /\ put'.text = put.text /\ put'.base = put.base /\ put'.answer = "lost"
  BY <1>1 DEF Puts, Answers
<1>3. screenLeft' \in Stories /\ (RestMode' <=> RestMode)
  BY SpendFacts DEF PutLost, ScreenInv, TypeInv, RestMode
<1>4. TypeInv'
  BY <1>1, <1>2, <1>3 DEF ScreenInv, TypeInv
<1>5. DeskInv'
  BY <1>1, <1>3 DEF ScreenInv, DeskInv, DeskOK, DataFits, Fits, Seeded, RestOK, LiveOK, OpenOK, QuoteTrue
<1>6. SaveInv'
  BY <1>1, <1>2 DEF ScreenInv, SaveInv, Fits
<1>7. SeenInv'
  BY <1>1, <1>2 DEF ScreenInv, SeenInv, SeenAt
<1>8. EditsInv'
  <2>1. Calm' => Calm
    BY <1>1 DEF Calm
  <2>2. \A p \in farewells : FarewellOK(p) =>
             /\ p.doc = put'.doc => put'.text = p.text \/ Safe(p.text)'
             /\ Safe(p.text)' \/ serverDocs'[p.doc].version = p.base \/ serverDocs'[p.doc].text = <<p.doc, 1>>
    BY <1>1, <1>2 DEF FarewellOK, Safe, Reached
  <2> QED
    BY <1>1, <2>1, <2>2, EditsStay
<1>9. OutlineReachable'
  BY <1>1 DEF ScreenInv, OutlineReachable
<1> QED
  BY <1>4, <1>5, <1>6, <1>7, <1>8, <1>9 DEF ScreenInv

\* What the backend's replace does to the documents.
LEMMA ReplaceFacts ==
    ASSUME serverDocs \in [Doc -> Data], NEW p, p.doc \in Doc, p.text \in Contents, p.base \in Nat,
           serverDocs' = replace_content(p)
    PROVE  /\ serverDocs' \in [Doc -> Data] /\ Grown
           /\ (Accepts(p) => serverDocs'[p.doc].text = p.text /\ serverDocs'[p.doc].version = p.base + 1)
           /\ (~Accepts(p) => serverDocs' = serverDocs)
           /\ \A d \in Doc : d # p.doc => serverDocs'[d] = serverDocs[d]
<1>1. CASE Accepts(p)
  <2> DEFINE x == [version |-> p.base + 1, text |-> p.text]
  <2>1. serverDocs' = [serverDocs EXCEPT ![p.doc] = x] /\ x \in Data /\ x.text = p.text /\ x.version = p.base + 1
    BY <1>1 DEF replace_content, Data
  <2>2. serverDocs[p.doc].version = p.base
    BY <1>1 DEF Accepts
  <2> HIDE DEF x
  <2>3. \A d \in Doc : serverDocs'[d] = IF d = p.doc THEN x ELSE serverDocs[d]
    BY <2>1
  <2>4. Grown
    <3> SUFFICES ASSUME NEW d \in Doc
                 PROVE  serverDocs'[d].version >= serverDocs[d].version
                        /\ (serverDocs'[d].version = serverDocs[d].version => serverDocs'[d] = serverDocs[d])
      BY DEF Grown
    <3>1. serverDocs[d].version \in Nat
      BY DEF Data
    <3> QED
      BY <2>1, <2>2, <2>3, <3>1
  <2> QED
    BY <1>1, <2>1, <2>3, <2>4
<1>2. CASE ~Accepts(p)
  <2>1. serverDocs' = serverDocs
    BY <1>2 DEF replace_content
  <2>2. \A d \in Doc : serverDocs[d].version \in Nat
    BY DEF Data
  <2> QED
    BY <1>2, <2>1, <2>2 DEF Grown
<1> QED
  BY <1>1, <1>2

\* A save reaches the server.
LEMMA PutServedKeeps ==
    ASSUME ScreenInv, PutServed
    PROVE  ScreenInv'
<1> DEFINE k == <<put.doc, serverDocs'[put.doc]>>
<1>1. /\ put # NoPut /\ put.answer = "none" /\ serverDocs' = replace_content(put)
      /\ known' = IF Accepts(put) THEN known \cup {k} ELSE known
      /\ put' = [put EXCEPT !.answer = IF Accepts(put) THEN "saved" ELSE "conflict", !.now = serverDocs'[put.doc]]
      /\ desk' = desk /\ farewells' = farewells /\ sidebars' = sidebars /\ online' = online
      /\ saveCrossed' = saveCrossed /\ saveOverlapped' = saveOverlapped /\ stale' = stale /\ dropped' = dropped
      /\ surrendered' = surrendered /\ latest' = latest /\ screenLeft' = screenLeft
  BY DEF PutServed
<1>2. put \in Puts /\ put.doc \in Doc /\ serverDocs \in [Doc -> Data] /\ \A d \in Doc : serverDocs[d].version > 0
  BY <1>1 DEF ScreenInv, TypeInv, SaveInv
<1>3. /\ serverDocs' \in [Doc -> Data] /\ Grown
      /\ (Accepts(put) => serverDocs'[put.doc].text = put.text /\ serverDocs'[put.doc].version = put.base + 1)
      /\ (~Accepts(put) => serverDocs' = serverDocs)
      /\ \A d \in Doc : d # put.doc => serverDocs'[d] = serverDocs[d]
  BY <1>1, <1>2, ReplaceFacts DEF Puts
<1>4. \A d \in Doc : serverDocs'[d].version > 0
  <2> SUFFICES ASSUME NEW d \in Doc
               PROVE  serverDocs'[d].version > 0
    OBVIOUS
  <2>1. serverDocs[d].version \in Nat /\ serverDocs'[d].version \in Nat
    BY <1>2, <1>3 DEF Data
  <2> QED
    BY <1>2, <1>3, <2>1 DEF Grown
<1>5. /\ put' \in Puts /\ put'.doc = put.doc /\ put'.text = put.text /\ put'.base = put.base
      /\ put'.now = serverDocs'[put.doc]
      /\ (Accepts(put) => put'.answer = "saved") /\ (~Accepts(put) => put'.answer = "conflict")
  BY <1>1, <1>2, <1>3 DEF Puts, Answers
<1>6. /\ DataFits(desk)' /\ (\A q \in known : Fits(q[2], q[1])')
      /\ \A d \in Doc, x \in Data : Fits(x, d) => Fits(x, d)'
  BY <1>1, <1>3, GrownKeeps
<1>7. \A d \in Doc : \A x : x = serverDocs'[d] => Fits(x, d)'
  BY <1>3 DEF Fits, Data
<1>8. k \in Doc \X Data /\ known \subseteq known'
  BY <1>1, <1>2, <1>3
<1>9. TypeInv'
  BY <1>1, <1>2, <1>3, <1>4, <1>5, <1>8 DEF ScreenInv, TypeInv
<1>10. DeskInv'
  BY <1>1, <1>6 DEF ScreenInv, DeskInv, DeskOK, Seeded, RestOK, LiveOK, OpenOK, QuoteTrue, RestMode
<1>11. SaveInv'
  <2>1. \A q \in known' : Fits(q[2], q[1])'
    BY <1>1, <1>2, <1>6, <1>7
  <2>2. \A x : x = put'.now => Fits(x, put.doc)'
    BY <1>2, <1>5, <1>7
  <2>3. Fits(put.now, put.doc)'
    BY <1>2, <1>5, <2>2 DEF Fits
  <2>4. put'.now.version > 0
    BY <1>2, <1>4, <1>5
  <2>5. put'.answer = "saved" => put'.now.text = put'.text /\ <<put'.doc, put'.now>> \in known'
    BY <1>1, <1>3, <1>5
  <2>6. /\ (desk.save.status = "conflict") <=> (desk.save.conflict # NoData)
        /\ desk.save.status # "conflict"
        /\ desk.save.status = "clean" => desk.save.local = desk.save.server
    BY <1>1 DEF ScreenInv, SaveInv
  <2> QED
    BY <1>1, <1>2, <1>5, <2>1, <2>3, <2>4, <2>5, <2>6 DEF SaveInv
<1>12. SeenInv'
  BY <1>1, <1>5, <1>8 DEF ScreenInv, SeenInv, SeenAt
<1>13. EditsInv'
  <2>1. Calm' => Calm
    BY <1>1 DEF Calm
  <2>2. \A p \in farewells : Safe(p.text) => Safe(p.text)'
    BY <1>1, <1>8 DEF Safe, Reached
  <2>3. \A p \in farewells : FarewellOK(p) /\ p.doc = put'.doc => put'.text = p.text \/ Safe(p.text)'
    BY <1>5, <2>2 DEF FarewellOK
  <2>4. ASSUME NEW p \in farewells, FarewellOK(p)
        PROVE  Safe(p.text)' \/ serverDocs'[p.doc].version = p.base \/ serverDocs'[p.doc].text = <<p.doc, 1>>
    <3>1. p.doc \in Doc
      BY DEF ScreenInv, TypeInv, Goodbyes
    <3>2. CASE p.doc = put.doc /\ Accepts(put)
      <4>1. put.text = p.text \/ Safe(p.text)
        BY <2>4, <3>2 DEF FarewellOK
      <4>2. put.text = p.text => Safe(p.text)'
        <5>1. k \in known' /\ k[2].text = put.text
          BY <1>1, <1>3, <3>2
        <5> QED
          BY <5>1, Zenon DEF Safe, Reached
      <4> QED
        BY <2>2, <4>1, <4>2
    <3>3. CASE ~(p.doc = put.doc /\ Accepts(put))
      BY <1>3, <2>2, <2>4, <3>1, <3>3 DEF FarewellOK
    <3> QED
      BY <3>2, <3>3
  <2> QED
    BY <1>1, <1>8, <2>1, <2>3, <2>4, EditsStay
<1>14. OutlineReachable'
  BY <1>1 DEF ScreenInv, OutlineReachable
<1> QED
  BY <1>9, <1>10, <1>11, <1>12, <1>13, <1>14 DEF ScreenInv

\* Another person's save reaches it.
LEMMA OtherSavesKeeps ==
    ASSUME ScreenInv, NEW d \in Doc, OtherSaves(d)
    PROVE  ScreenInv'
<1>1. /\ SpendScreen("others")
      /\ serverDocs' = [serverDocs EXCEPT ![d] = [version |-> @.version + 1, text |-> <<d, 1>>]]
      /\ desk' = desk /\ put' = put /\ farewells' = farewells /\ sidebars' = sidebars /\ online' = online
      /\ saveCrossed' = saveCrossed /\ saveOverlapped' = saveOverlapped /\ stale' = stale /\ dropped' = dropped
      /\ surrendered' = surrendered /\ latest' = latest /\ known' = known
  BY DEF OtherSaves, ghostsOfScreen
<1>2. screenLeft' \in Stories /\ (RestMode' <=> RestMode)
  BY <1>1, SpendFacts DEF ScreenInv, TypeInv, RestMode
<1>3. serverDocs \in [Doc -> Data] /\ \A x \in Doc : serverDocs[x].version \in Nat /\ serverDocs[x].version > 0
  BY DEF ScreenInv, TypeInv, Data
<1> DEFINE y == [version |-> serverDocs[d].version + 1, text |-> <<d, 1>>]
<1>4. serverDocs' = [serverDocs EXCEPT ![d] = y] /\ y \in Data /\ y.version = serverDocs[d].version + 1 /\ y.text = <<d, 1>>
  BY <1>1, <1>3 DEF Data, Contents, Doc0
<1> HIDE DEF y
<1>5. serverDocs' \in [Doc -> Data] /\ \A x \in Doc : serverDocs'[x] = IF x = d THEN y ELSE serverDocs[x]
  BY <1>3, <1>4
<1>6. Grown /\ \A x \in Doc : serverDocs'[x].version > 0
  BY <1>3, <1>4, <1>5 DEF Grown
<1>7. /\ DataFits(desk)' /\ (\A q \in known : Fits(q[2], q[1])')
      /\ \A x \in Doc, z \in Data : Fits(z, x) => Fits(z, x)'
  BY <1>1, <1>5, <1>6, GrownKeeps
<1>8. TypeInv'
  BY <1>1, <1>2, <1>5, <1>6 DEF ScreenInv, TypeInv
<1>9. DeskInv'
  BY <1>1, <1>2, <1>7 DEF ScreenInv, DeskInv, DeskOK, Seeded, RestOK, LiveOK, OpenOK, QuoteTrue
<1>10. SaveInv'
  <2>1. put.answer \in {"saved", "conflict"} => put.doc \in Doc /\ Fits(put.now, put.doc)' /\ put.now.version > 0
    <3> SUFFICES ASSUME put.answer \in {"saved", "conflict"}
                 PROVE  put.doc \in Doc /\ Fits(put.now, put.doc)' /\ put.now.version > 0
      OBVIOUS
    <3>1. put.now \in Data /\ put.doc \in Doc /\ Fits(put.now, put.doc) /\ put.now.version > 0
      BY DEF ScreenInv, TypeInv, SaveInv, Puts
    <3>2. \A z : z = put.now => Fits(z, put.doc)'
      <4> SUFFICES ASSUME NEW z, z = put.now
                   PROVE  \A x : x = put.doc => Fits(z, x)'
        BY <1>1 DEF Fits
      <4> QED
        BY <1>7, <3>1
    <3> QED
      BY <1>1, <3>1, <3>2 DEF Fits
  <2> QED
    BY <1>1, <1>7, <2>1 DEF ScreenInv, SaveInv
<1>11. SeenInv'
  BY <1>1 DEF ScreenInv, SeenInv, SeenAt
<1>12. EditsInv'
  <2>1. Calm' => Calm
    BY <1>1 DEF Calm
  <2>2. \A p \in farewells : Safe(p.text) => Safe(p.text)'
    BY <1>1 DEF Safe, Reached
  <2>3. \A p \in farewells : FarewellOK(p) /\ p.doc = put'.doc => put'.text = p.text \/ Safe(p.text)'
    BY <1>1, <2>2 DEF FarewellOK
  <2>4. \A p \in farewells : FarewellOK(p) =>
             Safe(p.text)' \/ serverDocs'[p.doc].version = p.base \/ serverDocs'[p.doc].text = <<p.doc, 1>>
    <3>1. \A p \in farewells : p.doc \in Doc
      BY DEF ScreenInv, TypeInv, Goodbyes
    <3> QED
      BY <1>4, <1>5, <2>2, <3>1 DEF FarewellOK
  <2> QED
    BY <1>1, <2>1, <2>3, <2>4, EditsStay
<1>13. OutlineReachable'
  BY <1>1 DEF ScreenInv, OutlineReachable
<1> QED
  BY <1>8, <1>9, <1>10, <1>11, <1>12, <1>13 DEF ScreenInv

\* The three answers of a save, as what they make of the autosave.
LEMMA AnswerFacts ==
    ASSUME ScreenInv, put # NoPut, put.answer # "none",
           NEW t, t = IF put.answer = "saved" THEN Saved(desk.save)
                      ELSE IF put.answer = "conflict" THEN Conflicted(desk.save) ELSE LoadFailed(desk.save)
    PROVE  /\ t \in Saves /\ t.doc = desk.save.doc /\ t.local = desk.save.local
           /\ t.status = "clean" => t.local = t.server
           /\ (t.status = "conflict") <=> (t.conflict # NoData)
           /\ put.answer = "saved" => t.base = put.now.version /\ t.server = put.now.text /\ t.conflict = NoData
           /\ put.answer # "saved" => t.base = desk.save.base /\ t.server = desk.save.server
           /\ t.conflict = NoData \/ (put.answer = "conflict" /\ t.conflict = put.now)
<1> DEFINE s == desk.save
<1>1. /\ s \in Saves /\ put \in Puts /\ s.status # "conflict" /\ s.conflict = NoData
      /\ put.answer \in {"saved", "conflict"} => put.now.version > 0
      /\ put.answer = "saved" => put.now.text = put.text
  BY DEF ScreenInv, TypeInv, SaveInv, Desks
<1>2. put.now \in Data /\ put.now.version \in Nat /\ put.text \in Contents /\ put.now.text \in Contents
  BY <1>1 DEF Puts, Data
<1>3. CASE put.answer = "saved"
  <2> DEFINE st == IF stillDirty(s) THEN "dirty" ELSE "clean"
             n == put.now.version
             x == put.text
  <2>1. t = [s EXCEPT !.base = n, !.server = x, !.retries = 0, !.status = st]
    BY <1>3 DEF Saved
  <2>2. st \in Statuses /\ st \in {"dirty", "clean"} /\ (st = "clean" => s.local = x) /\ n \in Nat /\ x \in Contents
    BY <1>2 DEF stillDirty, Statuses
  <2>3. x = put.now.text
    BY <1>1, <1>3
  <2> HIDE DEF st, n, x
  <2>4. t \in Saves /\ t.base = n /\ t.server = x /\ t.status = st /\ t.local = s.local
        /\ t.doc = s.doc /\ t.conflict = s.conflict
    <3>1. s \in Saves
      BY <1>1
    <3> HIDE DEF s
    <3> DEFINE e == [s EXCEPT !.base = n, !.server = x, !.retries = 0, !.status = st]
    <3>2. e \in Saves /\ e.base = n /\ e.server = x /\ e.status = st
      BY <2>2, <3>1 DEF Saves
    <3>3. e.local = s.local /\ e.doc = s.doc /\ e.conflict = s.conflict
      BY <3>1 DEF Saves
    <3>4. t = e
      BY <2>1
    <3> HIDE DEF e
    <3> QED
      BY <3>2, <3>3, <3>4
  <2> QED
    BY <1>1, <1>3, <2>2, <2>3, <2>4 DEF n
<1>4. CASE put.answer = "conflict"
  <2>1. t = [s EXCEPT !.status = "conflict", !.conflict = put.now]
    BY <1>4 DEF Conflicted
  <2>2. t \in Saves /\ t.base = s.base /\ t.server = s.server /\ t.status = "conflict" /\ t.local = s.local
        /\ t.doc = s.doc /\ t.conflict = put.now
    BY <1>1, <1>2, <2>1 DEF Saves, Statuses
  <2>3. put.now # NoData
    BY <1>1, <1>2, <1>4, StartValues
  <2> QED
    BY <1>4, <2>2, <2>3
<1>5. CASE put.answer # "saved" /\ put.answer # "conflict"
  <2> DEFINE n == IF s.retries > MAX_RETRIES THEN s.retries ELSE s.retries + 1
             st == IF ~Retries(s) \/ online THEN "error" ELSE "offline"
  <2>1. t = [s EXCEPT !.retries = n, !.status = st]
    BY <1>5 DEF LoadFailed
  <2>2. n \in Nat /\ st \in {"error", "offline"}
    BY <1>1 DEF Saves
  <2> HIDE DEF n, st
  <2>3. t \in Saves /\ t.base = s.base /\ t.server = s.server /\ t.status = st /\ t.local = s.local
        /\ t.doc = s.doc /\ t.conflict = s.conflict
    BY <1>1, <2>1, <2>2 DEF Saves, Statuses
  <2> QED
    BY <1>1, <1>5, <2>2, <2>3
<1> QED
  BY <1>3, <1>4, <1>5

\* The answer of a save comes.
LEMMA PutAnsweredKeeps ==
    ASSUME ScreenInv, PutAnswered
    PROVE  ScreenInv' /\ Steady
<1> DEFINE t == IF put.answer = "saved" THEN Saved(desk.save)
                ELSE IF put.answer = "conflict" THEN Conflicted(desk.save) ELSE LoadFailed(desk.save)
           g == patch(desk, t)
<1>1. /\ put # NoPut /\ put.answer # "none" /\ put' = NoPut
      /\ saveCrossed' = (saveCrossed \/ put.doc # desk.save.doc)
      /\ known' = IF put.answer = "conflict" THEN known \cup {<<put.doc, put.now>>} ELSE known
      /\ serverDocs' = serverDocs /\ farewells' = farewells /\ sidebars' = sidebars /\ online' = online
      /\ saveOverlapped' = saveOverlapped /\ stale' = stale /\ dropped' = dropped
      /\ surrendered' = surrendered /\ latest' = latest /\ screenLeft' = screenLeft
  BY DEF PutAnswered
<1>2. /\ t \in Saves /\ t.doc = desk.save.doc /\ t.local = desk.save.local
      /\ t.status = "clean" => t.local = t.server
      /\ (t.status = "conflict") <=> (t.conflict # NoData)
      /\ put.answer = "saved" => t.base = put.now.version /\ t.server = put.now.text /\ t.conflict = NoData
      /\ put.answer # "saved" => t.base = desk.save.base /\ t.server = desk.save.server
      /\ t.conflict = NoData \/ (put.answer = "conflict" /\ t.conflict = put.now)
  BY <1>1, AnswerFacts
<1>3. /\ desk \in Desks /\ DeskOK(desk) /\ put \in Puts /\ known \subseteq Doc \X Data /\ put.doc \in Doc
      /\ desk.save.status # "conflict" /\ desk.save.conflict = NoData
  BY <1>1 DEF ScreenInv, TypeInv, DeskInv, SaveInv
<1>4. \/ desk' = [g EXCEPT !.debounce = g.debounce \/ stillDirty(desk.save)]
      \/ desk' = g
      \/ desk' = [g EXCEPT !.retry = g.retry \/ Retries(desk.save)]
  BY DEF PutAnswered
<1> HIDE DEF t
<1>5. g \in Desks /\ SameElse(desk, g) /\ g.save \in {desk.save, t}
  BY <1>2, <1>3, PatchFacts
<1> HIDE DEF g
<1>6. desk' \in Desks /\ SameElse(g, desk') /\ desk'.save = g.save
  <2>1. PICK b \in BOOLEAN : b <=> (g.debounce \/ stillDirty(desk.save))
    BY Zenon
  <2>2. PICK c \in BOOLEAN : c <=> (g.retry \/ Retries(desk.save))
    BY Zenon
  <2>3. (g.debounce \/ stillDirty(desk.save)) = b
    BY <2>1
  <2>4. (g.retry \/ Retries(desk.save)) = c
    BY <2>2
  <2>5. desk' \in {[g EXCEPT !.debounce = b], g, [g EXCEPT !.retry = c]}
    BY <1>4, <2>3, <2>4
  <2>6. SameElse(g, g)
    BY DEF SameElse, SamePick
  <2> QED
    BY <1>5, <2>5, <2>6, TimerFacts
<1>7. /\ desk' \in Desks /\ SameElse(desk, desk') /\ desk'.save \in {desk.save, t}
      /\ desk'.save.doc = desk.save.doc /\ desk'.save.local = desk.save.local
  BY <1>2, <1>5, <1>6, ElseChain
<1>8. put.answer = "conflict" => <<put.doc, put.now>> \in Doc \X Data /\ Fits(put.now, put.doc)
  BY <1>3 DEF Puts, ScreenInv, SaveInv
<1>9. known' \subseteq Doc \X Data /\ known \subseteq known' /\ \A q \in known' : Fits(q[2], q[1])'
  BY <1>1, <1>3, <1>8 DEF ScreenInv, SaveInv, Fits
<1>10. TypeInv'
  BY <1>1, <1>7, <1>9, StartValues DEF ScreenInv, TypeInv, SameElse
<1>11. DeskInv'
  <2>1. DeskOK(desk')
    BY <1>3, <1>7, ElseKeeps
  <2> QED
    BY <1>1, <2>1 DEF ScreenInv, DeskInv, DeskOK, DataFits, Fits, Seeded, RestOK, LiveOK, OpenOK, QuoteTrue, RestMode
<1>12. SaveInv'
  <2>1. desk.save.status = "clean" => desk.save.local = desk.save.server
    BY DEF ScreenInv, SaveInv
  <2> QED
    BY <1>1, <1>2, <1>3, <1>7, <1>9, <2>1, StartValues DEF SaveInv
<1>13. SeenInv'
  <2> SUFFICES ASSUME ~saveCrossed, put.doc = desk.save.doc
               PROVE  /\ desk'.save.doc # NoDoc => <<desk'.save.doc, [version |-> desk'.save.base, text |-> desk'.save.server]>> \in known'
                      /\ desk'.save.conflict # NoData => desk'.save.doc # NoDoc /\ <<desk'.save.doc, desk'.save.conflict>> \in known'
                      /\ \A p \in farewells : SeenAt(p.doc, p.base)'
    BY <1>1 DEF SeenInv
  <2>1. /\ desk.save.doc # NoDoc => <<desk.save.doc, [version |-> desk.save.base, text |-> desk.save.server]>> \in known
        /\ \A p \in farewells : SeenAt(p.doc, p.base)
    BY DEF ScreenInv, SeenInv
  <2>2. \A p \in farewells : SeenAt(p.doc, p.base)'
    BY <1>9, <2>1 DEF SeenAt
  <2>3. CASE desk'.save = desk.save
    BY <1>3, <1>9, <2>1, <2>2, <2>3
  <2>4. CASE desk'.save = t
    <3>1. put.answer = "saved" => <<put.doc, put.now>> \in known /\ put.now = [version |-> put.now.version, text |-> put.now.text]
      BY <1>3 DEF ScreenInv, SaveInv, Puts, Data
    <3>2. t.doc # NoDoc => <<t.doc, [version |-> t.base, text |-> t.server]>> \in known'
      BY <1>2, <1>9, <2>1, <3>1
    <3>3. t.conflict # NoData => t.doc # NoDoc /\ <<t.doc, t.conflict>> \in known'
      BY <1>1, <1>2, <1>3, DocFacts
    <3> QED
      BY <2>2, <2>4, <3>2, <3>3
  <2> QED
    BY <1>7, <2>3, <2>4
<1>14. EditsInv'
  <2>1. Calm' => Calm
    BY <1>1 DEF Calm
  <2>2. \A p \in farewells : Safe(p.text) => Safe(p.text)'
    BY <1>1, <1>9 DEF Safe, Reached
  <2>3. \A p \in farewells : p.doc # put'.doc
    BY <1>1, StartValues, DocFacts DEF ScreenInv, TypeInv, Goodbyes
  <2>4. \A p \in farewells : FarewellOK(p) =>
             Safe(p.text)' \/ serverDocs'[p.doc].version = p.base \/ serverDocs'[p.doc].text = <<p.doc, 1>>
    BY <1>1, <2>2 DEF FarewellOK
  <2> QED
    BY <1>1, <1>7, <1>9, <2>1, <2>3, <2>4, EditsStay DEF SameElse
<1>15. OutlineReachable'
  BY <1>1 DEF ScreenInv, OutlineReachable
<1>16. Steady
  BY <1>7 DEF Steady, SameElse, SamePick
<1> QED
  BY <1>10, <1>11, <1>12, <1>13, <1>14, <1>15, <1>16 DEF ScreenInv

\* A farewell save reaches the server or is lost.
LEMMA FarewellServedKeeps ==
    ASSUME ScreenInv, NEW p \in farewells, FarewellServed(p)
    PROVE  ScreenInv'
<1> DEFINE k == <<p.doc, serverDocs'[p.doc]>>
           Stays == /\ serverDocs' = serverDocs /\ known' = known /\ dropped' = dropped \cup {p.text}
           Comes == /\ serverDocs' = replace_content(p)
                    /\ dropped' = IF serverDocs[p.doc].text = <<p.doc, 1>> THEN dropped \cup {p.text} ELSE dropped
                    /\ known' = IF Accepts(p) THEN known \cup {k} ELSE known
<1>1. /\ farewells' = farewells \ {p} /\ desk' = desk /\ put' = put /\ sidebars' = sidebars /\ online' = online
      /\ saveCrossed' = saveCrossed /\ saveOverlapped' = saveOverlapped /\ stale' = stale
      /\ surrendered' = surrendered /\ latest' = latest /\ (Stays \/ Comes)
  BY DEF FarewellServed
<1>2. screenLeft' \in Stories /\ (RestMode' <=> RestMode)
  BY SpendFacts DEF FarewellServed, ScreenInv, TypeInv, RestMode
<1>3. /\ p \in Goodbyes /\ p.doc \in Doc /\ p.text \in Contents /\ p.base \in Nat /\ farewells \subseteq Goodbyes
      /\ serverDocs \in [Doc -> Data] /\ \A d \in Doc : serverDocs[d].version > 0 /\ serverDocs[d].version \in Nat
  BY DEF ScreenInv, TypeInv, Goodbyes, Data
<1>4. /\ serverDocs' \in [Doc -> Data] /\ Grown
      /\ (Comes /\ Accepts(p) => serverDocs'[p.doc].text = p.text)
      /\ \A d \in Doc : d # p.doc => serverDocs'[d] = serverDocs[d]
  <2>1. CASE Stays
    BY <1>3, <2>1 DEF Grown, Accepts, replace_content
  <2>2. CASE Comes
    BY <1>3, <2>2, ReplaceFacts
  <2> QED
    BY <1>1, <1>3, <2>1, <2>2, ReplaceFacts
<1>5. \A d \in Doc : serverDocs'[d].version > 0
  <2> SUFFICES ASSUME NEW d \in Doc
               PROVE  serverDocs'[d].version > 0
    OBVIOUS
  <2>1. serverDocs[d].version \in Nat /\ serverDocs'[d].version \in Nat
    BY <1>3, <1>4 DEF Data
  <2> QED
    BY <1>3, <1>4, <2>1 DEF Grown
<1>6. /\ DataFits(desk)' /\ (\A q \in known : Fits(q[2], q[1])')
      /\ \A d \in Doc, x \in Data : Fits(x, d) => Fits(x, d)'
  BY <1>1, <1>4, GrownKeeps
<1>7. \A d \in Doc : \A x : x = serverDocs'[d] => Fits(x, d)'
  BY <1>4 DEF Fits, Data
<1>8. k \in Doc \X Data /\ known \subseteq known' /\ known' \subseteq known \cup {k} /\ dropped \subseteq dropped'
      /\ dropped' \subseteq dropped \cup {p.text}
  BY <1>1, <1>3, <1>4
<1>9. TypeInv'
  BY <1>1, <1>2, <1>3, <1>4, <1>5, <1>8 DEF ScreenInv, TypeInv
<1>10. DeskInv'
  BY <1>1, <1>2, <1>6 DEF ScreenInv, DeskInv, DeskOK, Seeded, RestOK, LiveOK, OpenOK, QuoteTrue
<1>11. SaveInv'
  <2>1. put.answer \in {"saved", "conflict"} => put.doc \in Doc /\ Fits(put.now, put.doc)' /\ put.now.version > 0
    <3> SUFFICES ASSUME put.answer \in {"saved", "conflict"}
                 PROVE  put.doc \in Doc /\ Fits(put.now, put.doc)' /\ put.now.version > 0
      OBVIOUS
    <3>1. put.now \in Data /\ put.doc \in Doc /\ Fits(put.now, put.doc) /\ put.now.version > 0
      BY DEF ScreenInv, TypeInv, SaveInv, Puts
    <3>2. \A z : z = put.now => Fits(z, put.doc)'
      <4> SUFFICES ASSUME NEW z, z = put.now
                   PROVE  \A x : x = put.doc => Fits(z, x)'
        BY <1>1 DEF Fits
      <4> QED
        BY <1>6, <3>1
    <3> QED
      BY <1>1, <3>1, <3>2 DEF Fits
  <2>2. \A q \in known' : Fits(q[2], q[1])'
    BY <1>3, <1>6, <1>7, <1>8
  <2>3. put.answer = "saved" => put.now.text = put.text /\ <<put.doc, put.now>> \in known'
    BY <1>8 DEF ScreenInv, SaveInv
  <2> QED
    BY <1>1, <2>1, <2>2, <2>3 DEF ScreenInv, SaveInv
<1>12. SeenInv'
  BY <1>1, <1>8 DEF ScreenInv, SeenInv, SeenAt
<1>13. EditsInv'
  <2> SUFFICES ASSUME Calm
               PROVE  (\A d \in Doc : Held(d)') /\ LeftKept' /\ \A q \in farewells' : FarewellOK(q)'
    BY <1>1 DEF EditsInv, Calm
  <2>1. (\A d \in Doc : Held(d)) /\ LeftKept /\ \A q \in farewells : FarewellOK(q)
    BY DEF ScreenInv, EditsInv
  <2>2. \A t : Safe(t) => Safe(t)'
    BY <1>1, <1>8 DEF Safe, Reached
  <2>3. \A t : t = p.text => Safe(t)'
    <3> SUFFICES ASSUME NEW t, t = p.text
                 PROVE  Safe(t)'
      OBVIOUS
    <3>1. Safe(t) \/ serverDocs[p.doc].version = p.base \/ serverDocs[p.doc].text = <<p.doc, 1>>
      BY <2>1 DEF FarewellOK
    <3>2. CASE Stays \/ (Comes /\ serverDocs[p.doc].text = <<p.doc, 1>>)
      BY <3>2 DEF Safe
    <3>3. CASE Comes /\ serverDocs[p.doc].version = p.base
      <4>1. Accepts(p)
        BY <3>3 DEF Accepts
      <4>2. k \in known' /\ k[2].text = t
        BY <1>4, <3>3, <4>1
      <4> QED
        BY <4>2, Zenon DEF Safe, Reached
    <3> QED
      BY <1>1, <2>2, <3>1, <3>2, <3>3
  <2>4. \A t : (\E q \in farewells : q.text = t) => Safe(t)' \/ \E q \in farewells' : q.text = t
    BY <1>1, <2>3
  <2>5. ASSUME NEW d \in Doc
        PROVE  Held(d)'
    <3>1. Held(d)
      BY <2>1
    <3>2. (\E q \in farewells : q.text = latest[d]) => Held(d)'
      BY <1>1, <2>4 DEF Held, Safe, Reached
    <3>3. Safe(latest[d]) => Held(d)'
      BY <1>1, <2>2 DEF Held, Safe, Reached
    <3> QED
      BY <1>1, <3>1, <3>2, <3>3 DEF Held, Safe
  <2>6. LeftKept'
    <3>1. desk.save.doc # NoDoc /\ Away(desk) => Safe(desk.save.local) \/ \E q \in farewells : q.text = desk.save.local
      BY <2>1 DEF LeftKept
    <3> QED
      BY <1>1, <2>2, <2>4, <3>1 DEF LeftKept, Away, Safe, Reached
  <2>7. ASSUME NEW q \in farewells'
        PROVE  FarewellOK(q)'
    <3>1. q \in farewells /\ q # p /\ q.doc \in Doc /\ FarewellOK(q)
      BY <1>1, <1>3, <2>1 DEF Goodbyes
    <3>2. q.doc # p.doc
      BY <3>1 DEF FarewellOK
    <3>3. serverDocs'[q.doc] = serverDocs[q.doc]
      BY <1>4, <3>1, <3>2
    <3>4. Safe(q.text) => Safe(q.text)'
      BY <2>2
    <3>5. (Away(desk)' <=> Away(desk)) /\ desk'.save = desk.save
      BY <1>1 DEF Away
    <3> QED
      BY <1>1, <3>1, <3>3, <3>4, <3>5 DEF FarewellOK
  <2> QED
    BY <2>5, <2>6, <2>7
<1>14. OutlineReachable'
  BY <1>1 DEF ScreenInv, OutlineReachable
<1> QED
  BY <1>9, <1>10, <1>11, <1>12, <1>13, <1>14 DEF ScreenInv

\* A key typed, written out: the view shows the text, the autosave holds it and is clean or dirty.
LEMMA ChangeFacts ==
    ASSUME NEW d \in Desks, d.save.status # "conflict", NEW text \in Contents, NEW e, e = onLocalChange(d, text),
           d.save.status = "clean" => d.save.local = d.save.server
    PROVE  /\ e \in Desks /\ SameElse(d, e)
           /\ e.save.doc = d.save.doc /\ e.save.base = d.save.base /\ e.save.server = d.save.server
           /\ e.save.local = text /\ e.save.conflict = d.save.conflict /\ e.save.status # "conflict"
           /\ (e.save.status = "clean" => e.save.local = e.save.server)
<1>1. CASE text = d.save.local
  BY <1>1 DEF onLocalChange, SameElse, SamePick
<1>2. CASE text # d.save.local
  <2> DEFINE st == IF text = d.save.server THEN "clean" ELSE "dirty"
             s == [d.save EXCEPT !.local = text, !.status = st]
  <2>1. PICK b \in BOOLEAN : b <=> (d.debounce \/ st = "dirty")
    BY Zenon
  <2>2. (d.debounce \/ st = "dirty") = b
    BY <2>1
  <2>3. e = [d EXCEPT !.save.local = text, !.save.status = st, !.debounce = b]
    BY <1>2, <2>2 DEF onLocalChange
  <2>4. d.save \in Saves /\ st \in Statuses /\ st # "conflict" /\ (st = "clean" => text = d.save.server)
    BY DEF Desks, Statuses
  <2> HIDE DEF st
  <2>5. /\ s \in Saves /\ s.doc = d.save.doc /\ s.base = d.save.base /\ s.server = d.save.server
        /\ s.local = text /\ s.conflict = d.save.conflict /\ s.status = st
    BY <2>4 DEF Saves
  <2>6. e = [d EXCEPT !.save = s, !.debounce = b]
    BY <2>3 DEF Desks
  <2> HIDE DEF s
  <2>7. e \in Desks /\ e.save = s
    BY <2>5, <2>6, ZenonT(60) DEF Desks
  <2>8. SameElse(d, e)
    BY <2>6 DEF Desks, SameElse, SamePick
  <2> QED
    BY <2>4, <2>5, <2>7, <2>8
<1> QED
  BY <1>1, <1>2

\* The view that shows what was typed.
LEMMA ViewTyped ==
    ASSUME NEW d \in Desks, NEW text \in Contents
    PROVE  LET e == [d EXCEPT !.view.text = text, !.view.astray = FALSE]
           IN  /\ e \in Desks /\ SameSave(d, e) /\ SamePick(d, e)
               /\ e.cache = d.cache /\ e.held = d.held /\ e.marked = d.marked
               /\ e.view.doc = d.view.doc /\ e.view.text = text
<1> DEFINE v == [d.view EXCEPT !.text = text, !.astray = FALSE]
<1>1. [d EXCEPT !.view.text = text, !.view.astray = FALSE] = [d EXCEPT !.view = v]
  BY DEF Desks
<1>2. v \in Views /\ v.doc = d.view.doc /\ v.text = text
  BY DEF Desks, Views
<1> HIDE DEF v
<1> QED
  BY <1>1, <1>2 DEF Desks, SameSave, SamePick

\* Typing keeps the invariant.
LEMMA TypeKeeps ==
    ASSUME ScreenInv, Type
    PROVE  ScreenInv' /\ Steady
<1>1. /\ RestMode /\ ~desk.left /\ desk.view.doc # NoDoc /\ desk.save.conflict = NoData
      /\ serverDocs' = serverDocs /\ put' = put /\ farewells' = farewells /\ sidebars' = sidebars /\ online' = online
      /\ saveCrossed' = saveCrossed /\ saveOverlapped' = saveOverlapped /\ stale' = stale /\ dropped' = dropped
      /\ surrendered' = surrendered /\ known' = known
  BY DEF Type, Modal
<1>2. /\ desk \in Desks /\ DeskOK(desk) /\ desk.save \in Saves /\ latest \in [Doc -> Contents]
      /\ desk.save.status # "conflict" /\ (desk.save.status = "clean" => desk.save.local = desk.save.server)
  BY <1>1 DEF ScreenInv, TypeInv, DeskInv, SaveInv, Desks
<1>3. /\ desk.view.doc = desk.loaded /\ desk.save.doc = desk.loaded /\ desk.loaded # NoDoc /\ desk.save.doc \in Doc
      /\ desk.view # PaneUnmounted
  BY <1>1, <1>2, StartValues DEF DeskOK, RestOK, Seeded, Desks, Doc0
<1>4. PICK text \in Contents : Types(text)
  <2>1. CASE SpendScreen("edits") /\ Types(<<desk.save.doc, screenLeft'.edits + 2>>)
    <3>1. screenLeft'.edits \in Nat
      BY <2>1, SpendFacts DEF ScreenInv, TypeInv, Stories
    <3>2. <<desk.save.doc, screenLeft'.edits + 2>> \in Contents
      BY <1>3, <3>1 DEF Contents, Doc0
    <3> QED
      BY <2>1, <3>2
  <2>2. CASE Types(desk.save.server)
    BY <1>2, <2>2 DEF Saves
  <2> QED
    BY <2>1, <2>2 DEF Type
<1>5. screenLeft' \in Stories /\ (RestMode' <=> RestMode)
  BY SpendFacts DEF Type, ScreenInv, TypeInv, RestMode
<1> DEFINE a == [desk EXCEPT !.view.text = text, !.view.astray = FALSE]
<1>6. desk' = onLocalChange(a, text) /\ latest' = [latest EXCEPT ![desk.save.doc] = text]
  BY <1>4 DEF Types
<1>7. /\ a \in Desks /\ SameSave(desk, a) /\ SamePick(desk, a)
      /\ a.cache = desk.cache /\ a.held = desk.held /\ a.marked = desk.marked
      /\ a.view.doc = desk.view.doc /\ a.view.text = text
  BY <1>2, ViewTyped
<1> HIDE DEF a
<1>8. /\ desk' \in Desks /\ SameElse(a, desk')
      /\ desk'.save.doc = desk.save.doc /\ desk'.save.base = desk.save.base /\ desk'.save.server = desk.save.server
      /\ desk'.save.local = text /\ desk'.save.conflict = NoData /\ desk'.save.status # "conflict"
      /\ (desk'.save.status = "clean" => desk'.save.local = desk'.save.server)
  BY <1>1, <1>2, <1>6, <1>7, ChangeFacts DEF SameSave
<1>9. /\ desk'.loaded = desk.loaded /\ desk'.left = desk.left /\ desk'.out = desk.out /\ desk'.seeded = desk.seeded
      /\ desk'.view.doc = desk.view.doc /\ desk'.view.text = text /\ desk'.cache = desk.cache /\ desk'.held = desk.held
      /\ SamePick(desk, desk')
  BY <1>7, <1>8 DEF SameElse, SameSave, SamePick
<1>10. TypeInv'
  BY <1>1, <1>2, <1>3, <1>5, <1>6, <1>8, <1>9 DEF ScreenInv, TypeInv
<1>11. DeskInv'
  <2>1. DataFits(desk)'
    BY <1>1, <1>2, <1>9 DEF DeskOK, DataFits, Fits
  <2>2. Seeded(desk)' /\ RestOK(desk)' /\ LiveOK(desk)' /\ OpenOK(desk)' /\ QuoteTrue'
    BY <1>1, <1>2, <1>3, <1>5, <1>8, <1>9 DEF DeskOK, Seeded, RestOK, LiveOK, OpenOK, SamePick, QuoteTrue
  <2> QED
    BY <1>8, <2>1, <2>2 DEF DeskInv, DeskOK
<1>12. SaveInv'
  BY <1>1, <1>8 DEF ScreenInv, SaveInv, Fits
<1>13. SeenInv'
  BY <1>1, <1>8 DEF ScreenInv, SeenInv, SeenAt
<1>14. EditsInv'
  <2> SUFFICES ASSUME Calm
               PROVE  (\A d \in Doc : Held(d)') /\ LeftKept' /\ \A q \in farewells : FarewellOK(q)'
    BY <1>1 DEF EditsInv, Calm
  <2>1. (\A d \in Doc : Held(d)) /\ \A q \in farewells : FarewellOK(q)
    BY DEF ScreenInv, EditsInv
  <2>2. ASSUME NEW d \in Doc
        PROVE  Held(d)'
    <3>1. CASE d = desk.save.doc
      BY <1>1, <1>2, <1>6, <1>8, <1>9, <3>1 DEF Held
    <3>2. CASE d # desk.save.doc
      <4>1. latest'[d] = latest[d] /\ Held(d)
        BY <1>2, <1>6, <2>1, <3>2
      <4> QED
        BY <1>1, <3>2, <4>1 DEF Held, Reached
    <3> QED
      BY <3>1, <3>2
  <2>3. ~Away(desk) /\ ~Away(desk)'
    BY <1>1, <1>3, <1>9 DEF Away
  <2>4. \A q \in farewells : FarewellOK(q)'
    BY <1>1, <1>8, <2>1, <2>3 DEF FarewellOK, Safe, Reached
  <2> QED
    BY <2>2, <2>3, <2>4 DEF LeftKept
<1>15. OutlineReachable'
  BY <1>1 DEF ScreenInv, OutlineReachable
<1>16. Steady
  BY <1>9 DEF Steady, SamePick
<1> QED
  BY <1>10, <1>11, <1>12, <1>13, <1>14, <1>15, <1>16 DEF ScreenInv

\* The two choices of the dialog, written out.
LEMMA ResolveFacts ==
    ASSUME NEW s \in Saves
    PROVE  /\ resolveReload(s) \in Saves /\ resolveReload(s).doc = s.doc /\ resolveReload(s).base = s.conflict.version
           /\ resolveReload(s).server = s.conflict.text /\ resolveReload(s).local = s.conflict.text
           /\ resolveReload(s).shown = s.conflict.text
           /\ resolveReload(s).status = "clean" /\ resolveReload(s).conflict = NoData
           /\ resolveKeepMine(s) \in Saves /\ resolveKeepMine(s).doc = s.doc
           /\ resolveKeepMine(s).base = s.conflict.version /\ resolveKeepMine(s).server = s.conflict.text
           /\ resolveKeepMine(s).local = s.local /\ resolveKeepMine(s).status = "dirty"
           /\ resolveKeepMine(s).conflict = NoData
<1> DEFINE n == s.conflict.version
           x == s.conflict.text
<1>1. n \in Nat /\ x \in Contents /\ NoData \in Data
  BY StartValues DEF Saves, Data
<1>2. /\ resolveReload(s) = [s EXCEPT !.local = x, !.shown = x, !.server = x, !.base = n, !.status = "clean", !.conflict = NoData]
      /\ resolveKeepMine(s) = [s EXCEPT !.base = n, !.server = x, !.status = "dirty", !.conflict = NoData]
  BY DEF resolveReload, resolveKeepMine
<1> HIDE DEF n, x
<1>3. /\ resolveReload(s) \in Saves /\ resolveReload(s).doc = s.doc /\ resolveReload(s).base = n
      /\ resolveReload(s).server = x /\ resolveReload(s).local = x /\ resolveReload(s).shown = x
      /\ resolveReload(s).status = "clean" /\ resolveReload(s).conflict = NoData
  <2> DEFINE e == [s EXCEPT !.local = x, !.shown = x, !.server = x, !.base = n, !.status = "clean", !.conflict = NoData]
  <2>1. e \in Saves
    BY <1>1 DEF Saves, Statuses
  <2>2. e.doc = s.doc /\ e.base = n /\ e.server = x
    BY DEF Saves
  <2>3. e.local = x /\ e.shown = x /\ e.status = "clean" /\ e.conflict = NoData
    BY DEF Saves
  <2> HIDE DEF e
  <2> QED
    BY <1>2, <2>1, <2>2, <2>3 DEF e
<1>4. /\ resolveKeepMine(s) \in Saves /\ resolveKeepMine(s).doc = s.doc
      /\ resolveKeepMine(s).base = n /\ resolveKeepMine(s).server = x
      /\ resolveKeepMine(s).local = s.local /\ resolveKeepMine(s).status = "dirty"
      /\ resolveKeepMine(s).conflict = NoData
  BY <1>1, <1>2 DEF Saves, Statuses
<1> QED
  BY <1>3, <1>4 DEF n, x

\* The conflict dialog keeps the invariant.
LEMMA ConflictKeeps ==
    ASSUME ScreenInv, ConflictDialog
    PROVE  ScreenInv' /\ Steady
<1> DEFINE r == resolveReload(desk.save)
           m == resolveKeepMine(desk.save)
           a == [desk EXCEPT !.save = r]
           b == [desk EXCEPT !.save = m, !.debounce = TRUE]
           Reloads == desk' = swapText(a, desk.save.shown) /\ surrendered' = surrendered \cup {desk.save.local}
           Keeps == desk' = b /\ surrendered' = surrendered
<1>1. /\ ~desk.left /\ desk.save.conflict # NoData /\ (Reloads \/ Keeps)
      /\ serverDocs' = serverDocs /\ put' = put /\ farewells' = farewells /\ sidebars' = sidebars /\ online' = online
      /\ saveCrossed' = saveCrossed /\ saveOverlapped' = saveOverlapped /\ stale' = stale /\ dropped' = dropped
      /\ known' = known /\ latest' = latest /\ screenLeft' = screenLeft
  BY DEF ConflictDialog
<1>2. /\ desk \in Desks /\ DeskOK(desk) /\ desk.save \in Saves /\ put = NoPut /\ surrendered \subseteq Contents
      /\ desk.save.conflict \in Data
  BY <1>1 DEF ScreenInv, TypeInv, DeskInv, SaveInv, Desks, Saves
<1>3. /\ r \in Saves /\ r.doc = desk.save.doc /\ r.base = desk.save.conflict.version
      /\ r.server = desk.save.conflict.text /\ r.local = desk.save.conflict.text /\ r.shown = desk.save.conflict.text
      /\ r.status = "clean" /\ r.conflict = NoData
      /\ m \in Saves /\ m.doc = desk.save.doc /\ m.base = desk.save.conflict.version
      /\ m.server = desk.save.conflict.text /\ m.local = desk.save.local /\ m.status = "dirty" /\ m.conflict = NoData
  BY <1>2, ResolveFacts
<1> HIDE DEF r, m
<1>4. /\ a \in Desks /\ SameElse(desk, a) /\ a.save = r /\ b \in Desks /\ SameElse(desk, b) /\ b.save = m
  BY <1>2, <1>3 DEF Desks, SameElse, SamePick
<1> HIDE DEF a, b
<1>5. Keeps => desk' \in Desks /\ DeskOK(desk') /\ desk'.save = m /\ desk'.loaded = desk.loaded /\ desk'.left = desk.left
               /\ desk'.out = desk.out /\ desk'.seeded = desk.seeded /\ Steady
  BY <1>2, <1>3, <1>4, ElseKeeps DEF SameElse, SamePick, Steady
<1>6. Reloads => desk' \in Desks /\ DeskOK(desk') /\ desk'.save = r /\ desk'.loaded = desk.loaded /\ desk'.left = desk.left
               /\ desk'.out = desk.out /\ desk'.seeded = desk.seeded /\ Steady
  <2> SUFFICES ASSUME Reloads
               PROVE  desk' \in Desks /\ DeskOK(desk') /\ desk'.save = r /\ desk'.loaded = desk.loaded
                      /\ desk'.left = desk.left /\ desk'.out = desk.out /\ desk'.seeded = desk.seeded /\ Steady
    OBVIOUS
  <2> DEFINE e == swapText(a, desk.save.shown)
  <2>1. /\ e \in Desks /\ SameSave(a, e) /\ SamePick(a, e)
        /\ e.cache = a.cache /\ e.held = a.held /\ e.last = a.last /\ e.marked = a.marked
        /\ (RestMode => \/ e.view = PaneUnmounted
                        \/ e.view.doc = a.loaded /\ (~e.view.astray => e.view.text = a.save.shown))
        /\ (~RestMode => e.view = a.view)
    BY <1>4, SwapFacts
  <2>2. a.view = PaneUnmounted => e = a
    BY DEF swapText
  <2>3. desk' = e
    OBVIOUS
  <2> HIDE DEF e
  <2>4. DataFits(e)
    BY <1>2, <1>4, <2>1, SameData DEF DeskOK, SameElse
  <2>5. Seeded(e) /\ LiveOK(e) /\ OpenOK(e)
    BY <1>2, <1>3, <1>4, <2>1 DEF DeskOK, SameElse, SameSave, SamePick, Seeded, LiveOK, OpenOK
  <2>6. RestOK(e)
    <3>1. CASE RestMode /\ e.view # PaneUnmounted
      <4>1. desk.view # PaneUnmounted
        BY <1>4, <2>2, <3>1 DEF SameElse
      <4>2. desk.loaded # NoDoc
        BY <1>2, <3>1, <4>1 DEF DeskOK, RestOK
      <4> QED
        BY <1>3, <1>4, <2>1, <3>1, <4>2 DEF RestOK, SameElse, SameSave
    <3> QED
      BY <3>1 DEF RestOK
  <2> QED
    BY <1>4, <2>1, <2>3, <2>4, <2>5, <2>6 DEF DeskOK, SameElse, SameSave, SamePick, Steady
<1>7. /\ desk' \in Desks /\ DeskOK(desk') /\ desk'.loaded = desk.loaded /\ desk'.left = desk.left
      /\ desk'.out = desk.out /\ desk'.seeded = desk.seeded /\ Steady
      /\ desk'.save.doc = desk.save.doc /\ desk'.save.base = desk.save.conflict.version
      /\ desk'.save.server = desk.save.conflict.text /\ desk'.save.status # "conflict" /\ desk'.save.conflict = NoData
      /\ (desk'.save.status = "clean" => desk'.save.local = desk'.save.server)
      /\ surrendered \subseteq surrendered' /\ surrendered' \subseteq surrendered \cup {desk.save.local}
      /\ \/ desk'.save.local = desk.save.local
         \/ desk'.save.local = desk.save.conflict.text /\ desk.save.local \in surrendered'
  <2>1. CASE Keeps
    BY <1>3, <1>5, <2>1
  <2>2. CASE Reloads
    BY <1>3, <1>6, <2>2
  <2> QED
    BY <1>1, <2>1, <2>2
<1> HIDE DEF Reloads, Keeps
<1>8. RestMode' <=> RestMode
  BY <1>1 DEF RestMode
<1>9. TypeInv'
  BY <1>1, <1>2, <1>7 DEF ScreenInv, TypeInv, Saves
<1>10. DeskInv'
  BY <1>1, <1>7, <1>8 DEF ScreenInv, DeskInv, DeskOK, DataFits, Fits, Seeded, RestOK, LiveOK, OpenOK, QuoteTrue
<1>11. SaveInv'
  BY <1>1, <1>2, <1>7 DEF ScreenInv, SaveInv, Fits
<1>12. desk.save.conflict = [version |-> desk.save.conflict.version, text |-> desk.save.conflict.text]
  BY <1>2 DEF Data
<1>13. ~saveCrossed => <<desk.save.doc, desk.save.conflict>> \in known
  BY <1>1 DEF ScreenInv, SeenInv
<1>14. SeenInv'
  <2>1. ~saveCrossed => <<desk'.save.doc, [version |-> desk'.save.base, text |-> desk'.save.server]>> \in known
    BY <1>7, <1>12, <1>13
  <2> QED
    BY <1>1, <1>7, <2>1 DEF ScreenInv, SeenInv, SeenAt
<1>15. EditsInv'
  <2> SUFFICES ASSUME Calm
               PROVE  (\A d \in Doc : Held(d)') /\ LeftKept' /\ \A q \in farewells : FarewellOK(q)'
    BY <1>1 DEF EditsInv, Calm
  <2>1. (\A d \in Doc : Held(d)) /\ LeftKept /\ \A q \in farewells : FarewellOK(q)
    BY DEF ScreenInv, EditsInv
  <2>2. \A t : Safe(t) => Safe(t)'
    BY <1>1, <1>7 DEF Safe, Reached
  <2>3. ASSUME NEW d \in Doc
        PROVE  Held(d)'
    <3>1. Held(d)
      BY <2>1
    <3> QED
      BY <1>1, <1>7, <3>1 DEF Held, Reached
  <2>4. \A t : t = desk.save.conflict.text => Safe(t)'
    <3>1. <<desk.save.doc, desk.save.conflict>> \in known'
      BY <1>1, <1>13 DEF Calm
    <3> QED
      BY <3>1 DEF Safe, Reached
  <2>5. \A t : t = desk.save.local => desk'.save.local = t \/ Safe(t)'
    BY <1>7 DEF Safe
  <2>6. Away(desk)' <=> Away(desk)
    BY <1>7 DEF Away
  <2>7. LeftKept'
    <3>1. desk.save.doc # NoDoc /\ Away(desk) => Safe(desk.save.local) \/ \E q \in farewells : q.text = desk.save.local
      BY <2>1 DEF LeftKept
    <3>2. CASE desk'.save.local = desk.save.local
      <4>1. \A t : t = desk.save.local /\ Safe(t) => Safe(t)'
        BY <2>2
      <4> QED
        BY <1>1, <1>7, <2>6, <3>1, <3>2, <4>1 DEF LeftKept, Safe, Reached
    <3>3. CASE desk'.save.local = desk.save.conflict.text
      <4>1. Safe(desk.save.local)'
        BY <1>1, <2>4, <3>3 DEF Safe, Reached
      <4> QED
        BY <4>1 DEF LeftKept
    <3> QED
      BY <1>7, <3>2, <3>3
  <2>8. ASSUME NEW q \in farewells
        PROVE  FarewellOK(q)'
    <3>1. FarewellOK(q) /\ (Safe(q.text) => Safe(q.text)')
      BY <2>1, <2>2
    <3>2. q.text = desk.save.local => desk'.save.local = q.text \/ Safe(q.text)'
      BY <2>5
    <3> QED
      BY <1>1, <1>7, <2>6, <3>1, <3>2 DEF FarewellOK
  <2> QED
    BY <2>3, <2>7, <2>8
<1>16. OutlineReachable'
  BY <1>1 DEF ScreenInv, OutlineReachable
<1> QED
  BY <1>7, <1>9, <1>10, <1>11, <1>14, <1>15, <1>16 DEF ScreenInv

\* The screen is left, or the guard asks first.
LEMMA LeaveKeeps ==
    ASSUME ScreenInv, UnsavedChangesGuard
    PROVE  ScreenInv' /\ Steady
<1> DEFINE a == [desk EXCEPT !.blocked = TRUE]
           b == [desk EXCEPT !.blocked = FALSE]
           c == [clearTimers(desk) EXCEPT !.left = TRUE, !.blocked = FALSE]
           Asks == desk' \in {a, b} /\ UNCHANGED <<farewells, saveOverlapped, surrendered>>
           Leaves == /\ desk' = c /\ Farewell(TRUE)
                     /\ surrendered' = IF desk.save.status = "conflict" THEN surrendered \cup {desk.save.local} ELSE surrendered
<1>1. /\ ~desk.left /\ (Asks \/ Leaves) /\ SpendScreen("leaves")
      /\ serverDocs' = serverDocs /\ put' = put /\ sidebars' = sidebars /\ online' = online
      /\ saveCrossed' = saveCrossed /\ stale' = stale /\ dropped' = dropped
      /\ known' = known /\ latest' = latest
  BY DEF UnsavedChangesGuard
<1>2. /\ desk \in Desks /\ DeskOK(desk) /\ screenLeft \in Stories /\ sidebars \in Sides /\ online \in BOOLEAN
      /\ sidebars.current \in 0..sidebars.rows /\ QuoteTrue /\ OutlineReachable /\ ~desk.out /\ ~desk.seeded
  BY DEF ScreenInv, TypeInv, DeskInv
<1>3. screenLeft' \in Stories /\ (RestMode' <=> RestMode)
  BY <1>1, <1>2, SpendFacts DEF RestMode
<1>4. /\ a \in Desks /\ SameElse(desk, a) /\ a.save = desk.save
      /\ b \in Desks /\ SameElse(desk, b) /\ b.save = desk.save
  BY <1>2 DEF Desks, SameElse, SamePick
<1>5. /\ c \in Desks /\ c.save = desk.save /\ SamePick(desk, c) /\ c.loaded = desk.loaded /\ c.left = TRUE
      /\ c.out = desk.out /\ c.seeded = desk.seeded
      /\ c.cache = desk.cache /\ c.held = desk.held /\ c.view = desk.view /\ c.marked = desk.marked
  BY <1>2 DEF clearTimers, Desks, SamePick
<1> HIDE DEF a, b, c
<1>6. CASE Asks
  <2>1. /\ SameElse(desk, desk') /\ desk'.save = desk.save /\ desk' \in Desks
        /\ farewells' = farewells /\ saveOverlapped' = saveOverlapped /\ surrendered' = surrendered
    BY <1>4, <1>6
  <2>2. DeskOK(desk')
    BY <1>2, <2>1, ElseKeeps
  <2>3. DeskOK(desk)' /\ QuoteTrue' /\ OutlineReachable'
    BY <1>1, <1>2, <1>3, <2>2 DEF DeskOK, DataFits, Fits, Seeded, RestOK, LiveOK, OpenOK, QuoteTrue, OutlineReachable
  <2>4. SameSave(desk, desk') /\ Steady
    BY <2>1 DEF SameElse, SameSave, SamePick, Steady
  <2>5. UNCHANGED <<serverDocs, put, farewells, ghostsOfScreen>>
    BY <1>1, <2>1 DEF ghostsOfScreen
  <2> QED
    BY <1>1, <1>2, <1>3, <2>3, <2>4, <2>5, QuietKeeps
<1>7. CASE Leaves
  <2>1. /\ farewells \subseteq farewells' /\ farewells' \subseteq Goodbyes
        /\ \A p \in farewells' : p \in farewells \/ (p = goodbye(desk) /\ p.doc = desk.save.doc /\ p.base = desk.save.base
                                     /\ p.text = desk.save.local /\ desk.loaded # NoDoc /\ desk.save.doc \in Doc)
        /\ (desk.loaded # NoDoc /\ Unsaved(desk.save) => goodbye(desk) \in farewells' /\ goodbye(desk).text = desk.save.local)
        /\ saveOverlapped' \in BOOLEAN /\ (saveOverlapped => saveOverlapped')
        /\ (~saveOverlapped' => desk.save.status # "conflict")
        /\ (~saveOverlapped' /\ farewells' # farewells => put = NoPut /\ serverDocs[desk.save.doc].version = desk.save.base)
    BY <1>7, FarewellFacts DEF ScreenInv
  <2>2. /\ desk' = c /\ surrendered \subseteq surrendered' /\ surrendered' \subseteq surrendered \cup {desk.save.local}
    BY <1>7
  <2>3. /\ desk' \in Desks /\ desk'.save = desk.save /\ desk'.loaded = desk.loaded /\ desk'.left = TRUE
        /\ desk'.out = desk.out /\ desk'.seeded = desk.seeded
    BY <1>5, <2>2
  <2>4. TypeInv'
    BY <1>1, <1>2, <1>3, <2>1, <2>2, <2>3 DEF ScreenInv, TypeInv, Desks, Saves
  <2>5. DeskInv'
    BY <1>1, <1>2, <1>3, <1>5, <2>2 DEF DeskInv, DeskOK, DataFits, Fits, Seeded, RestOK, LiveOK, OpenOK, QuoteTrue, SamePick
  <2>6. SaveInv'
    BY <1>1, <2>3 DEF ScreenInv, SaveInv, Fits
  <2>7. SeenInv'
    <3>1. ~saveCrossed /\ desk.save.doc \in Doc => SeenAt(desk.save.doc, desk.save.base)
      BY DocFacts DEF ScreenInv, SeenInv, SeenAt
    <3>2. ~saveCrossed => \A p \in farewells' : SeenAt(p.doc, p.base)
      BY <2>1, <3>1 DEF ScreenInv, SeenInv
    <3>3. ~saveCrossed => \A p \in farewells' : SeenAt(p.doc, p.base)'
      BY <1>1, <3>2 DEF SeenAt
    <3>4. ~saveCrossed /\ put # NoPut => SeenAt(put.doc, put.base)
      BY DEF ScreenInv, SeenInv
    <3>5. ~saveCrossed /\ put # NoPut => SeenAt(put.doc, put.base)'
      BY <1>1, <3>4 DEF SeenAt
    <3> QED
      BY <1>1, <2>3, <3>3, <3>5 DEF ScreenInv, SeenInv
  <2>8. EditsInv'
    <3> DEFINE Kept(t) == Safe(t) \/ \E p \in farewells' : p.text = t
    <3> SUFFICES ASSUME Calm'
                 PROVE  (\A d \in Doc : Held(d)') /\ LeftKept' /\ \A p \in farewells' : FarewellOK(p)'
      BY DEF EditsInv
    <3>1. Calm /\ ~saveOverlapped'
      BY <1>1, <2>1 DEF Calm
    <3>2. (\A d \in Doc : Held(d)) /\ LeftKept /\ \A p \in farewells : FarewellOK(p)
      BY <3>1 DEF ScreenInv, EditsInv
    <3>3. \A t : Safe(t) => Safe(t)'
      BY <1>1, <2>2 DEF Safe, Reached
    <3>4. desk.save.doc # NoDoc => Kept(desk.save.local)
      <4> SUFFICES ASSUME desk.save.doc # NoDoc
                   PROVE  Kept(desk.save.local)
        OBVIOUS
      <4>1. CASE desk.loaded = NoDoc
        BY <2>1, <3>2, <4>1 DEF LeftKept, Away
      <4>2. CASE desk.loaded # NoDoc /\ Unsaved(desk.save)
        BY <2>1, <4>2
      <4>3. CASE ~Unsaved(desk.save)
        <5>1. desk.save.local = desk.save.server
          BY <2>1, <3>1, <4>3 DEF Unsaved
        <5>2. <<desk.save.doc, [version |-> desk.save.base, text |-> desk.save.server]>> \in known
          BY <3>1 DEF Calm, ScreenInv, SeenInv
        <5> QED
          BY <5>1, <5>2 DEF Reached, Safe
      <4> QED
        BY <4>1, <4>2, <4>3
    <3>5. ASSUME NEW d \in Doc
          PROVE  Held(d)'
      <4>1. Held(d)
        BY <3>2
      <4>2. d # NoDoc
        BY DocFacts
      <4>3. latest[d][2] = 0 \/ Kept(latest[d])
        BY <2>1, <3>4, <4>1, <4>2 DEF Held, Safe
      <4> QED
        BY <1>1, <2>2, <4>3 DEF Held, Safe, Reached
    <3>6. LeftKept'
      BY <1>1, <2>2, <2>3, <3>4 DEF LeftKept, Safe, Reached
    <3>7. ASSUME NEW p \in farewells'
          PROVE  FarewellOK(p)'
      <4>1. \A q \in farewells : q.doc = desk.save.doc => desk.loaded = NoDoc
        BY <1>1, <3>2 DEF FarewellOK, Away
      <4>2. \A q \in farewells' : q.doc = p.doc => q = p
        BY <2>1, <3>2, <4>1 DEF FarewellOK
      <4>3. Away(desk)'
        BY <2>3 DEF Away
      <4>4. CASE p \in farewells
        <5>1. FarewellOK(p) /\ (Safe(p.text) => Safe(p.text)')
          BY <3>2, <3>3, <4>4
        <5> QED
          BY <1>1, <2>3, <4>2, <4>3, <5>1 DEF FarewellOK
      <4>5. CASE p \notin farewells
        <5>1. /\ p.doc = desk.save.doc /\ p.base = desk.save.base /\ p.text = desk.save.local /\ desk.save.doc \in Doc
              /\ put = NoPut /\ serverDocs[desk.save.doc].version = desk.save.base
          BY <2>1, <3>1, <4>5
        <5>2. p.doc # put'.doc
          BY <1>1, <5>1, StartValues, DocFacts
        <5> QED
          BY <1>1, <2>3, <4>2, <4>3, <5>1, <5>2 DEF FarewellOK
      <4> QED
        BY <4>4, <4>5
    <3> QED
      BY <3>5, <3>6, <3>7
  <2>9. OutlineReachable'
    BY <1>1, <1>2 DEF OutlineReachable
  <2>10. Steady
    BY <1>5, <2>2 DEF SamePick, Steady
  <2> QED
    BY <2>4, <2>5, <2>6, <2>7, <2>8, <2>9, <2>10 DEF ScreenInv
<1> QED
  BY <1>1, <1>6, <1>7

\* The live session has the text, or a stretch of it is selected.
LEMMA LiveKeeps ==
    ASSUME ScreenInv, CollabSynced \/ SelectionIn
    PROVE  ScreenInv' /\ Steady
<1>1. /\ UNCHANGED <<serverDocs, put, farewells, ghostsOfScreen>> /\ online' = online
      /\ sidebars' = sidebars /\ screenLeft' = screenLeft /\ serverDocs' = serverDocs
  BY DEF CollabSynced, SelectionIn, restOnly
<1>2. /\ desk \in Desks /\ DeskOK(desk) /\ screenLeft \in Stories /\ sidebars \in Sides /\ online \in BOOLEAN
      /\ sidebars.current \in 0..sidebars.rows /\ QuoteTrue /\ OutlineReachable
  BY DEF ScreenInv, TypeInv, DeskInv
<1>3. (RestMode' <=> RestMode) /\ QuoteTrue' /\ OutlineReachable'
  BY <1>1, <1>2 DEF RestMode, QuoteTrue, OutlineReachable
<1>4. desk' \in Desks /\ DeskOK(desk') /\ SameSave(desk, desk') /\ Steady
  <2>1. CASE CollabSynced
    <3> DEFINE v == [desk.view EXCEPT !.synced = TRUE]
    <3>1. desk' = [desk EXCEPT !.view = v] /\ ~RestMode
      BY <1>2, <2>1 DEF CollabSynced, Desks
    <3>2. v \in Views /\ v.doc = desk.view.doc
      BY <1>2 DEF Desks, Views
    <3> HIDE DEF v
    <3>3. desk' \in Desks /\ SameSave(desk, desk') /\ SamePick(desk, desk') /\ desk'.view = v
          /\ desk'.cache = desk.cache /\ desk'.held = desk.held /\ desk'.marked = desk.marked
      BY <1>2, <3>1, <3>2 DEF Desks, SameSave, SamePick
    <3>4. DataFits(desk')
      BY <1>2, <3>3, SameData DEF DeskOK
    <3> QED
      BY <1>2, <3>1, <3>2, <3>3, <3>4 DEF DeskOK, Seeded, RestOK, LiveOK, OpenOK, SameSave, SamePick, Steady
  <2>2. CASE SelectionIn
    <3>1. PICK shown \in {desk.view.doc, NoDoc} : desk' = [desk EXCEPT !.marked = shown]
      BY <2>2 DEF SelectionIn
    <3>2. shown \in Doc0
      BY <1>2, <3>1 DEF Desks, Views, Doc0
    <3>3. desk' \in Desks /\ SameSave(desk, desk') /\ SamePick(desk, desk') /\ desk'.view = desk.view
          /\ desk'.cache = desk.cache /\ desk'.held = desk.held /\ desk'.marked = shown
      BY <1>2, <3>1, <3>2 DEF Desks, SameSave, SamePick
    <3>4. DataFits(desk')
      BY <1>2, <3>3, SameData DEF DeskOK
    <3> QED
      BY <1>2, <3>1, <3>3, <3>4 DEF DeskOK, Seeded, RestOK, LiveOK, OpenOK, SameSave, SamePick, Steady
  <2> QED
    BY <2>1, <2>2
<1>5. DeskOK(desk)'
  BY <1>1, <1>3, <1>4 DEF DeskOK, DataFits, Fits, Seeded, RestOK, LiveOK, OpenOK
<1> QED
  BY <1>1, <1>2, <1>3, <1>4, <1>5, QuietKeeps

\* The agent is asked about the selection, or a point of the PDF is asked for.
LEMMA AsksKeep ==
    ASSUME ScreenInv, aboutSelection \/ onPdfClick
    PROVE  ScreenInv' /\ Steady
<1>1. UNCHANGED <<serverDocs, put, farewells, ghostsOfScreen>> /\ online' = online /\ serverDocs' = serverDocs
  BY DEF aboutSelection, onPdfClick
<1>2. /\ desk \in Desks /\ DeskOK(desk) /\ screenLeft \in Stories /\ sidebars \in Sides /\ online \in BOOLEAN
      /\ sidebars.current \in 0..sidebars.rows /\ QuoteTrue /\ OutlineReachable
  BY DEF ScreenInv, TypeInv, DeskInv
<1>3. screenLeft' \in Stories /\ (RestMode' <=> RestMode)
  BY <1>2, SpendFacts DEF aboutSelection, onPdfClick, RestMode
<1>4. CASE aboutSelection
  <2> DEFINE q == [path |-> desk.openDoc, text |-> desk.marked]
  <2>1. /\ sidebars' = [sidebars EXCEPT !.quote = q, !.agent = TRUE] /\ desk' = [desk EXCEPT !.marked = NoDoc]
        /\ desk.marked # NoDoc
    BY <1>4 DEF aboutSelection, SelectionAsk
  <2>2. q \in [path : Doc0, text : Doc0] /\ q.path = desk.openDoc /\ q.text = desk.marked
    BY <1>2 DEF Desks
  <2> HIDE DEF q
  <2>3. /\ sidebars' \in Sides /\ sidebars'.rows = sidebars.rows /\ sidebars'.current = sidebars.current
        /\ sidebars'.focus = sidebars.focus /\ sidebars'.shrunk = sidebars.shrunk /\ sidebars'.quote = q
    BY <1>2, <2>1, <2>2 DEF Sides
  <2>4. desk' \in Desks /\ SameSave(desk, desk') /\ SamePick(desk, desk') /\ desk'.view = desk.view
        /\ desk'.cache = desk.cache /\ desk'.held = desk.held /\ desk'.marked = NoDoc
    BY <1>2, <2>1, StartValues DEF Desks, SameSave, SamePick
  <2>5. DataFits(desk')
    BY <1>2, <2>4, SameData DEF DeskOK
  <2>6. DeskOK(desk)'
    BY <1>1, <1>2, <1>3, <2>4, <2>5 DEF DeskOK, DataFits, Fits, Seeded, RestOK, LiveOK, OpenOK, SameSave, SamePick
  <2>7. QuoteTrue'
    BY <1>2, <1>3, <2>1, <2>2, <2>3 DEF QuoteTrue, DeskOK, LiveOK, OpenOK
  <2>8. OutlineReachable'
    BY <1>2, <2>3 DEF OutlineReachable
  <2> QED
    BY <1>1, <1>2, <1>3, <2>3, <2>4, <2>6, <2>7, <2>8, QuietKeeps DEF Steady, SamePick
<1>5. CASE onPdfClick
  <2> DEFINE k == desk.lookups \cup {desk.openDoc}
  <2>1. sidebars' = [sidebars EXCEPT !.view = "content"] /\ desk' = [desk EXCEPT !.lookups = k]
    BY <1>5 DEF onPdfClick
  <2>2. k \in SUBSET Doc0
    BY <1>2 DEF Desks
  <2> HIDE DEF k
  <2>3. /\ sidebars' \in Sides /\ sidebars'.rows = sidebars.rows /\ sidebars'.current = sidebars.current
        /\ sidebars'.focus = sidebars.focus /\ sidebars'.shrunk = sidebars.shrunk /\ sidebars'.quote = sidebars.quote
    BY <1>2, <2>1 DEF Sides
  <2>4. desk' \in Desks /\ SameSave(desk, desk') /\ SamePick(desk, desk') /\ desk'.view = desk.view
        /\ desk'.cache = desk.cache /\ desk'.held = desk.held /\ desk'.marked = desk.marked
    BY <1>2, <2>1, <2>2 DEF Desks, SameSave, SamePick
  <2>5. DataFits(desk')
    BY <1>2, <2>4, SameData DEF DeskOK
  <2>6. DeskOK(desk)'
    BY <1>1, <1>2, <1>3, <2>4, <2>5 DEF DeskOK, DataFits, Fits, Seeded, RestOK, LiveOK, OpenOK, SameSave, SamePick
  <2>7. QuoteTrue' /\ OutlineReachable'
    BY <1>2, <1>3, <2>3 DEF QuoteTrue, OutlineReachable
  <2> QED
    BY <1>1, <1>2, <1>3, <2>3, <2>4, <2>6, <2>7, QuietKeeps DEF Steady, SamePick
<1> QED
  BY <1>4, <1>5

\* The rows an outline can have are a number.
LEMMA RowsFacts == OutlineRows \in Nat
  BY ScreenAssumption, Zenon

\* The outline changes: the cursor's row takes the focus, unless it did not move and the focused row went.
LEMMA OutlineFacts ==
    ASSUME sidebars \in Sides, OutlineReachable, sidebars.current \in 0..sidebars.rows,
           NEW n \in Nat, OutlineChanges(n)
    PROVE  sidebars' \in Sides /\ sidebars'.quote = sidebars.quote /\ sidebars'.current \in 0..sidebars'.rows
           /\ OutlineReachable'
<1>1. PICK c \in 0..n : sidebars' = LET p == [sidebars EXCEPT !.rows = n, !.current = c]
                                 IN [(IF c = sidebars.current THEN p ELSE RowFollowed(p)) EXCEPT
                                       !.shrunk = (c \in {0, sidebars.current} /\ n < sidebars.focus)]
  BY DEF OutlineChanges
<1>2. PICK b \in BOOLEAN : b <=> (c \in {0, sidebars.current} /\ n < sidebars.focus)
  BY Zenon
<1>3. (c \in {0, sidebars.current} /\ n < sidebars.focus) = b
  BY <1>2
<1> DEFINE p == [sidebars EXCEPT !.rows = n, !.current = c]
           q == IF c = sidebars.current THEN p ELSE RowFollowed(p)
<1>4. sidebars' = [q EXCEPT !.shrunk = b]
  BY <1>1, <1>3
<1>5. c \in Nat /\ n \in Nat /\ c <= n /\ sidebars.focus \in Nat /\ sidebars.current \in Nat
  BY DEF Sides
<1>6. /\ p \in Sides /\ p.rows = n /\ p.current = c /\ p.focus = sidebars.focus /\ p.quote = sidebars.quote
  BY <1>5 DEF Sides
<1> HIDE DEF p
<1>7. /\ q \in Sides /\ q.rows = n /\ q.current = c /\ q.quote = sidebars.quote
      /\ q.focus = IF c = sidebars.current \/ c = 0 THEN sidebars.focus ELSE c
  BY <1>5, <1>6 DEF RowFollowed, Sides
<1> HIDE DEF q
<1>8. /\ sidebars' \in Sides /\ sidebars'.rows = n /\ sidebars'.current = c /\ sidebars'.quote = sidebars.quote
      /\ sidebars'.focus = q.focus /\ sidebars'.shrunk = b
  BY <1>4, <1>7 DEF Sides
<1>9. OutlineReachable'
  <2>1. q.focus <= n \/ (c \in {0, sidebars.current} /\ n < sidebars.focus)
    BY <1>5, <1>7
  <2>2. n = 0 \/ q.focus <= n \/ b
    BY <1>2, <2>1
  <2> QED
    BY <1>8, <2>2 DEF OutlineReachable
<1> QED
  BY <1>5, <1>8, <1>9

\* The panels keep the invariant.
LEMMA PanelsKeep ==
    ASSUME ScreenInv, Panels
    PROVE  ScreenInv'
<1>1. /\ UNCHANGED <<serverDocs, put, farewells, ghostsOfScreen>> /\ online' = online /\ desk' = desk
      /\ serverDocs' = serverDocs /\ SpendScreen("panels")
      /\ (FileDrawer \/ MobileTabs \/ OutlinePanel \/ \E n \in 0..OutlineRows : OutlineChanges(n))
  BY DEF Panels
<1>2. /\ desk \in Desks /\ DeskOK(desk) /\ screenLeft \in Stories /\ sidebars \in Sides /\ online \in BOOLEAN
      /\ sidebars.current \in 0..sidebars.rows /\ QuoteTrue /\ OutlineReachable
      /\ sidebars.focus \in Nat /\ sidebars.rows \in Nat
  BY DEF ScreenInv, TypeInv, DeskInv, Sides
<1>3. screenLeft' \in Stories /\ (RestMode' <=> RestMode)
  BY <1>1, <1>2, SpendFacts DEF RestMode
<1>4. sidebars' \in Sides /\ sidebars'.quote = sidebars.quote /\ sidebars'.current \in 0..sidebars'.rows
      /\ OutlineReachable'
  <2>1. CASE FileDrawer
    <3>1. PICK t \in {"files", "outline", "search"}, b \in BOOLEAN :
             sidebars' = [sidebars EXCEPT !.tab = t] \/ sidebars' = [sidebars EXCEPT !.drawer = b]
      <4>1. PICK b \in BOOLEAN : b <=> ~sidebars.drawer
        BY Zenon
      <4>2. ~sidebars.drawer = b
        BY <4>1
      <4> QED
        BY <2>1, <4>2, Zenon DEF FileDrawer, DrawerTabs
    <3> QED
      BY <1>2, <3>1 DEF Sides, OutlineReachable
  <2>2. CASE MobileTabs
    <3>1. PICK v \in {"content", "preview"}, b \in BOOLEAN :
             sidebars' = [sidebars EXCEPT !.view = v] \/ sidebars' = [sidebars EXCEPT !.agent = b]
      <4>1. PICK b \in BOOLEAN : b <=> ~sidebars.agent
        BY Zenon
      <4>2. ~sidebars.agent = b
        BY <4>1
      <4> QED
        BY <2>2, <4>2, Zenon DEF MobileTabs
    <3> QED
      BY <1>2, <3>1 DEF Sides, OutlineReachable
  <2>3. CASE OutlinePanel
    <3>1. PICK f \in 1..sidebars.rows : sidebars' = [sidebars EXCEPT !.focus = f]
      BY <2>3 DEF OutlinePanel, nextFocus
    <3>2. f \in Nat /\ f <= sidebars.rows
      BY <1>2
    <3> QED
      BY <1>2, <3>1, <3>2 DEF Sides, OutlineReachable
  <2>4. ASSUME NEW n \in 0..OutlineRows, OutlineChanges(n)
        PROVE  sidebars' \in Sides /\ sidebars'.quote = sidebars.quote /\ sidebars'.current \in 0..sidebars'.rows
               /\ OutlineReachable'
    <3>1. n \in Nat
      BY RowsFacts
    <3> QED
      BY <1>2, <2>4, <3>1, OutlineFacts
  <2> QED
    BY <1>1, <2>1, <2>2, <2>3, <2>4
<1>5. DeskOK(desk)' /\ QuoteTrue' /\ SameSave(desk, desk')
  BY <1>1, <1>2, <1>3, <1>4 DEF DeskOK, DataFits, Fits, Seeded, RestOK, LiveOK, OpenOK, SameSave, QuoteTrue
<1> QED
  BY <1>1, <1>2, <1>3, <1>4, <1>5, QuietKeeps

-----------------------------------------------------------------------------
(* The invariant *)

\* It holds of the screen as it opens.
LEMMA ScreenStarts == screenInit => ScreenInv
<1> SUFFICES ASSUME screenInit
             PROVE  ScreenInv
  OBVIOUS
<1> DEFINE c == [d \in Doc |-> NoData]
           t == [d \in Doc |-> "none"]
<1>1. desk = [selected |-> NoDoc, openDoc |-> NoDoc, started |-> FALSE, tree |-> FALSE, project |-> FALSE, open |-> NoDoc,
               loaded |-> NoDoc, cache |-> c, trouble |-> t, fetching |-> {},
               last |-> NoDoc, held |-> NoResult, out |-> FALSE, seeded |-> FALSE, view |-> PaneUnmounted, reveal |-> Nowhere,
               lookups |-> {}, marked |-> NoDoc, save |-> EMPTY, debounce |-> FALSE, retry |-> FALSE, left |-> FALSE,
               blocked |-> FALSE]
  BY DEF screenInit
<1>2. c \in [Doc -> Data] /\ t \in [Doc -> Troubles] /\ \A d \in Doc : c[d] = NoData
  BY StartValues DEF Troubles
<1> HIDE DEF c, t
<1>3. /\ desk \in Desks /\ desk.out = FALSE /\ desk.seeded = FALSE /\ desk.cache = c /\ desk.held = NoResult
      /\ desk.loaded = NoDoc /\ desk.open = NoDoc /\ desk.view = PaneUnmounted /\ desk.marked = NoDoc /\ desk.save = EMPTY
      /\ desk.left = FALSE
  BY <1>1, <1>2, StartValues DEF Desks
<1>4. /\ put = NoPut /\ farewells = {} /\ online = TRUE
      /\ saveCrossed = FALSE /\ saveOverlapped = FALSE /\ dropped = {} /\ surrendered = {} /\ known = {}
      /\ stale = FALSE /\ latest = [d \in Doc |-> <<d, 0>>] /\ screenLeft \in ScreenStories
      /\ serverDocs = [d \in Doc |-> [version |-> 1, text |-> <<IF screenLeft.alike THEN RootDoc ELSE d, 0>>]]
  BY DEF screenInit
<1>5. /\ sidebars \in Sides /\ sidebars.current \in 0..sidebars.rows /\ sidebars.focus <= sidebars.rows
      /\ sidebars.quote.path = sidebars.quote.text
  <2>1. sidebars = [drawer |-> FALSE, tab |-> "files", view |-> "content", agent |-> FALSE, rows |-> OutlineRows,
                    current |-> OutlineRows, focus |-> OutlineRows, shrunk |-> FALSE,
                    quote |-> [path |-> NoDoc, text |-> NoDoc]]
    BY DEF screenInit
  <2>2. OutlineRows \in Nat /\ NoDoc \in Doc0
    BY RowsFacts, StartValues
  <2> QED
    BY <2>1, <2>2 DEF Sides
<1>6. screenLeft \in Stories
  BY <1>4, ScreenAssumption DEF Stories
<1>7. serverDocs \in [Doc -> Data] /\ \A d \in Doc : serverDocs[d].version = 1
  <2>1. \A d \in Doc : <<IF screenLeft.alike THEN RootDoc ELSE d, 0>> \in Contents
    BY DocFacts DEF Contents, Doc0
  <2> QED
    BY <1>4, <2>1 DEF Data
<1>8. latest \in [Doc -> Contents] /\ \A d \in Doc : latest[d][2] = 0
  BY <1>4 DEF Contents, Doc0
<1>9. TypeInv
  <2>1. /\ saveCrossed \in BOOLEAN /\ saveOverlapped \in BOOLEAN /\ stale \in BOOLEAN /\ online \in BOOLEAN
        /\ ~desk.out /\ ~desk.seeded
    BY <1>3, <1>4, Zenon
  <2>2. put \in Puts /\ farewells \subseteq Goodbyes /\ known \subseteq Doc \X Data
        /\ dropped \subseteq Contents /\ surrendered \subseteq Contents
    BY <1>4, StartValues
  <2>3. \A d \in Doc : serverDocs[d].version > 0
    BY <1>7
  <2> QED
    BY <1>3, <1>5, <1>6, <1>7, <1>8, <2>1, <2>2, <2>3 DEF TypeInv
<1>10. DeskInv
  <2>1. DataFits(desk)
    BY <1>2, <1>3, <1>7, StartValues DEF DataFits, Fits
  <2> QED
    BY <1>3, <1>5, <2>1, StartValues DEF DeskInv, DeskOK, Seeded, RestOK, LiveOK, OpenOK, QuoteTrue
<1>11. SaveInv /\ SeenInv
  BY <1>3, <1>4, StartValues DEF SaveInv, SeenInv
<1>12. EditsInv
  BY <1>3, <1>4, <1>8, StartValues DEF EditsInv, Held, LeftKept
<1>13. OutlineReachable
  BY <1>5 DEF OutlineReachable
<1> QED
  BY <1>9, <1>10, <1>11, <1>12, <1>13 DEF ScreenInv

\* A step of something else keeps it.
LEMMA ScreenStutters == ScreenInv /\ UNCHANGED screenVars => ScreenInv'
<1> SUFFICES ASSUME ScreenInv, UNCHANGED screenVars
             PROVE  ScreenInv'
  OBVIOUS
<1>1. /\ serverDocs' = serverDocs /\ desk' = desk /\ put' = put /\ farewells' = farewells /\ sidebars' = sidebars
      /\ online' = online /\ saveCrossed' = saveCrossed /\ saveOverlapped' = saveOverlapped /\ stale' = stale
      /\ dropped' = dropped /\ surrendered' = surrendered /\ known' = known /\ latest' = latest /\ screenLeft' = screenLeft
  BY DEF screenVars
<1>2. UNCHANGED <<serverDocs, put, farewells, ghostsOfScreen>>
  BY <1>1 DEF ghostsOfScreen
<1>3. DeskOK(desk)' /\ QuoteTrue' /\ OutlineReachable' /\ SameSave(desk, desk')
  BY <1>1 DEF ScreenInv, DeskInv, DeskOK, DataFits, Fits, Seeded, RestOK, LiveOK, OpenOK, RestMode, QuoteTrue,
              OutlineReachable, SameSave
<1>4. online' \in BOOLEAN /\ sidebars' \in Sides /\ sidebars'.current \in 0..sidebars'.rows /\ screenLeft' \in Stories
  BY <1>1 DEF ScreenInv, TypeInv
<1> QED
  BY <1>2, <1>3, <1>4, QuietKeeps

\* Every step keeps it.
LEMMA ScreenSteps == ScreenInv /\ [screenNext]_screenVars => ScreenInv'
<1> SUFFICES ASSUME ScreenInv, screenNext
             PROVE  ScreenInv'
  BY ScreenStutters
<1>1. CASE AutosaveStep \/ SaveNow
  BY <1>1, FlushActionsKeep, PutAnsweredKeeps DEF AutosaveStep
<1>2. CASE LoadStep
  BY <1>2, WorkspaceTreeKeeps, LiveKeeps, RedrawKeeps, DocumentReadKeeps DEF LoadStep
<1>3. CASE ScreenServer \/ PutLost
  BY <1>3, PutServedKeeps, FarewellServedKeeps, PutLostKeeps DEF ScreenServer
<1>4. CASE Type \/ useFlushTriggers \/ ConflictDialog \/ PaneBody
  BY <1>4, TypeKeeps, ConnectivityKeeps, ConflictKeeps, PaneBodyKeeps
<1>5. CASE onPdfClick \/ handlePdfClick \/ SelectionIn \/ aboutSelection
  BY <1>5, AsksKeep, PdfAnswerKeeps, LiveKeeps
<1>6. CASE Panels \/ UnsavedChangesGuard
  BY <1>6, PanelsKeep, LeaveKeeps
<1>7. CASE \E d \in Doc : OtherSaves(d) \/ getDocument(d) \/ \E l \in HeadingLine : Jump(d, l)
  BY <1>7, OtherSavesKeeps, LoadFailsKeeps, JumpKeeps
<1>8. CASE \E d \in Doc \cup {BinaryFile} : pickFile(d)
  BY <1>8, PickKeeps
<1> QED
  BY <1>1, <1>2, <1>3, <1>4, <1>5, <1>6, <1>7, <1>8 DEF screenNext

\* The invariant of the screen: the types, the pane and its view, the autosave, what the person has seen, and where
\* the text left behind is (use-document-autosave.ts, use-document.ts, editor-workspace.tsx).
THEOREM ScreenInvariant == ScreenSpec => []ScreenInv
<1> QED
  BY ScreenStarts, ScreenSteps, PTL DEF ScreenSpec

\* What was typed is in the pane, in a farewell on its way, was stored or was given up.
LEMMA EditsFollow == ScreenInv => EditsKept
<1> SUFFICES ASSUME ScreenInv, ~saveCrossed, ~saveOverlapped, ~stale
             PROVE  \A d \in Doc : Held(d)
  BY DEF EditsKept
<1> QED
  BY DEF ScreenInv, EditsInv, Calm

\* "Saved" is shown of the stored text only, and the view holds the text that would be saved.
LEMMA CleanFollows == ScreenInv => CleanMeansSaved
<1> SUFFICES ASSUME ScreenInv
             PROVE  CleanMeansSaved
  OBVIOUS
<1>1. desk.save.status = "clean" => desk.save.local = desk.save.server
  BY DEF ScreenInv, SaveInv
<1>2. ASSUME desk.save.status = "clean", desk.save.doc # NoDoc, ~saveCrossed,
             serverDocs[desk.save.doc].version = desk.save.base
      PROVE  serverDocs[desk.save.doc].text = desk.save.local
  <2> DEFINE k == <<desk.save.doc, [version |-> desk.save.base, text |-> desk.save.server]>>
  <2>1. k \in known
    BY <1>2 DEF ScreenInv, SeenInv
  <2>2. Fits(k[2], k[1])
    BY <2>1 DEF ScreenInv, SaveInv
  <2>3. k[2] = serverDocs[desk.save.doc]
    BY <1>2, <2>2 DEF Fits
  <2> QED
    BY <1>1, <1>2, <2>3
<1>3. ASSUME RestMode, desk.view.doc # NoDoc, ~desk.view.astray
      PROVE  desk.view.doc = desk.save.doc /\ desk.view.text = desk.save.local
  <2>1. desk.view # PaneUnmounted
    BY <1>3, StartValues
  <2>2. RestOK(desk) /\ Seeded(desk)
    BY DEF ScreenInv, DeskInv, DeskOK
  <2> QED
    BY <1>3, <2>1, <2>2 DEF RestOK, Seeded
<1> QED
  BY <1>1, <1>2, <1>3 DEF CleanMeansSaved

\* The parts of the screen have their types.
LEMMA TypesFollow == ScreenInv => screenTypeOK
<1> SUFFICES ASSUME ScreenInv
             PROVE  screenTypeOK
  OBVIOUS
<1>1. desk \in Desks /\ ~desk.out /\ ~desk.seeded /\ sidebars.current \in 0..sidebars.rows
      /\ ((desk.save.status = "conflict") <=> (desk.save.conflict # NoData))
  BY DEF ScreenInv, TypeInv, SaveInv
<1>2. /\ desk.save.status \in Statuses /\ desk.selected \in Doc \cup {NoDoc, BinaryFile}
      /\ \A d \in {desk.openDoc, desk.open, desk.loaded, desk.last, desk.view.doc, desk.marked} : d \in Doc \cup {NoDoc}
      /\ desk.fetching \subseteq Doc /\ desk.lookups \subseteq Doc \cup {NoDoc}
  BY <1>1 DEF Desks, Saves, Views, Doc0
<1> QED
  BY <1>1, <1>2 DEF screenTypeOK, Statuses

\* In every state the screen is as it should be: its parts fit, what was typed is kept, "saved" is true, the agent is
\* asked about the right file and the outline can be reached, for any documents, budgets and retries
\* (use-document-autosave.ts, editor-workspace.tsx, codemirror-editor.tsx, outline-panel.tsx).
THEOREM ScreenHolds == ScreenSpec => []ScreenTrue
<1>1. ScreenInv => ScreenTrue
  BY TypesFollow, EditsFollow, CleanFollows DEF ScreenTrue, ScreenInv, DeskInv
<1> QED
  BY <1>1, ScreenInvariant, PTL

\* Typed text is kept (the autosave, the conflict's choices, the farewells and the crossings the code knows of).
THEOREM TypedTextKept == ScreenSpec => []EditsKept
<1> QED
  BY EditsFollow, ScreenInvariant, PTL

-----------------------------------------------------------------------------
(* The steps *)

\* The server's text goes only for one who has seen it.
LEMMA SeenBeforeReplaced ==
    ASSUME ScreenInv, [screenNext]_screenVars, NEW d \in Doc, serverDocs'[d] # serverDocs[d],
           serverDocs'[d].text # <<d, 1>>, ~saveCrossed
    PROVE  <<d, serverDocs[d]>> \in known
<1>1. ASSUME NEW p, p.doc \in Doc, SeenAt(p.doc, p.base), serverDocs' = replace_content(p)
      PROVE  <<d, serverDocs[d]>> \in known
  <2>1. Accepts(p) /\ p.doc = d
    BY <1>1 DEF replace_content, ScreenInv, TypeInv
  <2>2. PICK k \in known : k[1] = d /\ k[2].version = p.base
    BY <1>1, <2>1 DEF SeenAt
  <2>3. k[2] = serverDocs[d]
    BY <2>1, <2>2 DEF ScreenInv, SaveInv, Fits, Accepts
  <2>4. k = <<k[1], k[2]>>
    BY <2>2 DEF ScreenInv, TypeInv
  <2> QED
    BY <2>2, <2>3, <2>4
<1>2. CASE PutServed
  <2>1. put # NoPut /\ serverDocs' = replace_content(put) /\ put.doc \in Doc /\ SeenAt(put.doc, put.base)
    BY <1>2 DEF PutServed, ScreenInv, SaveInv, SeenInv
  <2> QED
    BY <1>1, <2>1
<1>3. ASSUME NEW p \in farewells, FarewellServed(p)
      PROVE  <<d, serverDocs[d]>> \in known
  <2>1. p.doc \in Doc /\ SeenAt(p.doc, p.base)
    BY DEF ScreenInv, TypeInv, SeenInv, Goodbyes
  <2>2. serverDocs' = replace_content(p)
    BY <1>3 DEF FarewellServed
  <2> QED
    BY <1>1, <2>1, <2>2
<1>4. ASSUME NEW x \in Doc, OtherSaves(x)
      PROVE  FALSE
  BY <1>4 DEF OtherSaves, ScreenInv, TypeInv
<1>5. CASE UNCHANGED serverDocs
  BY <1>5
<1>6. \/ UNCHANGED serverDocs \/ PutServed \/ (\E p \in farewells : FarewellServed(p)) \/ \E x \in Doc : OtherSaves(x)
  BY DEF screenNext, AutosaveStep, LoadStep, ScreenServer, DebounceFires, RetryFires, PutAnswered, useWorkspaceTree,
         CollabSynced, Redraw, DocumentRead, SaveNow, Type, PutLost, useFlushTriggers, ConflictDialog, PaneBody,
         onPdfClick, handlePdfClick, SelectionIn, aboutSelection, Panels, UnsavedChangesGuard, getDocument, Jump,
         pickFile, restOnly, screenVars
<1> QED
  BY <1>2, <1>3, <1>4, <1>5, <1>6

\* A step changes what is known of the tree or the project only when they come, and keeps the choice made before.
LEMMA ChoiceKept ==
    ASSUME ScreenInv, [screenNext]_screenVars, desk.selected # NoDoc,
           desk'.tree # desk.tree \/ desk'.project # desk.project
    PROVE  desk'.selected = desk.selected
<1>1. CASE useWorkspaceTree
  BY <1>1, WorkspaceTreeKeeps
<1>2. CASE DebounceFires \/ RetryFires \/ SaveNow \/ PutAnswered \/ useFlushTriggers
  BY <1>2, FlushActionsKeep, PutAnsweredKeeps, ConnectivityKeeps DEF Steady
<1>3. CASE Type \/ ConflictDialog \/ UnsavedChangesGuard
  BY <1>3, TypeKeeps, ConflictKeeps, LeaveKeeps DEF Steady
<1>4. CASE CollabSynced \/ SelectionIn \/ aboutSelection \/ onPdfClick
  BY <1>4, LiveKeeps, AsksKeep DEF Steady
<1>5. CASE Redraw \/ PaneBody \/ handlePdfClick
  BY <1>5, RedrawKeeps, PaneBodyKeeps, PdfAnswerKeeps DEF Steady
<1>6. ASSUME NEW d \in Doc, DocumentRead(d) \/ getDocument(d)
      PROVE  Steady
  BY <1>6, DocumentReadKeeps, LoadFailsKeeps
<1>7. ASSUME NEW d \in Doc, NEW l \in HeadingLine, Jump(d, l)
      PROVE  Steady
  BY <1>7, JumpKeeps
<1>8. ASSUME NEW d \in Doc \cup {BinaryFile}, pickFile(d)
      PROVE  Steady
  BY <1>8, PickKeeps
<1>9. CASE PutServed \/ PutLost \/ Panels \/ (\E p \in farewells : FarewellServed(p)) \/ (\E d \in Doc : OtherSaves(d))
           \/ UNCHANGED screenVars
  BY <1>9 DEF PutServed, PutLost, Panels, FarewellServed, OtherSaves, screenVars
<1> QED
  BY <1>1, <1>2, <1>3, <1>4, <1>5, <1>6, <1>7, <1>8, <1>9
     DEF screenNext, AutosaveStep, LoadStep, ScreenServer, Steady

\* No save replaces a text its sender has not seen, and what a person picked is not taken away by the document the
\* screen starts on (documents/repository.py's versioned replace, use-start-document.ts).
THEOREM ScreenStepsKept == ScreenSpec => ScreenKept
<1>1. ScreenInv /\ [screenNext]_screenVars =>
        [\A d \in Doc : serverDocs'[d] # serverDocs[d] /\ serverDocs'[d].text # <<d, 1>>
                        => saveCrossed \/ <<d, serverDocs[d]>> \in known]_screenVars
  BY SeenBeforeReplaced
<1>2. ScreenInv /\ [screenNext]_screenVars =>
        [desk.selected # NoDoc /\ (desk'.tree # desk.tree \/ desk'.project # desk.project)
           => desk'.selected = desk.selected]_screenVars
  BY ChoiceKept
<1>3. ScreenSpec => NoBlindOverwrite
  BY <1>1, ScreenInvariant, PTL DEF ScreenSpec, NoBlindOverwrite
<1>4. ScreenSpec => StartKeepsChoice
  BY <1>2, ScreenInvariant, PTL DEF ScreenSpec, StartKeepsChoice
<1> QED
  BY <1>3, <1>4 DEF ScreenKept

-----------------------------------------------------------------------------
(* The spelling *)

\* A plugin's verdicts are a function on words.
Verdicts == UNION {[S -> BOOLEAN] : S \in SUBSET Word}
Plugins == [on : BOOLEAN, timer : BOOLEAN, stopped : BOOLEAN, language : Language \cup {"off"},
            verdicts : Verdicts, marks : SUBSET Nat, gen : Nat, latest : Nat]
Checks == [id : Nat, gen : Nat \ {0}, language : Language, span : SUBSET Nat, known : SUBSET Word,
           typed : Nat, unknown : SUBSET Word]
Counts == [typed : Nat, turns : Nat, switches : Nat, kept : Nat, runs : Nat, gens : Nat]
Changes == [kind : {"add", "remove"}, word : Word, previous : SUBSET Word, answer : {"none", "ok", "refused"}]

\* The parts of the invariant: types, numbers, what verdicts say, that the last check is pending or has marked
\* what it is to mark, and that the list shown is the server's or about to be asked for.
DocTyped ==
    /\ doc \in Seq(Word) /\ span \subseteq Place
    /\ language \in Language \cup {"off"} /\ loaded \subseteq Language
WordsTyped ==
    /\ server \subseteq Word /\ shownWords \subseteq Word /\ ignored \subseteq Word
    /\ changes \in Seq(Changes) /\ refetch \in {Nothing, Invalidated, [failed |-> TRUE]} \cup [read : SUBSET Word]
PluginTyped ==
    /\ plugin \in Plugins /\ plugin.marks \subseteq Place /\ (plugin.on <=> language # "off")
    /\ ~plugin.on => plugin = NoPlugin
ChecksTyped ==
    /\ checks \in Seq(Checks) /\ spellCount \in Counts
    /\ \A k \in DOMAIN checks : checks[k].unknown # {} /\ checks[k].span \subseteq Place
Numbered ==
    /\ plugin.gen <= spellCount.gens /\ plugin.latest <= spellCount.runs
    /\ plugin.on => plugin.gen > 0
    /\ \A k \in DOMAIN checks : checks[k].gen <= spellCount.gens /\ checks[k].id <= spellCount.runs
    /\ \A j, k \in DOMAIN checks : checks[j].id = checks[k].id => j = k
Learnt ==
    "mixed" \notin spellMishap =>
        \A w \in DOMAIN plugin.verdicts : plugin.verdicts[w] <=> w \notin Correct[plugin.language]
Wanted == {i \in span : doc[i] \notin Correct[language] \cup Known}
Marked == /\ plugin.marks = Wanted /\ plugin.latest = spellCount.runs
          /\ \A k \in DOMAIN checks : checks[k].id # spellCount.runs
LastAsked(c) ==
    /\ c.id = spellCount.runs /\ c.gen = plugin.gen /\ c.language = language /\ c.span = span /\ c.known = Known
    /\ c.typed = spellCount.typed /\ InSpan(span, doc) \subseteq DOMAIN plugin.verdicts \cup c.unknown
Caught ==
    plugin.on /\ ~plugin.timer /\ ~plugin.stopped /\ spellMishap = {} =>
        plugin.language = language /\ (Marked \/ \E k \in DOMAIN checks : LastAsked(checks[k]))
ListFollows ==
    changes = << >> => \/ refetch = Nothing /\ shownWords = server
                       \/ refetch \in {Invalidated, [read |-> server], [failed |-> TRUE]}
SpellTyped == DocTyped /\ WordsTyped /\ PluginTyped /\ ChecksTyped
Marking == Numbered /\ Learnt /\ Caught
SpellInv == SpellTyped /\ Marking /\ ListFollows

\* What scheduling, and most steps, leave of a plugin.
Kept(p, q) ==
    /\ q.on = p.on /\ q.stopped = p.stopped /\ q.language = p.language /\ q.verdicts = p.verdicts
    /\ q.gen = p.gen /\ q.latest = p.latest

\* Behind the first of two sequences comes the second.
LEMMA ConcatRight ==
    ASSUME NEW S, NEW a \in Seq(S), NEW b \in Seq(S), NEW n \in 1..Len(b)
    PROVE  (a \o b)[Len(a) + n] = b[n]
  BY SMTT(30)

\* Without one element, a sequence has the others, in their order.
LEMMA RemoveAtLemma ==
    ASSUME NEW S, NEW s \in Seq(S), NEW k \in DOMAIN s
    PROVE  /\ RemoveAt(s, k) \in Seq(S) /\ Len(RemoveAt(s, k)) = Len(s) - 1
           /\ \A j \in DOMAIN RemoveAt(s, k) :
                  /\ (IF j < k THEN j ELSE j + 1) \in DOMAIN s \ {k}
                  /\ RemoveAt(s, k)[j] = s[IF j < k THEN j ELSE j + 1]
           /\ \A i \in DOMAIN s \ {k} : \E j \in DOMAIN RemoveAt(s, k) : RemoveAt(s, k)[j] = s[i]
<1> DEFINE a == SubSeq(s, 1, k - 1)
           b == SubSeq(s, k + 1, Len(s))
           r == RemoveAt(s, k)
<1>1. k \in 1..Len(s) /\ Len(s) \in Nat
  OBVIOUS
<1>2. /\ a \in Seq(S) /\ Len(a) = k - 1 /\ \A j \in 1..k - 1 : a[j] = s[j]
  BY <1>1
<1>3. b \in Seq(S) /\ Len(b) = Len(s) - k /\ \A j \in 1..Len(s) - k : b[j] = s[k + j]
  BY <1>1
<1>4. r = a \o b
  BY DEF RemoveAt
<1> HIDE DEF a, b, r
<1>5. r \in Seq(S) /\ Len(r) = Len(s) - 1
  BY <1>1, <1>2, <1>3, <1>4
<1>6. \A j \in 1..Len(s) - 1 : r[j] = s[IF j < k THEN j ELSE j + 1]
  <2> SUFFICES ASSUME NEW j \in 1..Len(s) - 1 PROVE r[j] = s[IF j < k THEN j ELSE j + 1]
    OBVIOUS
  <2>1. CASE j < k
    BY <2>1, <1>1, <1>2, <1>3, <1>4
  <2>2. CASE ~(j < k)
    <3> DEFINE m == j - (k - 1)
               l == Len(s)
    <3>a. m \in 1..l - k /\ (k - 1) + m = j /\ k + m = j + 1
      <4>1. l \in Nat /\ k \in 1..l /\ j \in 1..l - 1
        BY <1>1
      <4> HIDE DEF l
      <4> QED
        BY <4>1, <2>2
    <3> HIDE DEF m
    <3>b. m \in 1..Len(b) /\ Len(a) + m = j
      BY <3>a, <1>2, <1>3, Zenon
    <3>s. a \in Seq(S) /\ b \in Seq(S) /\ m \in 1..Len(b)
      BY <3>b, <1>2, <1>3, Zenon
    <3>t. (a \o b)[Len(a) + m] = b[m]
      BY <3>s, ConcatRight, Zenon
    <3>1. r[j] = b[m]
      BY <3>t, <3>b, <1>4, Zenon
    <3>2. b[m] = s[k + m]
      BY <3>a, <1>3, Zenon
    <3> QED
      BY <3>1, <3>2, <3>a, <2>2
  <2> QED
    BY <2>1, <2>2
<1>7. ASSUME NEW i \in DOMAIN s \ {k} PROVE \E j \in DOMAIN r : r[j] = s[i]
  <2>1. CASE i < k
    BY <2>1, <1>1, <1>5, <1>6
  <2>2. CASE i > k
    <3>1. i - 1 \in 1..Len(s) - 1 /\ ~(i - 1 < k)
      BY <2>2, <1>1
    <3>2. r[i - 1] = s[i - 1 + 1] /\ i - 1 + 1 = i
      BY <3>1, <1>6
    <3> QED
      BY <3>1, <3>2, <1>5
  <2> QED
    BY <2>1, <2>2, <1>1
<1>8. DOMAIN r = 1..Len(s) - 1
  BY <1>5
<1>9. \A j \in 1..Len(s) - 1 : (IF j < k THEN j ELSE j + 1) \in DOMAIN s \ {k}
  BY <1>1
<1> QED
  BY <1>5, <1>6, <1>7, <1>8, <1>9 DEF r

\* Nothing is known, or what one answer says beside the rest.
LEMMA NoVerdicts == << >> \in Verdicts /\ DOMAIN << >> = {}
<1>1. DOMAIN << >> = {} /\ << >> = [w \in {} |-> TRUE]
  OBVIOUS
<1>2. [w \in {} |-> TRUE] \in [{} -> BOOLEAN]
  OBVIOUS
<1> QED
  BY <1>1, <1>2 DEF Verdicts

\* What an answer adds to the verdicts, and that it leaves the rest of the plugin.
LEMMA LearnsLemma ==
    ASSUME NEW c \in Checks, NEW p \in Plugins
    PROVE  /\ Learns(c, p) \in Plugins
           /\ Learns(c, p).on = p.on /\ Learns(c, p).timer = p.timer /\ Learns(c, p).stopped = p.stopped
           /\ Learns(c, p).language = p.language /\ Learns(c, p).marks = p.marks /\ Learns(c, p).gen = p.gen
           /\ Learns(c, p).latest = p.latest
           /\ DOMAIN Learns(c, p).verdicts = DOMAIN p.verdicts \cup c.unknown
           /\ \A w \in DOMAIN Learns(c, p).verdicts :
                  Learns(c, p).verdicts[w] = IF w \in c.unknown THEN w \notin Correct[c.language] ELSE p.verdicts[w]
<1> DEFINE v == [w \in DOMAIN p.verdicts \cup c.unknown |->
                   IF w \in c.unknown THEN w \notin Correct[c.language] ELSE p.verdicts[w]]
<1>1. PICK S \in SUBSET Word : p.verdicts \in [S -> BOOLEAN]
  BY DEF Verdicts, Plugins
<1>2. c.unknown \subseteq Word
  BY DEF Checks
<1>3. v \in [S \cup c.unknown -> BOOLEAN]
  <2>1. \A w \in S \cup c.unknown :
            (IF w \in c.unknown THEN w \notin Correct[c.language] ELSE p.verdicts[w]) \in BOOLEAN
    BY <1>1
  <2> QED
    BY <1>1, <2>1
<1>4. v \in Verdicts
  BY <1>1, <1>2, <1>3 DEF Verdicts
<1>5. /\ DOMAIN v = DOMAIN p.verdicts \cup c.unknown
      /\ \A w \in DOMAIN v : v[w] = IF w \in c.unknown THEN w \notin Correct[c.language] ELSE p.verdicts[w]
  OBVIOUS
<1>6. Learns(c, p) = [p EXCEPT !.verdicts = v]
  BY DEF Learns
<1> HIDE DEF v
<1> QED
  BY <1>4, <1>5, <1>6 DEF Plugins

\* Scheduling sets the timer of a plugin that runs, and nothing else.
LEMMA ScheduleLemma ==
    ASSUME NEW p \in Plugins
    PROVE  /\ schedule(p) \in Plugins
           /\ Kept(p, schedule(p)) /\ schedule(p).marks = p.marks
           /\ schedule(p).timer \/ ~p.on \/ p.stopped
           /\ ~p.on => schedule(p) = p
  BY DEF schedule, Plugins, Kept

\* No plugin, and a new one.
LEMMA NoPluginTyped ==
    /\ NoPlugin \in Plugins /\ NoPlugin.marks = {} /\ NoPlugin.gen = 0 /\ NoPlugin.latest = 0 /\ ~NoPlugin.on
    /\ DOMAIN NoPlugin.verdicts = {}
<1> DEFINE none == << >>
<1>1. none \in Verdicts /\ DOMAIN none = {}
  BY NoVerdicts
<1>2. NoPlugin = [on |-> FALSE, timer |-> FALSE, stopped |-> FALSE, language |-> "off",
                  verdicts |-> none, marks |-> {}, gen |-> 0, latest |-> 0]
  BY DEF NoPlugin
<1> HIDE DEF none
<1> QED
  BY <1>1, <1>2 DEF Plugins

LEMMA SpellCheckingTyped ==
    ASSUME NEW n \in Nat
    PROVE  /\ SpellChecking(n) \in Plugins /\ SpellChecking(n).marks = {} /\ SpellChecking(n).gen = n
           /\ SpellChecking(n).latest = 0 /\ SpellChecking(n).on /\ SpellChecking(n).timer
           /\ DOMAIN SpellChecking(n).verdicts = {}
  BY NoPluginTyped DEF SpellChecking, Plugins

\* The parts give the properties.
LEMMA SpellInvGives == SpellInv => SpellTrue
<1> SUFFICES ASSUME SpellInv PROVE SpellTrue
  OBVIOUS
<1> USE DEF SpellInv, SpellTyped, Marking
<1>1. DOMAIN plugin.verdicts \subseteq Word
  BY DEF PluginTyped, Plugins, Verdicts
<1>2. SpellTypeOK
  BY <1>1 DEF SpellTypeOK, DocTyped, WordsTyped, PluginTyped, ChecksTyped, Numbered
<1>3. MarksTrue
  <2>1. checks = << >> => ~\E k \in DOMAIN checks : LastAsked(checks[k])
    OBVIOUS
  <2> QED
    BY <2>1 DEF MarksTrue, AtRest, Caught, Marked, Wanted
<1>4. DictionaryConverges
  <2>1. Nothing \notin {Invalidated, [read |-> server], [failed |-> TRUE]}
    BY DEF Invalidated, Nothing
  <2> QED
    BY <2>1 DEF DictionaryConverges, ListFollows
<1> QED
  BY <1>2, <1>3, <1>4 DEF SpellTrue

\* A behaviour begins so.
LEMMA SpellBegins == SpellInit => SpellInv
<1> SUFFICES ASSUME SpellInit PROVE SpellInv
  OBVIOUS
<1> USE DEF SpellInit
<1>1. DocTyped
  <2>1. doc \in Seq(Word) /\ language \in Language /\ loaded = {} /\ span = 1..(Len(doc) \div 2)
    BY SpellAssumption
  <2>2. Len(doc) \in Nat /\ DOMAIN doc = 1..Len(doc)
    BY <2>1
  <2>3. 1..(Len(doc) \div 2) \subseteq 1..Len(doc)
    BY <2>2
  <2> QED
    BY <2>1, <2>2, <2>3 DEF DocTyped, Place
<1>2. WordsTyped
  BY DEF WordsTyped
<1>3. /\ plugin \in Plugins /\ plugin.marks = {} /\ plugin.gen = 1 /\ plugin.latest = 0 /\ plugin.on /\ plugin.timer
      /\ DOMAIN plugin.verdicts = {}
  BY SpellCheckingTyped
<1>4. PluginTyped
  BY <1>3, SpellAssumption DEF PluginTyped
<1>5. spellCount \in Counts /\ spellCount.gens = 1 /\ spellCount.runs = 0
  BY SpellAssumption DEF Counts
<1>6. ChecksTyped
  BY <1>5 DEF ChecksTyped
<1>7. Marking
  BY <1>3, <1>5 DEF Marking, Numbered, Learnt, Caught
<1>8. ListFollows
  BY DEF ListFollows
<1> QED
  BY <1>1, <1>2, <1>4, <1>6, <1>7, <1>8 DEF SpellInv, SpellTyped

\* Steps that leave the plugin's knowledge alone, and set the timer if they change what is to be marked.
LEMMA Rescheduled ==
    ASSUME SpellInv, plugin' \in Plugins, UNCHANGED <<checks, spellMishap>>,
           Kept(plugin, plugin'),
           spellCount'.runs = spellCount.runs, spellCount'.gens = spellCount.gens,
           \/ plugin'.timer \/ ~plugin.on \/ plugin.stopped
           \/ /\ plugin'.timer = plugin.timer /\ plugin'.marks = plugin.marks /\ UNCHANGED <<span, doc, language>>
              /\ Known' = Known /\ spellCount'.typed = spellCount.typed
    PROVE  Marking'
<1> USE DEF SpellInv, SpellTyped, Marking
<1>0. /\ plugin'.on = plugin.on /\ plugin'.stopped = plugin.stopped /\ plugin'.language = plugin.language
      /\ plugin'.verdicts = plugin.verdicts /\ plugin'.gen = plugin.gen /\ plugin'.latest = plugin.latest
  BY DEF Kept
<1>1. Numbered'
  BY <1>0 DEF Numbered
<1>2. Learnt'
  BY <1>0 DEF Learnt
<1>3. Caught'
  <2>1. CASE plugin'.timer \/ ~plugin.on \/ plugin.stopped
    BY <2>1, <1>0 DEF Caught
  <2>2. CASE /\ plugin'.timer = plugin.timer /\ plugin'.marks = plugin.marks /\ UNCHANGED <<span, doc, language>>
             /\ Known' = Known /\ spellCount'.typed = spellCount.typed
    <3>1. Marked' <=> Marked
      BY <2>2, <1>0 DEF Marked, Wanted
    <3>2. \A k \in DOMAIN checks : LastAsked(checks[k])' <=> LastAsked(checks[k])
      BY <2>2, <1>0 DEF LastAsked, InSpan
    <3> QED
      BY <2>2, <3>1, <3>2, <1>0 DEF Caught
  <2> QED
    BY <2>1, <2>2
<1> QED
  BY <1>1, <1>2, <1>3

\* A part of what is left of the story is spent.
LEMMA SpentLemma ==
    ASSUME spellCount \in Counts, NEW what \in {"typed", "turns", "switches", "kept"}, Spent(what)
    PROVE  /\ spellCount' \in Counts /\ spellCount'.runs = spellCount.runs /\ spellCount'.gens = spellCount.gens
           /\ what # "typed" => spellCount'.typed = spellCount.typed
  BY DEF Spent, Counts

\* An edit of the text, which schedules a check.
LEMMA EditKeeps ==
    ASSUME SpellInv, NEW i \in Place, NEW w \in Word, updateDoc(i, w)
    PROVE  SpellInv'
<1> USE DEF SpellInv, SpellTyped
<1>1. PICK marks \in {plugin.marks, plugin.marks \ {i}} : plugin' = schedule([plugin EXCEPT !.marks = marks])
  BY DEF updateDoc
<1> DEFINE p == [plugin EXCEPT !.marks = marks]
<1>2. p \in Plugins /\ p.marks = marks /\ Kept(plugin, p)
  BY DEF PluginTyped, Plugins, Kept
<1>3. ~plugin.on => p = plugin
  <2>1. plugin.marks = {} => marks = {}
    OBVIOUS
  <2>2. ~plugin.on => plugin = NoPlugin /\ plugin.marks = {}
    BY DEF PluginTyped, NoPlugin
  <2> QED
    BY <2>1, <2>2 DEF NoPlugin
<1> HIDE DEF p
<1>4. /\ plugin' \in Plugins /\ plugin'.marks = marks
      /\ Kept(plugin, plugin')
      /\ plugin'.timer \/ ~plugin.on \/ plugin.stopped
      /\ ~plugin.on => plugin' = plugin
  BY <1>1, <1>2, <1>3, ScheduleLemma DEF p, Kept
<1>5. /\ doc' = [doc EXCEPT ![i] = w] /\ Spent("typed")
      /\ UNCHANGED <<span, language, server, shownWords, changes, refetch, ignored, checks, loaded, failed, spellMishap>>
  BY DEF updateDoc, words, worker
<1>6. /\ spellCount' \in Counts /\ spellCount'.runs = spellCount.runs /\ spellCount'.gens = spellCount.gens
  BY <1>5, SpentLemma DEF ChecksTyped
<1>7. doc' \in Seq(Word) /\ DOMAIN doc' = DOMAIN doc
  BY <1>5 DEF DocTyped, Place
<1>8. DocTyped' /\ WordsTyped' /\ ChecksTyped' /\ ListFollows'
  BY <1>5, <1>6, <1>7 DEF DocTyped, WordsTyped, ChecksTyped, ListFollows, Place, Nothing, Invalidated
<1>9. PluginTyped'
  BY <1>4, <1>5, <1>7 DEF PluginTyped, Place, Kept
<1>10. Marking'
  BY <1>4, <1>5, <1>6, Rescheduled
<1> QED
  BY <1>8, <1>9, <1>10

\* The screen scrolls.
LEMMA UpdateKeeps == ASSUME SpellInv, update PROVE SpellInv'
<1> USE DEF SpellInv, SpellTyped
<1>1. /\ plugin' \in Plugins
      /\ plugin'.timer \/ ~plugin.on \/ plugin.stopped
      /\ Kept(plugin, plugin') /\ plugin'.marks = plugin.marks
      /\ ~plugin.on => plugin' = plugin
  BY ScheduleLemma DEF update, PluginTyped
<1>2. /\ span' \in checkSpans /\ Spent("turns")
      /\ UNCHANGED <<doc, language, server, shownWords, changes, refetch, ignored, checks, loaded, failed, spellMishap>>
  BY DEF update, words, worker
<1>3. span' \subseteq Place
  <2>1. Len(doc) \in Nat /\ DOMAIN doc = 1..Len(doc)
    BY DEF DocTyped
  <2>2. 1..(Len(doc) \div 2) \subseteq 1..Len(doc) /\ ((Len(doc) \div 2) + 1)..Len(doc) \subseteq 1..Len(doc)
    BY <2>1
  <2> QED
    BY <1>2, <2>1, <2>2 DEF checkSpans, Place
<1>4. /\ spellCount' \in Counts /\ spellCount'.runs = spellCount.runs /\ spellCount'.gens = spellCount.gens
  BY <1>2, SpentLemma DEF ChecksTyped
<1>5. DocTyped' /\ WordsTyped' /\ ChecksTyped' /\ ListFollows'
  BY <1>2, <1>3, <1>4 DEF DocTyped, WordsTyped, ChecksTyped, ListFollows, Place, Nothing, Invalidated
<1>6. PluginTyped'
  BY <1>1, <1>2 DEF PluginTyped, Place, Kept
<1>7. Marking'
  BY <1>1, <1>2, <1>4, Rescheduled
<1> QED
  BY <1>5, <1>6, <1>7

\* Another language, or none: off takes the plugin away, on makes a new one.
LEMMA LanguageKeeps == ASSUME SpellInv, useSpellLanguage PROVE SpellInv'
<1> USE DEF SpellInv, SpellTyped
<1>1. /\ language' \in Language \cup {"off"} /\ language' # language
      /\ UNCHANGED <<doc, span, server, shownWords, changes, refetch, ignored, checks, loaded, failed, spellMishap>>
  BY DEF useSpellLanguage, words, worker
<1>2. DocTyped' /\ WordsTyped' /\ ListFollows'
  BY <1>1 DEF DocTyped, WordsTyped, ListFollows, Place, Nothing, Invalidated
<1>3. /\ spellCount' = [spellCount EXCEPT !.switches = @ - 1, !.gens = IF plugin'.gen > @ THEN @ + 1 ELSE @]
      /\ spellCount.switches > 0
  BY DEF useSpellLanguage
<1>4. spellCount \in Counts /\ spellCount.gens \in Nat
  BY DEF ChecksTyped, Counts
<1> DEFINE g == IF plugin'.gen > spellCount.gens THEN spellCount.gens + 1 ELSE spellCount.gens
<1>5. /\ spellCount' \in Counts /\ spellCount'.runs = spellCount.runs /\ spellCount'.gens = g
      /\ spellCount'.typed = spellCount.typed /\ g \in Nat
  <2>1. g \in Nat
    BY <1>4
  <2>2. spellCount' = [spellCount EXCEPT !.switches = @ - 1, !.gens = g]
    BY <1>3, <1>4 DEF Counts
  <2>3. spellCount.switches - 1 \in Nat
    BY <1>3, <1>4 DEF Counts
  <2> HIDE DEF g
  <2> QED
    BY <2>1, <2>2, <2>3, <1>4 DEF Counts
<1>6. ChecksTyped'
  BY <1>1, <1>5 DEF ChecksTyped, Place
<1>7. CASE language' = "off"
  <2>1. plugin' = NoPlugin
    BY <1>7 DEF useSpellLanguage
  <2>2. /\ plugin' \in Plugins /\ plugin'.marks = {} /\ plugin'.gen = 0 /\ plugin'.latest = 0 /\ ~plugin'.on
        /\ DOMAIN plugin'.verdicts = {}
    BY <2>1, NoPluginTyped
  <2>3. PluginTyped'
    BY <2>1, <2>2, <1>7 DEF PluginTyped, NoPlugin
  <2>4. g = spellCount.gens
    BY <2>2, <1>4
  <2>5. Marking'
    BY <2>2, <2>4, <1>1, <1>5 DEF Marking, Numbered, Learnt, Caught, ChecksTyped, Counts
  <2> QED
    BY <1>2, <1>6, <2>3, <2>5
<1>8. CASE language' # "off" /\ plugin.on
  <2>1. plugin' = schedule(plugin)
    BY <1>8 DEF useSpellLanguage
  <2>2. /\ plugin' \in Plugins
        /\ plugin'.timer \/ plugin.stopped
        /\ Kept(plugin, plugin') /\ plugin'.marks = plugin.marks
    BY <2>1, <1>8, ScheduleLemma DEF PluginTyped
  <2>3. PluginTyped'
    BY <2>2, <1>1, <1>8 DEF PluginTyped, Place, Kept
  <2>4. spellCount'.gens = spellCount.gens
    BY <2>2, <1>4, <1>5 DEF Marking, Numbered, PluginTyped, Plugins, Kept
  <2>5. Marking'
    BY <2>2, <2>4, <1>1, <1>5, Rescheduled
  <2> QED
    BY <1>2, <1>6, <2>3, <2>5
<1>9. CASE language' # "off" /\ ~plugin.on
  <2>1. plugin' = SpellChecking(spellCount.gens + 1)
    BY <1>9 DEF useSpellLanguage
  <2>2. /\ plugin' \in Plugins /\ plugin'.marks = {} /\ plugin'.gen = spellCount.gens + 1 /\ plugin'.latest = 0 /\ plugin'.on
        /\ DOMAIN plugin'.verdicts = {} /\ plugin'.timer
    BY <2>1, <1>4, SpellCheckingTyped
  <2>3. PluginTyped'
    BY <2>2, <1>9 DEF PluginTyped
  <2>4. g = spellCount.gens + 1
    BY <2>2, <1>4
  <2>5. Marking'
    <3>1. \A k \in DOMAIN checks : checks[k].gen \in Nat /\ checks[k].id \in Nat
      <4>1. \A k \in DOMAIN checks : checks[k] \in Checks
        BY DEF ChecksTyped
      <4> QED
        BY <4>1 DEF Checks
    <3>2. spellCount.runs \in Nat
      BY DEF ChecksTyped, Counts
    <3>3. Numbered'
      BY <2>2, <2>4, <1>1, <1>4, <1>5, <3>1, <3>2 DEF Marking, Numbered
    <3> QED
      BY <2>2, <3>3 DEF Marking, Learnt, Caught
  <2> QED
    BY <1>2, <1>6, <2>3, <2>5
<1> QED
  BY <1>7, <1>8, <1>9

\* The words the user keeps change; a plugin whose words those are is to check again.
LEMMA WordsKeep ==
    ASSUME SpellInv, spellcheckFor, UNCHANGED <<doc, span, language, checks, loaded, spellMishap>>,
           spellCount' \in Counts, spellCount'.runs = spellCount.runs, spellCount'.gens = spellCount.gens,
           spellCount'.typed = spellCount.typed, WordsTyped', ListFollows'
    PROVE  SpellInv'
<1> USE DEF SpellInv, SpellTyped
<1>1. DocTyped' /\ ChecksTyped'
  BY DEF DocTyped, ChecksTyped, Place
<1>2. CASE Known' # Known
  <2>1. plugin' = schedule(plugin)
    BY <1>2 DEF spellcheckFor
  <2>2. /\ plugin' \in Plugins /\ Kept(plugin, plugin') /\ plugin'.marks = plugin.marks
        /\ plugin'.timer \/ ~plugin.on \/ plugin.stopped
        /\ ~plugin.on => plugin' = plugin
    BY <2>1, ScheduleLemma DEF PluginTyped
  <2>3. PluginTyped'
    BY <2>2 DEF PluginTyped, Place, Kept
  <2>4. Marking'
    BY <2>2, Rescheduled
  <2> QED
    BY <1>1, <2>3, <2>4
<1>3. CASE Known' = Known
  <2>1. plugin' = plugin
    BY <1>3 DEF spellcheckFor
  <2>2. plugin' \in Plugins /\ Kept(plugin, plugin')
    BY <2>1 DEF PluginTyped, Kept
  <2>3. PluginTyped'
    BY <2>1 DEF PluginTyped, Place
  <2>4. Marking'
    BY <2>1, <2>2, <1>3, Rescheduled
  <2> QED
    BY <1>1, <2>3, <2>4
<1> QED
  BY <1>2, <1>3

\* What is shown of a document whose words the verdicts cover is what is to be marked.
LEMMA ShownWanted ==
    ASSUME NEW c, NEW p, c.span = span, c.known = Known, InSpan(span, doc) \subseteq DOMAIN p.verdicts,
           \A w \in DOMAIN p.verdicts : p.verdicts[w] <=> w \notin Correct[language]
    PROVE  Shown(c, p) = Wanted
<1>1. \A i \in span : doc[i] \in DOMAIN p.verdicts
  BY DEF InSpan
<1> QED
  BY <1>1 DEF Shown, Wanted, accepts

\* A check that has its answer marks what it shows, unless its plugin is gone or stopped or the text has changed.
LEMMA FinishLemma ==
    ASSUME NEW c \in Checks, NEW p \in Plugins, doc \in Seq(Word), c.span \subseteq Place
    PROVE  /\ Finish(c, p) \in Plugins
           /\ p.marks \subseteq Place => Finish(c, p).marks \subseteq Place
           /\ Finish(c, p).on = p.on /\ Finish(c, p).timer = p.timer /\ Finish(c, p).stopped = p.stopped
           /\ Finish(c, p).language = p.language /\ Finish(c, p).verdicts = p.verdicts /\ Finish(c, p).gen = p.gen
           /\ Finish(c, p).latest \in {p.latest, c.id} /\ Finish(c, p).latest >= p.latest
           /\ c.gen = p.gen /\ ~p.stopped /\ c.typed = spellCount.typed =>
                  /\ Finish(c, p).marks = Shown(c, p) /\ Finish(c, p).latest >= c.id
<1> DEFINE m == Shown(c, p)
           l == IF c.id > p.latest THEN c.id ELSE p.latest
<1>1. m \subseteq c.span /\ m \subseteq Nat
  BY DEF Shown, Place
<1>2. l \in Nat /\ l \in {p.latest, c.id} /\ l >= p.latest /\ l >= c.id
  BY DEF Checks, Plugins
<1>3. CASE c.gen # p.gen \/ p.stopped \/ c.typed # spellCount.typed
  <2>1. Finish(c, p) = p
    BY <1>3 DEF Finish
  <2>2. p.latest \in Nat
    BY DEF Plugins
  <2> QED
    BY <1>3, <2>1, <2>2
<1>4. CASE ~(c.gen # p.gen \/ p.stopped \/ c.typed # spellCount.typed)
  <2>1. Finish(c, p) = [p EXCEPT !.marks = m, !.latest = l]
    BY <1>4 DEF Finish, Plugins
  <2> HIDE DEF m, l
  <2>2. /\ Finish(c, p) \in Plugins /\ Finish(c, p).marks = m /\ Finish(c, p).latest = l
        /\ Finish(c, p).on = p.on /\ Finish(c, p).timer = p.timer /\ Finish(c, p).stopped = p.stopped
        /\ Finish(c, p).language = p.language /\ Finish(c, p).verdicts = p.verdicts /\ Finish(c, p).gen = p.gen
    BY <1>1, <1>2, <2>1 DEF Plugins
  <2> QED
    BY <1>1, <1>2, <2>2 DEF m
<1> QED
  BY <1>3, <1>4

\* A run begins: it marks at once when every word is known, and waits for an answer otherwise.
LEMMA RunKeeps == ASSUME SpellInv, run PROVE SpellInv'
<1> USE DEF SpellInv, SpellTyped
<1> DEFINE v == Cleared(plugin)
           p == [plugin EXCEPT !.timer = FALSE, !.verdicts = v, !.language = language]
           n == spellCount.runs + 1
           u == InSpan(span, doc) \ DOMAIN p.verdicts
           c == [id |-> n, gen |-> plugin.gen, language |-> language, span |-> span, known |-> Known,
                 typed |-> spellCount.typed, unknown |-> u]
<1>1. /\ plugin.on /\ plugin.timer /\ UNCHANGED <<doc, span, language, server, shownWords, changes, refetch, ignored, loaded, spellMishap>>
      /\ spellCount' = [spellCount EXCEPT !.runs = n]
      /\ IF u = {} THEN plugin' = Finish(c, p) /\ UNCHANGED checks
         ELSE plugin' = p /\ checks' = Append(checks, c)
  BY DEF run, words
<1>2. language \in Language /\ plugin.gen \in Nat \ {0}
  BY <1>1 DEF Marking, Numbered, PluginTyped, Plugins, DocTyped
<1>3. v \in Verdicts
  BY NoVerdicts DEF Cleared, PluginTyped, Plugins
<1>4. "mixed" \notin spellMishap => \A w \in DOMAIN v : v[w] <=> w \notin Correct[language]
  BY NoVerdicts DEF Cleared, Marking, Learnt
<1>5. /\ p \in Plugins /\ p.on /\ ~p.timer /\ p.stopped = plugin.stopped /\ p.language = language /\ p.verdicts = v
      /\ p.marks = plugin.marks /\ p.gen = plugin.gen /\ p.latest = plugin.latest
  <2> HIDE DEF v
  <2> QED
    BY <1>1, <1>2, <1>3 DEF PluginTyped, Plugins
<1>6. n \in Nat /\ n > spellCount.runs /\ spellCount.runs \in Nat /\ spellCount.gens \in Nat
  BY DEF ChecksTyped, Counts
<1>7. /\ spellCount' \in Counts /\ spellCount'.runs = n /\ spellCount'.gens = spellCount.gens
      /\ spellCount'.typed = spellCount.typed
  <2> HIDE DEF n
  <2> QED
    BY <1>1, <1>6 DEF ChecksTyped, Counts
<1>8. span \subseteq Nat /\ Known \subseteq Word /\ u \subseteq Word
  BY DEF DocTyped, WordsTyped, Place, Known, InSpan
<1>9. spellCount.typed \in Nat
  BY DEF ChecksTyped, Counts
<1>10. /\ c \in Checks /\ c.id = n /\ c.gen = plugin.gen /\ c.language = language /\ c.span = span
       /\ c.known = Known /\ c.typed = spellCount.typed /\ c.unknown = u
  <2> HIDE DEF n, u, p
  <2> QED
    BY <1>2, <1>6, <1>8, <1>9 DEF Checks
<1>11. InSpan(span, doc) \subseteq DOMAIN v \cup u
  BY <1>5
<1>12. DocTyped' /\ WordsTyped' /\ ListFollows' /\ Known' = Known
  BY <1>1 DEF DocTyped, WordsTyped, ListFollows, Place, Nothing, Invalidated, Known
<1>13. \A k \in DOMAIN checks : checks[k].id \in Nat /\ checks[k].gen \in Nat
  <2>1. \A k \in DOMAIN checks : checks[k] \in Checks
    BY DEF ChecksTyped
  <2> QED
    BY <2>1 DEF Checks
<1>14. plugin.latest \in Nat /\ plugin.gen \in Nat
  BY DEF PluginTyped, Plugins
<1> HIDE DEF c, u, n, p, v
<1>15. CASE u = {}
  <2>1. plugin' = Finish(c, p) /\ checks' = checks
    BY <1>1, <1>15
  <2>2. /\ plugin' \in Plugins /\ plugin'.marks \subseteq Place
        /\ plugin'.on /\ ~plugin'.timer /\ plugin'.stopped = plugin.stopped /\ plugin'.language = language
        /\ plugin'.verdicts = v /\ plugin'.gen = plugin.gen /\ plugin'.latest \in {plugin.latest, n}
        /\ plugin'.latest >= plugin.latest
        /\ ~plugin.stopped => plugin'.marks = Shown(c, p) /\ plugin'.latest >= n
    BY <2>1, <1>5, <1>10, FinishLemma DEF DocTyped, PluginTyped
  <2>3. PluginTyped'
    BY <2>2, <1>1 DEF PluginTyped, Place
  <2>4. ChecksTyped'
    BY <2>1, <1>1, <1>7 DEF ChecksTyped, Place
  <2>5. Numbered'
    <3>1. plugin'.gen <= spellCount'.gens /\ plugin'.gen > 0
      BY <2>2, <1>2, <1>7 DEF Marking, Numbered
    <3>2. plugin'.latest <= spellCount'.runs
      BY <2>2, <1>6, <1>7, <1>14 DEF Marking, Numbered
    <3>3. \A k \in DOMAIN checks : checks[k].gen <= spellCount.gens /\ checks[k].id <= n
      BY <1>6, <1>13 DEF Marking, Numbered
    <3> QED
      BY <2>1, <3>1, <3>2, <3>3, <1>7 DEF Marking, Numbered
  <2>6. Learnt'
    BY <2>2, <1>1, <1>4 DEF Learnt
  <2>7. ASSUME ~plugin.stopped, spellMishap = {} PROVE Marked'
    <3>1. Shown(c, p) = Wanted
      BY <2>7, <1>4, <1>5, <1>10, <1>11, <1>15, ShownWanted
    <3>2. Wanted' = Wanted
      BY <1>1, <1>12 DEF Wanted
    <3>3. plugin'.latest = n
      BY <2>2, <2>7, <1>6, <1>14 DEF Marking, Numbered
    <3>4. \A k \in DOMAIN checks : checks[k].id # n
      BY <1>6, <1>13 DEF Marking, Numbered
    <3> QED
      BY <2>1, <2>2, <2>7, <3>1, <3>2, <3>3, <3>4, <1>7 DEF Marked
  <2>8. Caught'
    BY <2>2, <2>7, <1>1 DEF Caught
  <2> QED
    BY <2>3, <2>4, <2>5, <2>6, <2>8, <1>12 DEF Marking
<1>16. CASE u # {}
  <2>1. plugin' = p /\ checks' = Append(checks, c)
    BY <1>1, <1>16
  <2>2. PluginTyped'
    BY <2>1, <1>1, <1>2, <1>5, SpellAssumption DEF PluginTyped, Place
  <2>3. /\ checks \in Seq(Checks) /\ checks' \in Seq(Checks) /\ Len(checks) \in Nat
        /\ DOMAIN checks = 1..Len(checks) /\ DOMAIN checks' = 1..(Len(checks) + 1)
        /\ checks'[Len(checks) + 1] = c /\ \A k \in DOMAIN checks : checks'[k] = checks[k]
    BY <2>1, <1>10 DEF ChecksTyped
  <2>4. \A k \in DOMAIN checks' : (k = Len(checks) + 1 /\ checks'[k] = c) \/ (k \in DOMAIN checks /\ checks'[k] = checks[k])
    BY <2>3
  <2>5. ChecksTyped'
    <3>1. \A k \in DOMAIN checks' : checks'[k].unknown # {} /\ checks'[k].span \subseteq Place
      BY <2>4, <1>10, <1>16 DEF ChecksTyped, DocTyped
    <3> QED
      BY <2>3, <3>1, <1>1, <1>7 DEF ChecksTyped, Place
  <2>6. Numbered'
    <3>1. \A k \in DOMAIN checks' : checks'[k].gen <= spellCount.gens /\ checks'[k].id <= n
      BY <2>4, <1>6, <1>10, <1>13 DEF Marking, Numbered
    <3>2. \A j, k \in DOMAIN checks' : checks'[j].id = checks'[k].id => j = k
      <4>1. \A k \in DOMAIN checks : checks[k].id # n
        BY <1>6, <1>13 DEF Marking, Numbered
      <4> QED
        BY <2>4, <4>1, <1>10 DEF Marking, Numbered
    <3>3. p.gen <= spellCount.gens /\ p.latest <= n /\ p.gen > 0
      BY <1>5, <1>2, <1>6, <1>14 DEF Marking, Numbered
    <3> QED
      BY <2>1, <3>1, <3>2, <3>3, <1>7 DEF Numbered
  <2>7. Learnt'
    BY <2>1, <1>1, <1>4, <1>5 DEF Learnt
  <2>8. Caught'
    <3>0. PICK k \in DOMAIN checks' : checks'[k] = c
      BY <2>3
    <3>1. LastAsked(checks[k])'
      BY <3>0, <2>1, <1>1, <1>5, <1>7, <1>10, <1>11, <1>12 DEF LastAsked, InSpan
    <3> QED
      BY <2>1, <3>0, <3>1, <1>1, <1>5 DEF Caught
  <2> QED
    BY <2>2, <2>5, <2>6, <2>7, <2>8, <1>12 DEF Marking
<1> QED
  BY <1>15, <1>16

\* A check that waits is one of those typed, with its numbers.
LEMMA CheckTyped ==
    ASSUME SpellInv, NEW k \in DOMAIN checks
    PROVE  /\ checks[k] \in Checks /\ checks[k].id \in Nat /\ checks[k].gen \in Nat \ {0}
           /\ checks[k].span \subseteq Place /\ checks[k].language \in Language
           /\ checks[k].unknown # {} /\ checks[k].unknown \subseteq Word
<1>1. checks[k] \in Checks
  BY DEF SpellInv, SpellTyped, ChecksTyped
<1> QED
  BY <1>1 DEF SpellInv, SpellTyped, ChecksTyped, Checks

\* One check less: types and numbers stay, and so does the last one asked unless it is the one taken.
LEMMA OneLess ==
    ASSUME SpellInv, NEW k \in DOMAIN checks, checks' = RemoveAt(checks, k), UNCHANGED <<doc, spellCount>>,
           plugin'.gen = plugin.gen, plugin'.on = plugin.on,
           plugin'.latest \in {plugin.latest, checks[k].id}
    PROVE  /\ ChecksTyped' /\ Numbered'
           /\ \A j \in DOMAIN checks' : \E i \in DOMAIN checks \ {k} : checks'[j] = checks[i]
           /\ \A i \in DOMAIN checks \ {k} : \E j \in DOMAIN checks' : checks'[j] = checks[i]
<1> USE DEF SpellInv, SpellTyped, Marking
<1> DEFINE at(j) == IF j < k THEN j ELSE j + 1
<1>1. /\ checks' \in Seq(Checks)
      /\ \A j \in DOMAIN checks' : at(j) \in DOMAIN checks \ {k} /\ checks'[j] = checks[at(j)]
      /\ \A i \in DOMAIN checks \ {k} : \E j \in DOMAIN checks' : checks'[j] = checks[i]
  BY RemoveAtLemma DEF ChecksTyped
<1>2. DOMAIN checks' \subseteq Nat /\ k \in Nat
  BY <1>1 DEF ChecksTyped
<1>3. \A i, j \in Nat : at(i) = at(j) => i = j
  BY <1>2
<1> HIDE DEF at
<1>4. ChecksTyped'
  BY <1>1 DEF ChecksTyped, Place
<1>5. Numbered'
  <2>1. \A j \in DOMAIN checks' : checks'[j].gen <= spellCount.gens /\ checks'[j].id <= spellCount.runs
    BY <1>1 DEF Numbered
  <2>2. ASSUME NEW i \in DOMAIN checks', NEW j \in DOMAIN checks', checks'[i].id = checks'[j].id PROVE i = j
    <3>1. at(i) = at(j)
      BY <1>1, <2>2 DEF Numbered
    <3> QED
      BY <3>1, <1>2, <1>3
  <2>3. plugin'.latest <= spellCount.runs
    BY DEF Numbered
  <2> QED
    BY <2>1, <2>2, <2>3 DEF Numbered
<1> QED
  BY <1>1, <1>4, <1>5

\* An answer, or an end, that is not for the plugin of today.
LEMMA NotMine ==
    ASSUME SpellInv, NEW k \in DOMAIN checks, checks[k].gen # plugin.gen, checks' = RemoveAt(checks, k),
           UNCHANGED <<doc, span, language, words, loaded, spellCount, plugin, spellMishap>>
    PROVE  SpellInv'
<1> USE DEF SpellInv, SpellTyped, words
<1>1. DocTyped' /\ WordsTyped' /\ PluginTyped' /\ ListFollows' /\ Known' = Known
  BY DEF DocTyped, WordsTyped, PluginTyped, ListFollows, Place, Known, Nothing, Invalidated
<1>2. /\ ChecksTyped' /\ Numbered'
      /\ \A j \in DOMAIN checks' : \E i \in DOMAIN checks \ {k} : checks'[j] = checks[i]
      /\ \A i \in DOMAIN checks \ {k} : \E j \in DOMAIN checks' : checks'[j] = checks[i]
  BY OneLess
<1>3. Learnt'
  BY DEF Marking, Learnt
<1>4. Caught'
  <2>1. Marked => Marked'
    BY <1>1, <1>2 DEF Marked, Wanted
  <2>2. ASSUME NEW i \in DOMAIN checks, LastAsked(checks[i]) PROVE \E j \in DOMAIN checks' : LastAsked(checks[j])'
    <3>1. i # k
      BY <2>2 DEF LastAsked
    <3>2. PICK j \in DOMAIN checks' : checks'[j] = checks[i]
      BY <3>1, <1>2
    <3> QED
      BY <2>2, <3>2, <1>1 DEF LastAsked, InSpan
  <2> QED
    BY <2>1, <2>2 DEF Marking, Caught
<1> QED
  BY <1>1, <1>2, <1>3, <1>4 DEF Marking

\* The worker's answer: the last check asked marks what it is to mark, and none before it does so later.
LEMMA AskKeeps == ASSUME SpellInv, NEW k \in DOMAIN checks, ask(k) PROVE SpellInv'
<1> USE DEF SpellInv, SpellTyped
<1> DEFINE c == checks[k]
           p == Learns(c, plugin)
<1>1. /\ checks' = RemoveAt(checks, k)
      /\ UNCHANGED <<doc, span, language, words, loaded, failed, spellCount>>
      /\ plugin' = IF c.gen = plugin.gen THEN Finish(c, p) ELSE plugin
      /\ spellMishap' = spellMishap \cup (IF Late(c) THEN {"mixed"} ELSE {})
                \cup (IF c.gen = plugin.gen /\ c.id < plugin.latest THEN {"overtaken"} ELSE {})
  BY DEF ask
<1>2. CASE c.gen # plugin.gen
  <2>1. plugin' = plugin
    BY <1>1, <1>2
  <2>2. spellMishap' = spellMishap
    BY <1>1, <1>2 DEF Late
  <2> QED
    BY <2>1, <2>2, <1>1, <1>2, NotMine
<1>3. CASE c.gen = plugin.gen
  <2>1. /\ c \in Checks /\ c.id \in Nat /\ c.gen \in Nat \ {0} /\ c.span \subseteq Place /\ c.language \in Language
        /\ c.unknown # {} /\ c.unknown \subseteq Word
    BY CheckTyped
  <2>2. /\ p \in Plugins /\ p.on = plugin.on /\ p.timer = plugin.timer /\ p.stopped = plugin.stopped
        /\ p.language = plugin.language /\ p.marks = plugin.marks /\ p.gen = plugin.gen /\ p.latest = plugin.latest
        /\ DOMAIN p.verdicts = DOMAIN plugin.verdicts \cup c.unknown
        /\ \A w \in DOMAIN p.verdicts :
               p.verdicts[w] = IF w \in c.unknown THEN w \notin Correct[c.language] ELSE plugin.verdicts[w]
    BY <2>1, LearnsLemma DEF PluginTyped
  <2> HIDE DEF c, p
  <2>3. plugin' = Finish(c, p)
    BY <1>1, <1>3
  <2>4. /\ plugin' \in Plugins /\ plugin'.marks \subseteq Place
        /\ plugin'.on = plugin.on /\ plugin'.timer = plugin.timer /\ plugin'.stopped = plugin.stopped
        /\ plugin'.language = plugin.language /\ plugin'.verdicts = p.verdicts /\ plugin'.gen = plugin.gen
        /\ plugin'.latest \in {plugin.latest, c.id} /\ plugin'.latest >= plugin.latest
        /\ (~plugin.stopped /\ c.typed = spellCount.typed) =>
               (plugin'.marks = Shown(c, p) /\ plugin'.latest >= c.id)
    BY <2>1, <2>2, <2>3, <1>3, FinishLemma DEF DocTyped, PluginTyped
  <2>5. plugin.on
    BY <2>1, <1>3, NoPluginTyped DEF PluginTyped
  <2>6. DocTyped' /\ WordsTyped' /\ ListFollows' /\ Known' = Known
    BY <1>1 DEF DocTyped, WordsTyped, ListFollows, Place, Nothing, Invalidated, Known, words
  <2>7. PluginTyped'
    BY <2>4, <2>5, <1>1 DEF PluginTyped, Place
  <2>8. /\ ChecksTyped' /\ Numbered'
        /\ \A j \in DOMAIN checks' : \E i \in DOMAIN checks \ {k} : checks'[j] = checks[i]
        /\ \A i \in DOMAIN checks \ {k} : \E j \in DOMAIN checks' : checks'[j] = checks[i]
    BY <2>4, <1>1, OneLess DEF c
  <2>9. "mixed" \notin spellMishap' => "mixed" \notin spellMishap /\ c.language = plugin.language
    BY <1>1, <1>3 DEF Late
  <2>10. Learnt'
    <3> SUFFICES ASSUME "mixed" \notin spellMishap', NEW w \in DOMAIN p.verdicts
                 PROVE  p.verdicts[w] <=> w \notin Correct[plugin.language]
      BY <2>4 DEF Learnt
    <3>1. c.language = plugin.language /\ \A x \in DOMAIN plugin.verdicts :
              plugin.verdicts[x] <=> x \notin Correct[plugin.language]
      BY <2>9 DEF Marking, Learnt
    <3>2. CASE w \in c.unknown
      BY <2>2, <3>1, <3>2
    <3>3. CASE w \notin c.unknown
      BY <2>2, <3>1, <3>3
    <3> QED
      BY <3>2, <3>3
  <2>11. ASSUME plugin'.on, ~plugin'.timer, ~plugin'.stopped, spellMishap' = {}
         PROVE  plugin'.language = language' /\ (Marked' \/ \E j \in DOMAIN checks' : LastAsked(checks[j])')
    <3>1. spellMishap = {} /\ ~(c.id < plugin.latest)
      BY <2>11, <1>1, <1>3
    <3>2. plugin.language = language /\ (Marked \/ \E i \in DOMAIN checks : LastAsked(checks[i]))
      BY <2>4, <2>11, <3>1 DEF Marking, Caught
    <3>3. plugin'.language = language'
      BY <2>4, <3>2, <1>1
    <3>4. ~Marked
      <4>1. c.id <= spellCount.runs /\ spellCount.runs \in Nat
        BY DEF Marking, Numbered, ChecksTyped, Counts, c
      <4> QED
        BY <3>1, <4>1, <2>1 DEF Marked, c
    <3>5. PICK i \in DOMAIN checks : LastAsked(checks[i])
      BY <3>2, <3>4
    <3>6. CASE i # k
      <4>1. PICK j \in DOMAIN checks' : checks'[j] = checks[i]
        BY <3>6, <2>8
      <4>2. LastAsked(checks[j])'
        BY <3>5, <4>1, <2>2, <2>4, <2>6, <1>1 DEF LastAsked, InSpan
      <4> QED
        BY <3>3, <4>2
    <3>7. CASE i = k
      <4>1. /\ c.id = spellCount.runs /\ c.language = language /\ c.span = span /\ c.known = Known
            /\ c.typed = spellCount.typed /\ InSpan(span, doc) \subseteq DOMAIN p.verdicts
        BY <3>5, <3>7, <2>2 DEF LastAsked, c
      <4>2. \A w \in DOMAIN p.verdicts : p.verdicts[w] <=> w \notin Correct[language]
        BY <2>2, <3>1, <3>2, <4>1 DEF Marking, Learnt
      <4>3. plugin'.marks = Wanted
        BY <2>4, <2>11, <4>1, <4>2, ShownWanted
      <4>4. plugin'.latest = spellCount.runs
        <5>1. plugin'.latest >= c.id /\ plugin'.latest \in {plugin.latest, c.id}
          BY <2>4, <2>11, <4>1
        <5>2. plugin.latest \in Nat /\ plugin.latest <= spellCount.runs
          BY DEF Marking, Numbered, PluginTyped, Plugins
        <5> QED
          BY <5>1, <5>2, <4>1, <2>1
      <4>5. \A j \in DOMAIN checks' : checks'[j].id # spellCount.runs
        BY <2>8, <4>1 DEF Marking, Numbered, c
      <4>6. Wanted' = Wanted
        BY <1>1, <2>6 DEF Wanted
      <4> QED
        BY <3>3, <4>3, <4>4, <4>5, <4>6, <1>1 DEF Marked
    <3> QED
      BY <3>6, <3>7
  <2>12. Caught'
    BY <2>11 DEF Caught
  <2> QED
    BY <2>6, <2>7, <2>8, <2>10, <2>12 DEF Marking
<1> QED
  BY <1>2, <1>3

\* The worker fails a check: the plugin that asked stops, and has nothing left to mark.
LEMMA FailKeeps == ASSUME SpellInv, NEW k \in DOMAIN checks, fail(k) PROVE SpellInv'
<1> USE DEF SpellInv, SpellTyped
<1>1. /\ checks' = RemoveAt(checks, k)
      /\ UNCHANGED <<doc, span, language, words, loaded, spellCount, spellMishap>>
      /\ plugin' = IF checks[k].gen # plugin.gen THEN plugin ELSE [plugin EXCEPT !.stopped = TRUE, !.marks = {}]
  BY DEF fail
<1>2. CASE checks[k].gen # plugin.gen
  BY <1>1, <1>2, NotMine
<1>3. CASE checks[k].gen = plugin.gen
  <2>1. plugin.on
    BY <1>3, CheckTyped, NoPluginTyped DEF PluginTyped
  <2>2. /\ plugin' \in Plugins /\ plugin'.on /\ plugin'.stopped /\ plugin'.marks = {}
        /\ plugin'.language = plugin.language /\ plugin'.verdicts = plugin.verdicts /\ plugin'.gen = plugin.gen
        /\ plugin'.latest = plugin.latest
    BY <2>1, <1>1, <1>3 DEF PluginTyped, Plugins
  <2>3. DocTyped' /\ WordsTyped' /\ ListFollows'
    BY <1>1 DEF DocTyped, WordsTyped, ListFollows, Place, Nothing, Invalidated, words
  <2>4. PluginTyped'
    BY <2>1, <2>2, <1>1 DEF PluginTyped
  <2>5. ChecksTyped' /\ Numbered'
    BY <2>1, <2>2, <1>1, OneLess
  <2>6. Learnt' /\ Caught'
    BY <2>2, <1>1 DEF Marking, Learnt, Caught
  <2> QED
    BY <2>3, <2>4, <2>5, <2>6 DEF Marking
<1> QED
  BY <1>2, <1>3

\* A suggestion of the menu takes a misspelled word's place.
LEMMA ReplaceKeeps == ASSUME SpellInv, NEW i \in Place, replaceWord(i) PROVE SpellInv'
<1> USE DEF SpellInv, SpellTyped
<1>1. plugin.on
  BY NoPluginTyped DEF replaceWord, Menu, PluginTyped
<1>2. language \in Language
  BY <1>1 DEF PluginTyped, DocTyped
<1>3. PICK w \in Correct[language] : updateDoc(i, w)
  BY DEF replaceWord
<1>4. w \in Word
  BY <1>2, <1>3, SpellAssumption
<1> QED
  BY <1>3, <1>4, EditKeeps

\* A word is ignored in this document.
LEMMA IgnoreKeeps == ASSUME SpellInv, NEW i \in Place, ignoreInDocument(i) PROVE SpellInv'
<1> USE DEF SpellInv, SpellTyped
<1>1. /\ Spent("kept") /\ ignored' = ignored \cup {doc[i]} /\ spellcheckFor
      /\ UNCHANGED <<doc, span, language, server, shownWords, changes, refetch, checks, loaded, spellMishap>>
  BY DEF ignoreInDocument, worker
<1>2. /\ spellCount' \in Counts /\ spellCount'.runs = spellCount.runs /\ spellCount'.gens = spellCount.gens
      /\ spellCount'.typed = spellCount.typed
  BY <1>1, SpentLemma DEF ChecksTyped
<1>3. doc[i] \in Word
  BY DEF DocTyped, Place
<1>4. WordsTyped' /\ ListFollows'
  BY <1>1, <1>3 DEF WordsTyped, ListFollows, Nothing, Invalidated
<1> QED
  BY <1>1, <1>2, <1>4, WordsKeep

\* A word is added to the personal dictionary, or removed: shown at once, and a change is under way.
LEMMA MutateKeeps ==
    ASSUME SpellInv, NEW kind \in {"add", "remove"}, NEW w \in Word, Mutate(kind, w)
    PROVE  SpellInv'
<1> USE DEF SpellInv, SpellTyped
<1> DEFINE change == [kind |-> kind, word |-> w, previous |-> shownWords, answer |-> "none"]
<1>1. /\ Spent("kept") /\ spellcheckFor /\ refetch' = Nothing /\ changes' = Append(changes, change)
      /\ shownWords' = IF kind = "add" THEN shownWords \cup {w} ELSE shownWords \ {w}
      /\ UNCHANGED <<doc, span, language, server, ignored, checks, loaded, spellMishap>>
  BY DEF Mutate, worker
<1>2. /\ spellCount' \in Counts /\ spellCount'.runs = spellCount.runs /\ spellCount'.gens = spellCount.gens
      /\ spellCount'.typed = spellCount.typed
  BY <1>1, SpentLemma DEF ChecksTyped
<1>3. change \in Changes
  BY DEF WordsTyped, Changes
<1> HIDE DEF change
<1>4. changes' \in Seq(Changes) /\ changes' # << >>
  <2>1. changes \in Seq(Changes) /\ Len(changes) \in Nat
    BY DEF WordsTyped
  <2>2. changes' \in Seq(Changes) /\ Len(changes') = Len(changes) + 1
    BY <2>1, <1>1, <1>3
  <2> QED
    BY <2>1, <2>2
<1>5. WordsTyped' /\ ListFollows'
  BY <1>1, <1>4 DEF WordsTyped, ListFollows
<1> QED
  BY <1>1, <1>2, <1>5, WordsKeep

\* The server takes a change or refuses it.
LEMMA ServerKeeps == ASSUME SpellInv, NEW k \in DOMAIN changes, addDictionaryWord(k) PROVE SpellInv'
<1> USE DEF SpellInv, SpellTyped
<1>1. /\ UNCHANGED <<doc, span, language, shownWords, refetch, ignored, plugin, checks, loaded, spellCount, spellMishap>>
      /\ \/ /\ server' = IF changes[k].kind = "add" THEN server \cup {changes[k].word} ELSE server \ {changes[k].word}
            /\ changes' = [changes EXCEPT ![k].answer = "ok"]
         \/ changes' = [changes EXCEPT ![k].answer = "refused"] /\ server' = server
  BY DEF addDictionaryWord, worker
<1>2. changes[k] \in Changes
  BY DEF WordsTyped
<1>3. changes[k].word \in Word
  BY <1>2 DEF Changes
<1>4. server' \subseteq Word
  BY <1>1, <1>3 DEF WordsTyped
<1>5. changes' \in Seq(Changes) /\ DOMAIN changes' = DOMAIN changes
  <2>1. PICK a \in {"ok", "refused"} : changes' = [changes EXCEPT ![k].answer = a]
    BY <1>1
  <2>2. [changes[k] EXCEPT !.answer = a] \in Changes
    BY <1>2 DEF Changes
  <2> QED
    BY <2>1, <2>2 DEF WordsTyped
<1>6. changes' # << >>
  BY <1>5
<1>7. WordsTyped' /\ ListFollows'
  BY <1>1, <1>4, <1>5, <1>6 DEF WordsTyped, ListFollows
<1>8. DocTyped' /\ PluginTyped' /\ ChecksTyped' /\ Known' = Known
  BY <1>1 DEF DocTyped, PluginTyped, ChecksTyped, Place, Known
<1>9. Numbered' /\ Learnt'
  BY <1>1 DEF Marking, Numbered, Learnt
<1>10. Caught'
  <2>1. Marked' <=> Marked
    BY <1>1, <1>8 DEF Marked, Wanted
  <2>2. \A j \in DOMAIN checks : LastAsked(checks[j])' <=> LastAsked(checks[j])
    BY <1>1, <1>8 DEF LastAsked, InSpan
  <2> QED
    BY <1>1, <2>1, <2>2 DEF Marking, Caught
<1> QED
  BY <1>7, <1>8, <1>9, <1>10 DEF Marking

\* A change is settled, and the list asked for again.
LEMMA SettleKeeps == ASSUME SpellInv, NEW k \in DOMAIN changes, onSettled(k) PROVE SpellInv'
<1> USE DEF SpellInv, SpellTyped
<1>1. /\ spellcheckFor /\ changes' = RemoveAt(changes, k) /\ refetch' = Invalidated
      /\ shownWords' = IF changes[k].answer = "refused" THEN changes[k].previous ELSE shownWords
      /\ UNCHANGED <<doc, span, language, server, ignored, checks, loaded, spellCount, spellMishap>>
  BY DEF onSettled, worker
<1>2. changes[k] \in Changes
  BY DEF WordsTyped
<1>3. changes' \in Seq(Changes)
  BY <1>1, RemoveAtLemma DEF WordsTyped
<1>4. WordsTyped' /\ ListFollows'
  BY <1>1, <1>2, <1>3 DEF WordsTyped, ListFollows, Changes
<1>5. spellCount' \in Counts
  BY <1>1 DEF ChecksTyped
<1> QED
  BY <1>1, <1>4, <1>5, WordsKeep

\* The list is read on the server.
LEMMA ListKeeps == ASSUME SpellInv, listDictionary PROVE SpellInv'
<1> USE DEF SpellInv, SpellTyped
<1>1. /\ refetch' \in {[read |-> server], [failed |-> TRUE]}
      /\ UNCHANGED <<doc, span, language, server, shownWords, changes, ignored, plugin, checks, loaded, spellCount,
                     spellMishap>>
  BY DEF listDictionary, worker
<1>2. WordsTyped' /\ ListFollows'
  BY <1>1 DEF WordsTyped, ListFollows
<1>3. DocTyped' /\ PluginTyped' /\ ChecksTyped' /\ Known' = Known
  BY <1>1 DEF DocTyped, PluginTyped, ChecksTyped, Place, Known
<1>4. Numbered' /\ Learnt'
  BY <1>1 DEF Marking, Numbered, Learnt
<1>5. Caught'
  <2>1. Marked' <=> Marked
    BY <1>1, <1>3 DEF Marked, Wanted
  <2>2. \A j \in DOMAIN checks : LastAsked(checks[j])' <=> LastAsked(checks[j])
    BY <1>1, <1>3 DEF LastAsked, InSpan
  <2> QED
    BY <1>1, <2>1, <2>2 DEF Marking, Caught
<1> QED
  BY <1>2, <1>3, <1>4, <1>5 DEF Marking

\* The list that was read is shown: with no change under way it is still the server's.
LEMMA UseListKeeps == ASSUME SpellInv, usePersonalDictionary PROVE SpellInv'
<1> USE DEF SpellInv, SpellTyped
<1>1. /\ spellcheckFor /\ "read" \in DOMAIN refetch /\ shownWords' = refetch.read /\ refetch' = Nothing
      /\ UNCHANGED <<doc, span, language, server, changes, ignored, checks, loaded, spellCount, spellMishap>>
  BY DEF usePersonalDictionary, worker
<1>2. "read" \notin DOMAIN Nothing \cup DOMAIN Invalidated \cup DOMAIN [failed |-> TRUE]
  BY DEF Nothing, Invalidated
<1>3. refetch \in [read : SUBSET Word]
  BY <1>1, <1>2 DEF WordsTyped
<1>4. shownWords' \subseteq Word
  BY <1>1, <1>3
<1>5. changes = << >> => shownWords' = server
  BY <1>1, <1>2 DEF ListFollows
<1>6. WordsTyped' /\ ListFollows'
  BY <1>1, <1>4, <1>5 DEF WordsTyped, ListFollows
<1>7. spellCount' \in Counts
  BY <1>1 DEF ChecksTyped
<1> QED
  BY <1>1, <1>6, <1>7, WordsKeep

\* The worker has a dictionary more, or nothing happens.
LEMMA LoadKeeps ==
    ASSUME SpellInv, (\E l \in Language : loadDictionary(l)) \/ UNCHANGED spellVars
    PROVE  SpellInv'
<1> USE DEF SpellInv, SpellTyped
<1>1. /\ UNCHANGED <<doc, span, language, server, shownWords, changes, refetch, ignored, plugin, checks, spellCount,
                     spellMishap>>
      /\ loaded' \subseteq Language
  BY DEF loadDictionary, spellVars, words, worker, DocTyped
<1>2. DocTyped' /\ WordsTyped' /\ PluginTyped' /\ ChecksTyped' /\ ListFollows' /\ Known' = Known
  BY <1>1 DEF DocTyped, WordsTyped, PluginTyped, ChecksTyped, ListFollows, Place, Known, Nothing, Invalidated
<1>3. Numbered' /\ Learnt'
  BY <1>1 DEF Marking, Numbered, Learnt
<1>4. Caught'
  <2>1. Marked' <=> Marked
    BY <1>1, <1>2 DEF Marked, Wanted
  <2>2. \A j \in DOMAIN checks : LastAsked(checks[j])' <=> LastAsked(checks[j])
    BY <1>1, <1>2 DEF LastAsked, InSpan
  <2> QED
    BY <1>1, <2>1, <2>2 DEF Marking, Caught
<1> QED
  BY <1>2, <1>3, <1>4 DEF Marking

\* Every step keeps the invariant.
LEMMA SpellStep == SpellInv /\ [SpellNext]_spellVars => SpellInv'
<1> SUFFICES ASSUME SpellInv, [SpellNext]_spellVars PROVE SpellInv'
  OBVIOUS
<1>1. CASE TypeWord
  BY <1>1, EditKeeps DEF TypeWord
<1>2. CASE update
  BY <1>2, UpdateKeeps
<1>3. CASE useSpellLanguage
  BY <1>3, LanguageKeeps
<1>4. CASE run
  BY <1>4, RunKeeps
<1>5. CASE \E k \in DOMAIN checks : ask(k)
  BY <1>5, AskKeeps
<1>6. CASE \E k \in DOMAIN checks : fail(k)
  BY <1>6, FailKeeps
<1>7. CASE \E i \in Place : replaceWord(i)
  BY <1>7, ReplaceKeeps
<1>8. CASE \E i \in Place : ignoreInDocument(i)
  BY <1>8, IgnoreKeeps
<1>9. CASE addToDictionary
  <2>1. \A i \in Place : doc[i] \in Word
    BY DEF SpellInv, SpellTyped, DocTyped, Place
  <2> QED
    BY <1>9, <2>1, MutateKeeps DEF addToDictionary
<1>10. CASE removeWord
  <2>1. shownWords \subseteq Word
    BY DEF SpellInv, SpellTyped, WordsTyped
  <2> QED
    BY <1>10, <2>1, MutateKeeps DEF removeWord
<1>11. CASE \E k \in DOMAIN changes : addDictionaryWord(k)
  BY <1>11, ServerKeeps
<1>12. CASE \E k \in DOMAIN changes : onSettled(k)
  BY <1>12, SettleKeeps
<1>13. CASE listDictionary
  BY <1>13, ListKeeps
<1>14. CASE usePersonalDictionary
  BY <1>14, UseListKeeps
<1>15. CASE (\E l \in Language : loadDictionary(l)) \/ UNCHANGED spellVars
  BY <1>15, LoadKeeps
<1> QED
  BY <1>1, <1>2, <1>3, <1>4, <1>5, <1>6, <1>7, <1>8, <1>9, <1>10, <1>11, <1>12, <1>13, <1>14, <1>15 DEF SpellNext

\* The marks of a document at rest are its misspelled words on the screen, and the personal dictionary comes to
\* agree with the server's.
THEOREM SpellingHolds == SpellSpec => []SpellTrue
<1>1. SpellInit => SpellInv
  BY SpellBegins
<1>2. SpellInv /\ [SpellNext]_spellVars => SpellInv'
  BY SpellStep
<1>3. SpellInv => SpellTrue
  BY SpellInvGives
<1> QED
  BY <1>1, <1>2, <1>3, PTL DEF SpellSpec
=============================================================================
