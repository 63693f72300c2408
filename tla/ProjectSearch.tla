--------------------------- MODULE ProjectSearch ---------------------------
(***************************************************************************)
(* The project's index in the browser and the search that reads it.        *)
(*                                                                         *)
(* useProjectIndex keeps a copy of every document's text: fetched ones, a  *)
(* live one for the open document (useLiveSource), and the snapshots from  *)
(* which a document's copy is renewed when it is left.  useProjectSearch   *)
(* finds a query's matches in those copies and replaces one or all of them *)
(* in the documents' live texts, which others change meanwhile.            *)
(*                                                                         *)
(* A text is a sequence of symbols, "n" ending a line; an offset counts    *)
(* from 1.  As a regular expression "a+" stands for a run of a's and "("   *)
(* for what does not compile.                                              *)
(* The editor's view follows the selection a little later; `misfiled' are  *)
(* the documents for which the index took another one's text that way.     *)
(***************************************************************************)
EXTENDS Integers, Sequences, FiniteSets, SequencesExt

CONSTANTS
    Docs,        \* the documents, in the order of their paths
    Texts,       \* Texts[d]: the texts others may give document d
    Boxes,       \* what the panel's boxes may hold: query, options, replacement
    MaxResults,  \* MAX_RESULTS
    MaxEdits,    \* edits by others, at most
    MaxOpened,   \* documents opened, at most
    MaxReplaces  \* replaces started, at most

ASSUME SearchAssumption ==
    /\ {MaxResults, MaxEdits, MaxOpened, MaxReplaces} \subseteq Nat
    /\ DOMAIN Texts = ToSet(Docs)

VARIABLES
    store,    \* the documents' live texts
    fetched,  \* the query cache's copy of each, None when there is none
    snaps,    \* snapshots
    open,     \* openDocId
    shown,    \* the document the editor's view holds
    live,     \* the live text of useLiveSource, None until it settles
    timer,    \* the view changed and its text has not settled
    box,      \* query, settledQuery, options and replacement of the panel
    confirm,  \* what "Replace all" asks to be confirmed, None when it does not
    op,       \* the replace that runs
    count,    \* edits, documents opened and replaces so far
    had,      \* history: every text each document had
    misfiled  \* history, see above

index == <<fetched, snaps, open, shown, live, timer>>
panel == <<box, confirm, op>>
searchVars == <<store, index, panel, count, had, misfiled>>

SearchDoc == ToSet(Docs)
None == [none |-> TRUE]
Some(text) == [text |-> text]
Options == [regex : BOOLEAN, wholeWord : BOOLEAN, caseSensitive : BOOLEAN]
DEFAULT_OPTIONS == [regex |-> FALSE, wholeWord |-> FALSE, caseSensitive |-> FALSE]

-----------------------------------------------------------------------------
(* The pattern of a query (matcher.ts) and its matches (find.ts).          *)

buildMatcher(query, options) ==
    IF query = << >> \/ (options.regex /\ query = <<"(">>) THEN None
    ELSE [source |-> query, options |-> options]

Run(p) == p.options.regex /\ Len(p.source) = 2 /\ p.source[2] = "+"
Same(a, b, p) ==
    a = b \/ (~p.options.caseSensitive /\ {a, b} = {"a", "A"})
IsWord(text, i) == i \in DOMAIN text /\ text[i] \notin {"n", "+", "$&"}

(* The end of the match of p that starts at i, 0 when none does.           *)
Candidate(text, i, p) ==
    IF Run(p)
    THEN IF i \in DOMAIN text /\ Same(text[i], p.source[1], p)
         THEN Min({k \in i..Len(text) : ~Same(text[k], p.source[1], p)} \cup {Len(text) + 1})
         ELSE 0
    ELSE IF /\ i + Len(p.source) - 1 <= Len(text)
            /\ \A k \in DOMAIN p.source : Same(text[i + k - 1], p.source[k], p)
         THEN i + Len(p.source) ELSE 0
wrapWord(text, i, end, p) ==
    IF p.options.wholeWord /\ (IsWord(text, i - 1) \/ IsWord(text, end)) THEN 0 ELSE end
compile(text, p) == [i \in DOMAIN text |-> wrapWord(text, i, Candidate(text, i, p), p)]

lineStarts(text) == {1} \cup {i + 1 : i \in {j \in DOMAIN text : text[j] = "n"}}
lineIndexOf(starts, offset) == Cardinality({s \in starts : s <= offset})
lineStart(text, offset) == Max({s \in lineStarts(text) : s <= offset})
lineEnd(text, offset) ==
    Min({i \in offset..Len(text) : text[i] = "n"} \cup {Len(text) + 1}) - 1
TextMatch(text, from, to) ==
    [from |-> from, to |-> to, line |-> lineIndexOf(lineStarts(text), from),
     column |-> from - lineStart(text, from), text |-> SubSeq(text, from, to - 1),
     lineText |-> SubSeq(text, lineStart(text, from), lineEnd(text, from))]

UpTo(limit, matches) == SubSeq(matches, 1, Min({limit, Len(matches)}))
(* The matches of a text, given where the one that starts at each offset    *)
(* ends: the next is sought from the end of the one before.                *)
matchAll(text, ends) ==
    LET From[i \in 1..Len(text) + 1] ==
            IF i > Len(text) THEN << >>
            ELSE IF ends[i] = 0 THEN From[i + 1]
            ELSE <<TextMatch(text, i, ends[i])>> \o From[ends[i]]
    IN  From[1]
findMatches(text, p, limit) == UpTo(limit, matchAll(text, compile(text, p)))
Everything == 1000

-----------------------------------------------------------------------------
(* What the index knows of each document, and the search over it.          *)

collectTexts ==
    [d \in SearchDoc |-> IF d = open /\ live # None THEN live ELSE fetched[d]]
Readable(sources) == SelectSeq(Docs, LAMBDA d : sources[d] # None)

(* One document more, of which the first matches found fit.                 *)
File(d, matches) == IF matches = << >> THEN << >> ELSE <<[doc |-> d, matches |-> matches]>>
Searched(found, d, so) ==
    [files |-> so.files \o File(d, UpTo(so.left, found)),
     left |-> so.left - Len(UpTo(so.left, found)), truncated |-> Len(found) > so.left]
SearchUpTo(sources, p, limit, look) ==
    FoldLeft(LAMBDA so, d :
                 IF so.truncated THEN so
                 ELSE Searched(findMatches(collectTexts[d].text, p, so.left + look), d, so),
             [files |-> << >>, left |-> limit, truncated |-> FALSE], sources)
SearchWithout(p, limit) == SearchUpTo(Readable(collectTexts), p, limit, 0)
searchSources(p, limit) == SearchUpTo(Readable(collectTexts), p, limit, 1)

pattern == buildMatcher(box.settled, box.options)
results == IF pattern = None THEN [files |-> << >>, truncated |-> FALSE]
           ELSE searchSources(pattern, MaxResults)
Total(found) == FoldSeq(LAMBDA f, n : n + Len(f.matches), 0, found.files)
Hits(d, p) == Len(findMatches(collectTexts[d].text, p, Everything))
filesWithMatches(p) == SelectSeq(Readable(collectTexts), LAMBDA d : Hits(d, p) > 0)
countMatches(p) ==
    [matches |-> FoldSeq(LAMBDA d, n : n + Hits(d, p), 0, Readable(collectTexts)),
     files |-> Len(filesWithMatches(p))]

-----------------------------------------------------------------------------
(* What a replacement writes (replace.ts).                                 *)

expandReplacement(template, m, regex) ==
    IF ~regex THEN template
    ELSE FlattenSeq([k \in DOMAIN template |->
             IF template[k] = "$&" THEN m.text ELSE <<template[k]>>])
replacementEdits(matches, template, regex) ==
    [k \in DOMAIN matches |->
        [from |-> matches[k].from, to |-> matches[k].to,
         insert |-> expandReplacement(template, matches[k], regex)]]

applyEdits(text, edits) ==
    LET To(k) == IF k = 0 THEN 1 ELSE edits[k].to
        From[k \in 1..Len(edits) + 1] ==
            IF k > Len(edits) THEN SubSeq(text, To(k - 1), Len(text))
            ELSE SubSeq(text, To(k - 1), edits[k].from - 1) \o edits[k].insert \o From[k + 1]
    IN  From[1]

sameMatch(a, b) == a.text = b.text /\ a.lineText = b.lineText /\ a.column = b.column
Alike(matches, wanted) == SelectSeq(matches, LAMBDA m : sameMatch(m, wanted))
Far(m, wanted) == Max({m.from - wanted.from, wanted.from - m.from})
(* As many as there were: the one of the same rank; else the nearest one.  *)
Chosen(candidates, rank, wanted) ==
    IF candidates = << >> THEN None
    ELSE IF rank # {} THEN candidates[CHOOSE k \in rank : TRUE]
    ELSE candidates[CHOOSE k \in DOMAIN candidates : \A j \in DOMAIN candidates :
             \/ Far(candidates[k], wanted) < Far(candidates[j], wanted)
             \/ Far(candidates[k], wanted) = Far(candidates[j], wanted) /\ k <= j]
Rank(candidates, before, wanted) ==
    {k \in DOMAIN before : Len(before) = Len(candidates) /\ before[k].from = wanted.from}
relocate(current, wanted, seen) ==
    Chosen(Alike(current, wanted),
           Rank(Alike(current, wanted), Alike(seen, wanted), wanted), wanted)

-----------------------------------------------------------------------------
Idle == [kind |-> "none"]
SearchInit ==
    /\ store \in [SearchDoc -> UNION {Texts[d] : d \in SearchDoc}]
    /\ \A d \in SearchDoc : store[d] \in Texts[d]
    /\ fetched = [d \in SearchDoc |-> None] /\ snaps = [d \in SearchDoc |-> None]
    /\ open = Docs[1] /\ shown = Docs[1] /\ live = None /\ timer = FALSE
    /\ box = [query |-> << >>, settled |-> << >>, options |-> DEFAULT_OPTIONS,
              replacement |-> << >>]
    /\ confirm = None /\ op = Idle
    /\ count = [edits |-> 0, opened |-> 1, replaces |-> 0, typed |-> 0]
    /\ had = [d \in SearchDoc |-> {store[d]}] /\ misfiled = {}

(* Documents change: someone writes, in this browser or in another.        *)
updateListener(d) == timer' = (timer \/ d = shown)
Becomes(d, text) ==
    /\ store' = [store EXCEPT ![d] = text]
    /\ had' = [had EXCEPT ![d] = @ \cup {text}]
    /\ updateListener(d)

Write(d) ==
    /\ count.edits < MaxEdits
    /\ count' = [count EXCEPT !.edits = @ + 1]
    /\ \E text \in Texts[d] \ {store[d]} : Becomes(d, text)
    /\ UNCHANGED <<fetched, snaps, open, shown, live, panel, misfiled>>

(* New results, or new sources they are made of, take the question away.   *)
ConfirmFollows ==
    confirm' = IF collectTexts' # collectTexts THEN None ELSE confirm

fetchDocumentText(d) ==
    /\ fetched' = [fetched EXCEPT ![d] = Some(store[d])]
    /\ fetched' # fetched
    /\ UNCHANGED <<store, snaps, open, shown, live, timer, box, op, count, had, misfiled>>
    /\ ConfirmFollows

(* The view's text settles: it is filed under docRef, which is `open'.     *)
settle ==
    /\ timer /\ timer' = FALSE
    /\ snaps' = [snaps EXCEPT ![open] = Some(store[shown])]
    /\ live' = Some(store[shown])
    /\ misfiled' = IF shown # open THEN misfiled \cup {open} ELSE misfiled \ {open}
    /\ UNCHANGED <<store, fetched, open, shown, box, op, count, had>>
    /\ ConfirmFollows

LeftCopy(d) == IF snaps[d] # None THEN snaps[d] ELSE fetched[d]
LiveForgotten == None
OpenDocument(d) ==
    /\ d # open /\ count.opened < MaxOpened
    /\ count' = [count EXCEPT !.opened = @ + 1]
    /\ open' = d /\ live' = LiveForgotten
    /\ fetched' = [fetched EXCEPT ![open] = LeftCopy(open)]
    /\ confirm' = None
    /\ UNCHANGED <<store, snaps, shown, timer, box, op, had, misfiled>>

(* The view takes the open document's text in: a change of its own.        *)
useLiveSource ==
    /\ shown # open /\ shown' = open /\ timer' = TRUE
    /\ UNCHANGED <<store, fetched, snaps, open, live, panel, count, had, misfiled>>

-----------------------------------------------------------------------------
(* The panel.                                                              *)

useDebounced ==
    /\ box.settled # box.query
    /\ box' = [box EXCEPT !.settled = box.query]
    /\ confirm' = None
    /\ UNCHANGED <<store, index, op, count, had, misfiled>>

(* Typing, at most MaxReplaces times.                                       *)
SearchControls ==
    /\ op = Idle /\ box.query = box.settled
    /\ count.typed < MaxReplaces
    /\ count' = [count EXCEPT !.typed = @ + 1]
    /\ \E b \in Boxes :
           box' = [query |-> b.query, options |-> b.options, replacement |-> b.replacement,
                   settled |-> box.settled]
    /\ confirm' = IF box'.options # box.options THEN None ELSE confirm
    /\ UNCHANGED <<store, index, op, had, misfiled>>

AskReplaceAll ==
    /\ Total(results) > 0 /\ op = Idle /\ confirm = None
    /\ confirm' = Some(countMatches(pattern))
    /\ UNCHANGED <<store, index, box, op, count, had, misfiled>>

Begin(kind, docs, file, wanted) ==
    /\ op = Idle /\ count.replaces < MaxReplaces
    /\ count' = [count EXCEPT !.replaces = @ + 1]
    /\ op' = [kind |-> kind, p |-> pattern, by |-> box.replacement, todo |-> docs,
              wanted |-> wanted, seen |-> file, openThen |-> open,
              written |-> FALSE, failed |-> {}]
    /\ UNCHANGED <<store, index, box, had, misfiled>>

MatchRow ==
    \E f \in ToSet(results.files) : \E m \in ToSet(f.matches) :
        Begin("one", <<f.doc>>, f.matches, m) /\ UNCHANGED confirm
replaceAll ==
    /\ confirm # None /\ confirm' = None
    /\ Begin("all", filesWithMatches(pattern), << >>, None)

Located(m) == IF m = None THEN << >> ELSE <<m>>
Targets(text) ==
    IF op.kind = "all" THEN findMatches(text, op.p, Everything)
    ELSE Located(relocate(findMatches(text, op.p, Everything), op.wanted, op.seen))
Edited(text) == applyEdits(text, replacementEdits(Targets(text), op.by, op.p.options.regex))

Running == op # Idle
(* StaleMatchError ends a single replace; nothing was written.             *)
transformContent ==
    /\ Running /\ op.todo # << >> /\ ~op.written
    /\ LET d == Head(op.todo)
       IN  IF op.kind = "one" /\ Targets(store[d]) = << >>
           THEN op' = Idle /\ UNCHANGED <<store, had, timer>>
           ELSE /\ \E text \in {Edited(store[d])} : Becomes(d, text)
                /\ op' = [op EXCEPT !.written = TRUE]
    /\ UNCHANGED <<fetched, snaps, open, shown, live, box, confirm, count, misfiled>>

Next1(o) == IF Len(o.todo) = 1 THEN Idle
            ELSE [o EXCEPT !.todo = Tail(@), !.written = FALSE]

(* The document did not sync in time, or is not in the tree.               *)
withDeadline ==
    /\ Running /\ op.todo # << >> /\ ~op.written
    /\ op' = Next1([op EXCEPT !.failed = @ \cup {Head(op.todo)}])
    /\ UNCHANGED <<store, index, box, confirm, count, had, misfiled>>

(* The new text, as it reads when the write has been flushed.  A single    *)
(* replace that leaves nothing tells nobody: `if (text) onWritten(...)'.   *)
Told(text) == op.kind = "all" \/ text # << >>
setDocText ==
    /\ Running /\ op.written
    /\ LET d == Head(op.todo)
       IN  IF ~Told(store[d]) THEN UNCHANGED <<fetched, snaps>>
           ELSE /\ fetched' = [fetched EXCEPT ![d] = Some(store[d])]
                /\ snaps' = IF d = op.openThen
                            THEN [snaps EXCEPT ![d] = Some(store[d])] ELSE snaps
    /\ op' = Next1(op)
    /\ UNCHANGED <<store, open, shown, live, timer, box, count, had, misfiled>>
    /\ ConfirmFollows

SearchNext ==
    \/ \E d \in SearchDoc : Write(d)
    \/ \E d \in SearchDoc : fetchDocumentText(d)
    \/ \E d \in SearchDoc : OpenDocument(d)
    \/ settle
    \/ useLiveSource
    \/ useDebounced
    \/ SearchControls
    \/ AskReplaceAll
    \/ MatchRow
    \/ replaceAll
    \/ transformContent
    \/ withDeadline
    \/ setDocText

(* What must happen sometime: a replace waits ten seconds for a document  *)
(* at most, timers fire, and the view follows the selection.               *)
ReplaceStep == withDeadline \/ transformContent \/ setDocText
IndexStep == settle \/ useLiveSource

-----------------------------------------------------------------------------
(* The index holds texts, the operation knows the documents it is for.     *)
SearchTypeOK ==
    /\ \A d \in SearchDoc : fetched[d] = None \/ fetched[d].text \in Seq(STRING)
    /\ \A d \in SearchDoc : snaps[d] = None \/ snaps[d].text \in Seq(STRING)
    /\ {open, shown} \subseteq SearchDoc /\ timer \in BOOLEAN
    /\ live = None \/ live.text \in Seq(STRING)
    /\ box.options \in Options
    /\ Running => op.todo # << >> /\ ToSet(op.todo) \subseteq SearchDoc /\ op.failed \subseteq SearchDoc
    /\ misfiled \subseteq SearchDoc

(* The reference: a text read left to right, each match taken as met.      *)
Substituted(text, ends, p, template) ==
    LET From[i \in 1..Len(text) + 1] ==
            IF i > Len(text) THEN << >>
            ELSE IF ends[i] = 0 THEN <<text[i]>> \o From[i + 1]
            ELSE expandReplacement(template, TextMatch(text, i, ends[i]), p.options.regex)
                 \o From[ends[i]]
    IN  From[1]

(* "Replace all" leaves in each document it writes what reading the live   *)
(* text left to right and replacing every match gives, whatever the index  *)
(* showed (replace-actions.ts, applyEdits).                                *)
AllReplaced ==
    [][(transformContent /\ op.kind = "all") =>
           LET d == Head(op.todo)
           IN  store'[d] = Substituted(store[d], compile(store[d], op.p), op.p, op.by)]_searchVars

(* A single replace changes a line that reads as the one its row showed,   *)
(* or nothing: other edits never lead it to another place.                 *)
LinesOf(text) == {[at |-> s, line |-> TextMatch(text, s, s).lineText] : s \in lineStarts(text)}
Swapped(line, m, template, regex) ==
    SubSeq(line, 1, m.column) \o expandReplacement(template, m, regex)
    \o SubSeq(line, m.column + Len(m.text) + 1, Len(line))
LandsWhereSeen ==
    [][(transformContent /\ op.kind = "one") =>
           LET d == Head(op.todo)
           IN  store'[d] # store[d] =>
               \E l \in LinesOf(store[d]) :
                   /\ l.line = op.wanted.lineText
                   /\ store'[d] = SubSeq(store[d], 1, l.at - 1)
                          \o Swapped(l.line, op.wanted, op.by, op.p.options.regex)
                          \o SubSeq(store[d], l.at + Len(l.line), Len(store[d]))]_searchVars

(* The list shows the matches of the index's texts in path order, as many  *)
(* as fit, and says it is cut exactly when some do not (searchSources).    *)
CutAt(found, all) ==
    Total(found) = Min({all, MaxResults}) /\ (found.truncated <=> all > MaxResults)
CutTold == pattern # None => CutAt(results, countMatches(pattern).matches)

(* The number the user confirms is the number of matches the index's texts *)
(* have at that moment, though texts change while the question is open.    *)
ConfirmTrue == confirm # None => confirm.text = countMatches(pattern)

(* What the index shows for a document is a text that document had, except *)
(* after the view's text settled while another document was being opened.  *)
OwnText ==
    \A d \in SearchDoc \ misfiled :
        collectTexts[d] # None => collectTexts[d].text \in had[d]

(* Once a replace has ended with nothing else going on, the open document   *)
(* is shown as it is.                                                       *)
OpenFollows ==
    (~timer /\ shown = open /\ live # None /\ open \notin misfiled) => live.text = store[open]
=============================================================================
