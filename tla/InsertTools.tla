---------------------------- MODULE InsertTools ----------------------------
(***************************************************************************)
(* The Insert menu of the editor: the symbol palette, the table builder    *)
(* and the equation editor, each of which writes to the open text while    *)
(* others may change it.                                                   *)
(*                                                                         *)
(* A text is a sequence of pieces: "$" and the other delimiters of math,   *)
(* a comment sign, an end of line "n", commands and words.  A cell of a    *)
(* table is a sequence too, "t" being the tab and "q" the double quote.    *)
(* Offsets count from 0, as between the pieces.                            *)
(***************************************************************************)
EXTENDS Integers, Sequences, FiniteSets, SequencesExt

CONSTANTS
    Openings,     \* stories: a text, a cursor, the tools opened in order and
                  \* how often a draft is changed or a symbol chosen
    Formulas,     \* what may be in the equation editor when it is saved
    Pastes,       \* what may be pasted in a cell
    MAX_ROWS, MAX_COLUMNS, RECENT_LIMIT,
    MaxOthers     \* changes by others, at most

ASSUME InsertAssumption ==
    /\ {MAX_ROWS, MAX_COLUMNS, RECENT_LIMIT} \subseteq Nat \ {0} /\ MaxOthers \in Nat
    /\ \A o \in Openings : o.cursor \in 0..Len(o.text) /\ o.changes \in Nat

VARIABLES
    text,      \* the open text
    cursor,    \* the selection, an offset
    tool,      \* the open tool, "none" when none is
    target,    \* the equation editor's: the math region it opened on
    draft,     \* the table builder's
    recent,    \* the symbols used lately, the latest first
    chosen,    \* the palette's symbol chosen last
    mainText,  \* the main document's text as the menu knows it
    added,     \* packages PackageHint added since the tool was opened
    steps,     \* what is left: tools, changes of the draft, changes by others
    moved      \* history: the text changed since the tool was opened

insertVars == <<text, cursor, tool, target, draft, recent, chosen, mainText, added, steps,
                moved>>

Null == [null |-> TRUE]
BeginDocument == "\\begin{document}"
Splice(t, from, to, insert) == SubSeq(t, 1, from) \o insert \o SubSeq(t, to + 1, Len(t))
At(t, i) == IF i < Len(t) THEN t[i + 1] ELSE "end"

-----------------------------------------------------------------------------
(* find-math.ts *)

Closes == [d \in {"$$", "$", "\\(", "\\[", "\\begin{equation}"} |->
             CASE d = "\\(" -> "\\)" [] d = "\\[" -> "\\]"
               [] d = "\\begin{equation}" -> "\\end{equation}" [] OTHER -> d]
Starts(t, i, d) == IF d = "$$" THEN At(t, i) = "$" /\ At(t, i + 1) = "$" ELSE At(t, i) = d
Width(d) == IF d = "$$" THEN 2 ELSE 1
openerAt(t, i) ==
    IF Starts(t, i, "$$") THEN "$$"
    ELSE IF At(t, i) \in DOMAIN Closes THEN At(t, i) ELSE "none"

(* A comment runs to the end of its line.                                  *)
skip(t, i) ==
    IF At(t, i) # "%" THEN i + 1
    ELSE LET ends == {j \in i..Len(t) - 1 : At(t, j) = "n"}
         IN  IF ends = {} THEN Len(t) ELSE 1 + CHOOSE j \in ends : \A k \in ends : j <= k

FindLast(t, from, close) ==
    LET found == {j \in from..Len(t) - 1 : Starts(t, j, close)}
    IN  IF found = {} THEN -1 ELSE CHOOSE j \in found : \A k \in found : j >= k
findClose(t, from, close) ==
    LET found == {j \in from..Len(t) - 1 : Starts(t, j, close)}
    IN  IF found = {} THEN -1 ELSE CHOOSE j \in found : \A k \in found : j <= k

findMath(t) ==
    LET From[i \in 0..Len(t) + 1] ==
            LET d     == openerAt(t, i)
                body  == i + Width(d)
                close == findClose(t, body, Closes[d])
            IN  IF i >= Len(t) THEN << >>
                ELSE IF d = "none" THEN From[skip(t, i)]
                ELSE IF close < 0 THEN From[body]
                ELSE <<[from |-> body, to |-> close, open |-> d]>>
                     \o From[close + Width(Closes[d])]
    IN  From[0]
mathAt(t, offset) ==
    LET in == SelectSeq(findMath(t), LAMBDA r : r.from <= offset /\ offset <= r.to)
    IN  IF in = << >> THEN Null ELSE in[1]
wrapMath(latex, display) ==
    IF display THEN <<"\\begin{equation}", "n">> \o latex \o <<"n", "\\end{equation}">>
    ELSE <<"\\(">> \o latex \o <<"\\)">>

-----------------------------------------------------------------------------
(* table-model.ts: a draft of at most MAX_ROWS rows and MAX_COLUMNS        *)
(* columns; a column is its alignment.                                     *)

newColumn == "l"
emptyTable == [cells |-> <<<< <<>>, <<>> >>, << <<>>, <<>> >> >>, columns |-> <<"l", "l">>,
               style |-> "booktabs", cellsAreLatex |-> FALSE,
               caption |-> "", label |-> ""]
blankRow(n) == [c \in 1..n |-> << >>]

addRow(d) == IF Len(d.cells) >= MAX_ROWS THEN d
             ELSE [d EXCEPT !.cells = Append(@, blankRow(Len(d.columns)))]
removeRow(d, i) == IF Len(d.cells) <= 1 THEN d ELSE [d EXCEPT !.cells = RemoveAt(@, i)]
addColumn(d) ==
    IF Len(d.columns) >= MAX_COLUMNS THEN d
    ELSE [d EXCEPT !.columns = Append(@, newColumn),
                   !.cells = [r \in DOMAIN @ |-> Append(@[r], << >>)]]
removeColumn(d, i) ==
    IF Len(d.columns) <= 1 THEN d
    ELSE [d EXCEPT !.columns = RemoveAt(@, i),
                   !.cells = [r \in DOMAIN @ |-> RemoveAt(@[r], i)]]
setCell(d, r, c, value) == [d EXCEPT !.cells[r][c] = value]
setColumn(d, i, align) == [d EXCEPT !.columns[i] = align]

MaxOf(s) == CHOOSE n \in s : \A k \in s : k <= n
MinOf(a, b) == IF a < b THEN a ELSE b
pasteGrid(d, row, column, pasted) ==
    LET rows    == MinOf(MAX_ROWS, MaxOf({Len(d.cells), row - 1 + Len(pasted)}))
        widest  == MaxOf({0} \cup {Len(pasted[k]) : k \in DOMAIN pasted})
        columns == MinOf(MAX_COLUMNS, MaxOf({Len(d.columns), column - 1 + widest}))
        Held(r, c) == IF r \in DOMAIN d.cells /\ c \in DOMAIN d.columns
                      THEN d.cells[r][c] ELSE << >>
        Taken(r, c) == /\ r - row + 1 \in DOMAIN pasted
                       /\ c - column + 1 \in DOMAIN pasted[r - row + 1]
    IN  [d EXCEPT !.cells = [r \in 1..rows |-> [c \in 1..columns |->
                                IF Taken(r, c) THEN pasted[r - row + 1][c - column + 1]
                                ELSE Held(r, c)]],
                  !.columns = [c \in 1..columns |->
                                IF c \in DOMAIN d.columns THEN d.columns[c] ELSE newColumn]]

(* paste.ts: the rows of what a spreadsheet copied.                        *)
isGridText(s) == \E i \in DOMAIN s : s[i] = "t" \/ (s[i] = "n" /\ i < Len(s))
RowsRead(s) ==
    LET Empty == [rows |-> << >>, row |-> << >>, field |-> << >>, quoted |-> FALSE, skip |-> FALSE]
        Close(p) == [p EXCEPT !.row = Append(@, p.field), !.field = << >>]
        Step(p, x, i) ==
            CASE p.skip -> [p EXCEPT !.skip = FALSE]
              [] p.quoted /\ x # "q" -> [p EXCEPT !.field = Append(@, x)]
              [] p.quoted /\ i < Len(s) /\ s[i + 1] = "q" ->
                     [p EXCEPT !.field = Append(@, "q"), !.skip = TRUE]
              [] p.quoted -> [p EXCEPT !.quoted = FALSE]
              [] x = "q" /\ p.field = << >> -> [p EXCEPT !.quoted = TRUE]
              [] x = "t" -> Close(p)
              [] x = "n" -> [Close(p) EXCEPT !.rows = Append(@, Close(p).row), !.row = << >>]
              [] OTHER -> [p EXCEPT !.field = Append(@, x)]
        After[i \in 0..Len(s)] == IF i = 0 THEN Empty ELSE Step(After[i - 1], s[i], i)
    IN  After[Len(s)]
LastRow(p) == IF p.field # << >> \/ p.row # << >>
              THEN Append(p.rows, Append(p.row, p.field)) ELSE p.rows
(* The empty rows at the end go.                                           *)
Trimmed(rows) ==
    SubSeq(rows, 1, MaxOf({0} \cup {k \in DOMAIN rows : \E c \in DOMAIN rows[k] : rows[k][c] # << >>}))
parseGridText(s) == Trimmed(LastRow(RowsRead(s)))

(* to-latex.ts: a cell's special characters are escaped unless the cells   *)
(* are LaTeX already; a row's cells are joined by "&".                     *)
SpecialChar == {"&", "%", "$"}
escapeLatex(s) == [i \in DOMAIN s |-> IF s[i] \in SpecialChar THEN "\\" \o s[i] ELSE s[i]]
Cell(s, asLatex) == IF asLatex THEN s ELSE escapeLatex(SelectSeq(s, LAMBDA x : x # "n"))
ruledRows(d) ==
    [r \in DOMAIN d.cells |->
        FlattenSeq([c \in DOMAIN d.cells[r] |->
            (IF c = 1 THEN << >> ELSE <<"&">>) \o Cell(d.cells[r][c], d.cellsAreLatex)])
        \o <<"\\\\">>]
tableToLatex(d) ==
    <<"\\begin{table}", "\\begin{tabular}">> \o d.columns \o FlattenSeq(ruledRows(d))
    \o <<"\\end{tabular}", "\\end{table}">>

-----------------------------------------------------------------------------
InsertInit ==
    /\ \E o \in Openings :
           /\ text = o.text /\ cursor = o.cursor /\ mainText = o.text
           /\ steps = [tools |-> o.tools, draft |-> o.changes, others |-> MaxOthers]
    /\ tool = "none" /\ target = Null /\ draft = emptyTable /\ added = {}
    /\ recent = << >> /\ chosen = "none"
    /\ moved = FALSE

Open(what) ==
    /\ tool = "none" /\ steps.tools # << >> /\ Head(steps.tools) = what
    /\ tool' = what /\ added' = {} /\ moved' = FALSE
    /\ steps' = [steps EXCEPT !.tools = Tail(@)]
EquationDialog ==
    /\ Open("equation") /\ target' = mathAt(text, cursor)
    /\ UNCHANGED <<text, cursor, draft, recent, chosen, mainText>>
TableBuilder ==
    /\ Open("table") /\ draft' = emptyTable
    /\ UNCHANGED <<text, cursor, target, recent, chosen, mainText>>
SymbolPalette ==
    /\ Open("symbol") /\ chosen' = "none"
    /\ UNCHANGED <<text, cursor, target, draft, recent, mainText>>
onClose ==
    /\ tool # "none" /\ tool' = "none"
    /\ UNCHANGED <<text, cursor, target, draft, recent, chosen, mainText, added, steps, moved>>

insertSnippet(insert, into) ==
    /\ text' = Splice(text, cursor, cursor, insert) /\ cursor' = cursor + into

(* Replaces the body of the math the cursor was in, or inserts new math.   *)
applyEdit(latex, display) ==
    IF target = Null
    THEN LET new == wrapMath(latex, display) IN insertSnippet(new, Len(new))
    ELSE /\ text' = Splice(text, target.from, MinOf(target.to, Len(text)), latex)
         /\ cursor' = target.from + Len(latex)
saveEquation ==
    /\ tool = "equation" /\ tool' = "none"
    /\ \E latex \in Formulas, display \in BOOLEAN :
           /\ target = Null => latex # << >>
           /\ target # Null => ~display /\ target.from <= Len(text)
           /\ applyEdit(latex, display)
    /\ UNCHANGED <<target, draft, recent, chosen, mainText, added, steps, moved>>

insertBlock ==
    /\ tool = "table" /\ tool' = "none"
    /\ LET lead == IF cursor = 0 \/ At(text, cursor - 1) = "n" THEN << >> ELSE <<"n">>
           block == lead \o tableToLatex(draft) \o <<"n">>
       IN  insertSnippet(block, Len(block))
    /\ UNCHANGED <<target, draft, recent, chosen, mainText, added, steps, moved>>

TableGrid(new) ==
    /\ tool = "table" /\ steps.draft > 0
    /\ steps' = [steps EXCEPT !.draft = @ - 1]
    /\ draft' = new /\ draft' # draft
    /\ UNCHANGED <<text, cursor, tool, target, recent, chosen, mainText, added, moved>>
ColumnHead == \E c \in DOMAIN draft.columns :
    TableGrid(removeColumn(draft, c)) \/ TableGrid(setColumn(draft, c, "p"))
RowHead == \E r \in DOMAIN draft.cells : TableGrid(removeRow(draft, r))
Grow == TableGrid(addRow(draft)) \/ TableGrid(addColumn(draft))
(* The label follows the caption until it is typed.                        *)
captionChange(d, caption) ==
    [d EXCEPT !.caption = caption, !.label = IF @ = d.caption THEN caption ELSE @]
TableOptions ==
    \/ TableGrid([draft EXCEPT !.style = "grid"])
    \/ TableGrid([draft EXCEPT !.cellsAreLatex = ~@])
    \/ TableGrid(captionChange(draft, "c")) \/ TableGrid([draft EXCEPT !.label = "own"])
pasteCells == \E r \in DOMAIN draft.cells, c \in DOMAIN draft.columns, s \in Pastes :
    TableGrid(IF isGridText(s) THEN pasteGrid(draft, r, c, parseGridText(s))
              ELSE setCell(draft, r, c, s))

(* A symbol with an argument leaves the cursor in it; a command of letters *)
(* gets a space when a letter follows.                                     *)
symbolInsert(entry, next) ==
    IF entry = "\\mathbb" THEN [insert |-> <<entry, "{", "}">>, cursor |-> 2]
    ELSE LET new == IF next = "word" THEN <<entry, " ">> ELSE <<entry>>
         IN  [insert |-> new, cursor |-> Len(new)]
RememberTwice(entry) == SubSeq(<<entry>> \o recent, 1, MinOf(RECENT_LIMIT, Len(recent) + 1))
rememberRecent(entry) ==
    LET all == <<entry>> \o SelectSeq(recent, LAMBDA x : x # entry)
    IN  SubSeq(all, 1, MinOf(RECENT_LIMIT, Len(all)))
insertSymbol ==
    /\ tool = "symbol" /\ steps.draft > 0
    /\ steps' = [steps EXCEPT !.draft = @ - 1]
    /\ \E entry \in {"\\alpha", "\\to", "\\mathbb"} :
           LET new == symbolInsert(entry, At(text, cursor))
           IN  /\ insertSnippet(new.insert, new.cursor)
               /\ recent' = rememberRecent(entry) /\ chosen' = entry
    /\ UNCHANGED <<tool, target, draft, mainText, added, moved>>

(* PackageHint: a tool whose result needs a package the main document does *)
(* not load offers to add its line before \begin{document}.                *)
Package == "\\usepackage"
hasPackage(t) == Contains(t, Package)
Needs == \/ tool = "table" /\ draft.style = "booktabs"
         \/ tool = "symbol" /\ chosen = "\\mathbb"
addPackage ==
    /\ Needs /\ Package \notin added /\ ~hasPackage(mainText) /\ Contains(text, BeginDocument)
    /\ LET i     == (CHOOSE k \in DOMAIN text : /\ text[k] = BeginDocument
                                               /\ \A j \in 1..k - 1 : text[j] # BeginDocument) - 1
           start == MaxOf({0} \cup {k \in 1..i : text[k] = "n"})
       IN  /\ text' = Splice(text, start, start, <<Package, "n">>)
           /\ cursor' = IF cursor >= start THEN cursor + 2 ELSE cursor
    /\ added' = added \cup {Package}
    /\ UNCHANGED <<tool, target, draft, recent, chosen, mainText, steps, moved>>

(* Others write a letter somewhere; the cursor moves along.                *)
OthersWrite ==
    /\ steps.others > 0 /\ steps' = [steps EXCEPT !.others = @ - 1]
    /\ \E i \in 0..Len(text) :
           /\ text' = Splice(text, i, i, <<"o">>)
           /\ cursor' = IF i < cursor THEN cursor + 1 ELSE cursor
    /\ moved' = TRUE
    /\ UNCHANGED <<tool, target, draft, recent, chosen, mainText, added>>
(* The index follows the open text.                                        *)
MainTextSettles ==
    /\ mainText # text /\ mainText' = text
    /\ UNCHANGED <<text, cursor, tool, target, draft, recent, chosen, added, steps, moved>>

InsertNext ==
    \/ EquationDialog \/ TableBuilder \/ SymbolPalette \/ onClose
    \/ saveEquation \/ insertBlock \/ insertSymbol \/ addPackage
    \/ ColumnHead \/ RowHead \/ Grow \/ TableOptions \/ pasteCells
    \/ OthersWrite \/ MainTextSettles

-----------------------------------------------------------------------------
InsertTypeOK ==
    /\ text \in Seq(STRING) /\ cursor \in 0..Len(text)
    /\ tool \in {"none", "equation", "table", "symbol"}
    /\ added \subseteq {Package} /\ IsInjective(recent) /\ Len(recent) <= RECENT_LIMIT
    /\ {steps.draft, steps.others} \subseteq Nat

(* Any sequence of changes and pastes leaves a table: every row as long as *)
(* the columns are, none missing and none past the limits.                 *)
Rectangular ==
    /\ Len(draft.cells) \in 1..MAX_ROWS /\ Len(draft.columns) \in 1..MAX_COLUMNS
    /\ \A r \in DOMAIN draft.cells : Len(draft.cells[r]) = Len(draft.columns)

(* What the user types in a cell never starts a cell: each row of the code *)
(* has a separator fewer than columns, unless the cells are LaTeX.         *)
RowsAlign ==
    ~draft.cellsAreLatex =>
        \A r \in DOMAIN draft.cells :
            Len(SelectSeq(ruledRows(draft)[r], LAMBDA x : x = "&")) = Len(draft.columns) - 1

(* A spreadsheet quotes a cell that has a tab, a line break or a quote.    *)
Quoted(cell) ==
    IF \E i \in DOMAIN cell : cell[i] \in {"t", "n", "q"}
    THEN <<"q">> \o FlattenSeq([i \in DOMAIN cell |->
             IF cell[i] = "q" THEN <<"q", "q">> ELSE <<cell[i]>>]) \o <<"q">>
    ELSE cell
Copied(cells) ==
    FlattenSeq([r \in DOMAIN cells |-> FlattenSeq([c \in DOMAIN cells[r] |->
        (IF c = 1 THEN << >> ELSE <<"t">>) \o Quoted(cells[r][c])]) \o <<"n">>])
(* Pasting what a spreadsheet copies of the draft gives the draft's cells. *)
PastesBack == parseGridText(Copied(draft.cells)) = Trimmed(draft.cells)

(* Saving a formula leaves the rest as it was: the words around the math,  *)
(* and as many regions with the same delimiters.  Not when the text        *)
(* changed while the editor was open, and not when "$...$" is saved empty, *)
(* as "$$" opens displayed math (equation-dialog.tsx, applyEdit).          *)
Words(t) == SelectSeq(t, LAMBDA x : x = "word")
Delimiters(t) == [k \in DOMAIN findMath(t) |-> findMath(t)[k].open]
OthersKept ==
    [][(saveEquation /\ target # Null /\ ~moved) =>
           /\ Words(text') = Words(text)
           /\ \/ target.open = "$" /\ Len(text') = Len(text) - (target.to - target.from)
              \/ Delimiters(text') = Delimiters(text)]_insertVars
=============================================================================
