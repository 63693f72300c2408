------------------------------ MODULE MCEditing ------------------------------
(* The text pane and the tools of the editor share no state, so one run     *)
(* takes them one at a time: `focus' is the part a behaviour is about, the  *)
(* others stay as they begin.                                               *)
EXTENDS ProjectSearch, Spellcheck, InsertTools, EditorScreen

MCDocs == <<"d1", "d2">>
MCTexts == [d1 |-> {<<"1", "a", "n", "a", "n", "A">>, <<"1", "n", "b", "a", "n", "a", "n", "1", "a">>},
            d2 |-> {<<"2", "a", "a", "+">>, <<"a">>}]
Options1(regex, word) == [regex |-> regex, wholeWord |-> word, caseSensitive |-> FALSE]
MCBoxes ==
    {[query |-> <<"a">>, options |-> Options1(FALSE, TRUE), replacement |-> <<"$&">>],
     [query |-> <<"a", "+">>, options |-> Options1(FALSE, FALSE), replacement |-> << >>],
     [query |-> <<"a", "+">>, options |-> Options1(TRUE, FALSE), replacement |-> <<"b", "$&">>],
     [query |-> <<"a">>, options |-> Options1(FALSE, FALSE), replacement |-> << >>],
     [query |-> <<"(">>, options |-> Options1(TRUE, FALSE), replacement |-> << >>]}

MCWord == {"cor", "tom", "hue"}
MCCorrect == [en |-> {"hue", "tom"}, pt |-> {"cor", "tom"}]
MCDrafts == {<<"cor", "hue">>}
MCBudgets ==
    {[typed |-> 1, turns |-> 1, switches |-> 1, kept |-> 0],
     [typed |-> 0, turns |-> 0, switches |-> 2, kept |-> 1],
     [typed |-> 0, turns |-> 0, switches |-> 0, kept |-> 3]}

MCOpenings ==
    {[text |-> <<"$", "x", "$", "word", "\\(", "y", "\\)", "$", "x", "$">>, cursor |-> 1,
      tools |-> <<"equation">>, changes |-> 0],
     [text |-> <<"%", "$", "n", "$", "$", "x", "$", "$", "word">>, cursor |-> 5,
      tools |-> <<"equation", "equation">>, changes |-> 0],
     [text |-> <<"\\begin{equation}", "x", "\\end{equation}", "$", "word">>, cursor |-> 4,
      tools |-> <<"equation", "symbol">>, changes |-> 1],
     [text |-> <<"n", BeginDocument, "word">>, cursor |-> 2, tools |-> <<"symbol", "symbol">>, changes |-> 3],
     [text |-> <<BeginDocument>>, cursor |-> 1, tools |-> <<"table">>, changes |-> 2]}
MCFormulas == {<< >>, <<"y">>}
MCPastes == {<<"a", "t", "q", "b", "q", "q", "n", "q", "n", "&">>, <<"&", "q">>,
             <<"n", "t", "a", "n", "n">>}

AtDesk == [mode |-> "rest", alike |-> FALSE, edits |-> 0, undos |-> 0, others |-> 0, losses |-> 0, outages |-> 0, switches |-> 0, jumps |-> 0,
         panels |-> 0, leaves |-> 0]
MCScreenStories ==
    {[AtDesk EXCEPT !.edits = 2, !.others = 1],
     [AtDesk EXCEPT !.edits = 1, !.switches = 2, !.panels = 2],
     [AtDesk EXCEPT !.edits = 1, !.jumps = 1, !.losses = 1],
     [AtDesk EXCEPT !.edits = 1, !.jumps = 1, !.others = 1],
     [AtDesk EXCEPT !.edits = 1, !.undos = 1, !.losses = 2],
     [AtDesk EXCEPT !.edits = 2, !.outages = 1, !.leaves = 2],
     [AtDesk EXCEPT !.switches = 1, !.panels = 1, !.losses = 2],
     [AtDesk EXCEPT !.mode = "collab", !.jumps = 2, !.panels = 1],
     [AtDesk EXCEPT !.jumps = 2, !.edits = 1],
     [AtDesk EXCEPT !.alike = TRUE, !.jumps = 2, !.edits = 1],
     [AtDesk EXCEPT !.outages = 1, !.losses = 1, !.jumps = 1],
     [AtDesk EXCEPT !.panels = 4]}

VARIABLE focus
vars == <<searchVars, spellVars, insertVars, screenVars, focus>>

Init ==
    /\ SearchInit /\ SpellInit /\ InsertInit /\ screenInit
    /\ focus \in {"search", "spell", "insert", "screen"}
    /\ focus # "search" => \A d \in SearchDoc : store[d] = CHOOSE t \in Texts[d] : TRUE
    /\ focus # "spell" => /\ language = CHOOSE l \in Language : TRUE
                         /\ spellCount = (CHOOSE b \in Budgets : TRUE) @@ [runs |-> 0, gens |-> 1]
    /\ focus # "insert" => LET o == CHOOSE o \in Openings : TRUE
                          IN  text = o.text /\ steps.tools = o.tools
    /\ focus # "screen" => screenLeft = CHOOSE s \in ScreenStories : TRUE
Search(A) == focus = "search" /\ A /\ UNCHANGED <<spellVars, insertVars, screenVars, focus>>
Spell(A) == focus = "spell" /\ A /\ UNCHANGED <<searchVars, insertVars, screenVars, focus>>
Insert(A) == focus = "insert" /\ A /\ UNCHANGED <<searchVars, spellVars, screenVars, focus>>
Screen(A) == focus = "screen" /\ A /\ UNCHANGED <<searchVars, spellVars, insertVars, focus>>
Next == Search(SearchNext) \/ Spell(SpellNext) \/ Insert(InsertNext) \/ Screen(screenNext)

Spec ==
    /\ Init /\ [][Next]_vars
    /\ WF_vars(Search(ReplaceStep)) /\ WF_vars(Search(IndexStep)) /\ WF_vars(Search(useDebounced))
    /\ WF_vars(Spell(run)) /\ WF_vars(Spell(Answered))
    /\ WF_vars(Screen(AutosaveStep)) /\ WF_vars(Screen(ScreenServer))
    /\ []<>~(focus = "screen" /\ LoadDue) \/ []<><<Screen(LoadStep)>>_vars  \* WF_vars(Screen(LoadStep))
    /\ WF_vars(Screen(~online /\ PutLost))

(* Whatever the editor is at comes to an end: a replace, a check of the     *)
(* spelling (no check waits for ever: spell-client.ts,                      *)
(* spellcheck-extension.ts), the saving of what was typed.                  *)
Waiting ==
    CASE focus = "search" -> Running [] focus = "spell" -> ~AtRest [] focus = "insert" -> FALSE
      [] focus = "screen" -> ~Settled
ToolsSettle == Waiting ~> ~Waiting

(* What the tools show agrees with what they are about: the matches and the *)
(* number to confirm with the texts of the index, those with the documents; *)
(* and no tool writes anything but what it was asked to: a replace every    *)
(* match and no other, an edited equation its own text, a table rows that   *)
(* align and paste back.                                                    *)
ToolsKept ==
    /\ [](SearchTypeOK /\ InsertTypeOK)
    /\ [](CutTold /\ ConfirmTrue /\ OwnText /\ OpenFollows)
    /\ [](Rectangular /\ RowsAlign /\ PastesBack)
    /\ AllReplaced /\ LandsWhereSeen /\ OthersKept
=============================================================================
