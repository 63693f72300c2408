----------------------------- MODULE Spellcheck -----------------------------
(***************************************************************************)
(* Spell checking of one open document: the editor's plugin                *)
(* (spellcheck-extension), the worker that holds the dictionaries          *)
(* (spell-client, spell-engine), the project's language, the personal      *)
(* dictionary with its optimistic changes, the words ignored in the        *)
(* document (use-spellcheck) and the menu of a misspelled word.            *)
(*                                                                         *)
(* A document is a word per place; which places are checked depends on     *)
(* what is on the screen.  A check asks the worker and writes what it      *)
(* learns into the plugin whatever happened meanwhile; `spellMishap' has   *)
(*   mixed      verdicts of a language filed after another one was chosen  *)
(*   overtaken  a check's marks replaced those of one that began later     *)
(***************************************************************************)
EXTENDS Integers, Sequences, FiniteSets, SequencesExt

CONSTANTS
    Word,        \* words
    Correct,     \* Correct[l]: the words the dictionary of language l knows
    Drafts,      \* the texts a document may start with: a sequence of words
    Budgets      \* how often the text changes, the screen scrolls, the language
                 \* changes and words are added, removed or ignored, at most

Language == DOMAIN Correct
ASSUME SpellAssumption ==
    /\ \A l \in Language : Correct[l] \subseteq Word
    /\ Drafts \subseteq Seq(Word) /\ "off" \notin Language
    /\ Budgets \subseteq [typed : Nat, turns : Nat, switches : Nat, kept : Nat]

VARIABLES
    doc,         \* the document: its words by place
    span,        \* the places checkSpan covers
    language,    \* the project's language, "off" included
    server,      \* the personal dictionary on the server
    shownWords,  \* the query cache's copy of it
    changes,     \* additions and removals under way, with what they replaced
    refetch,     \* the query's own request: Nothing, asked, what it read, failed
    ignored,     \* inkstave:spellcheck-ignore of this document
    plugin,      \* SpellChecking
    checks,      \* the runs that wait for the worker, as they began
    loaded,      \* languages whose dictionary the worker has
    failed,      \* failedLanguage
    spellCount,  \* what is left of the budget; runs and plugins so far
    spellMishap  \* history, see above

words == <<server, shownWords, changes, refetch, ignored>>
worker == <<checks, loaded>>
spellVars == <<doc, span, language, words, plugin, worker, failed, spellCount, spellMishap>>

Nothing == [nothing |-> TRUE]
NoPlugin == [on |-> FALSE, timer |-> FALSE, stopped |-> FALSE, language |-> "off",
             verdicts |-> << >>, marks |-> {}, gen |-> 0, latest |-> 0]
(* useSpellcheck: without a language there is no binding, hence no plugin. *)
SpellChecking(gen) == [NoPlugin EXCEPT !.on = TRUE, !.timer = TRUE, !.gen = gen]

Place == DOMAIN doc
checkSpans == LET h == Len(doc) \div 2 IN {1..h, (h + 1)..Len(doc)}
Known == shownWords \cup ignored
accepts(known, word) == word \in known

-----------------------------------------------------------------------------
SpellInit ==
    /\ doc \in Drafts /\ span = 1..(Len(doc) \div 2)
    /\ language \in Language
    /\ server = {} /\ shownWords = {} /\ changes = << >> /\ refetch = Nothing
    /\ ignored = {}
    /\ plugin = SpellChecking(1) /\ checks = << >> /\ loaded = {}
    /\ failed = "none"
    /\ \E b \in Budgets : spellCount = [typed |-> b.typed, turns |-> b.turns, switches |-> b.switches,
                                     kept |-> b.kept, runs |-> 0, gens |-> 1]
    /\ spellMishap = {}

schedule(p) == IF p.stopped \/ ~p.on THEN p ELSE [p EXCEPT !.timer = TRUE]
Spent(what) ==
    spellCount[what] > 0 /\ spellCount' = [spellCount EXCEPT ![what] = @ - 1]

(* An edit's own word may lose its mark, the others' marks move along.     *)
updateDoc(i, w) ==
    /\ doc' = [doc EXCEPT ![i] = w]
    /\ \E marks \in {plugin.marks, plugin.marks \ {i}} :
           plugin' = schedule([plugin EXCEPT !.marks = marks])
    /\ Spent("typed")
    /\ UNCHANGED <<span, language, words, worker, failed, spellMishap>>
TypeWord ==
    \E i \in Place : \E w \in Word \ {doc[i]} : updateDoc(i, w)

update ==
    /\ Spent("turns")
    /\ span' \in checkSpans \ {span}
    /\ plugin' = schedule(plugin)
    /\ UNCHANGED <<doc, language, words, worker, failed, spellMishap>>

spellcheckFor == plugin' = IF Known' # Known THEN schedule(plugin) ELSE plugin

(* setLanguage, once the server has it: off takes the plugin away.         *)
useSpellLanguage ==
    /\ spellCount.switches > 0
    /\ language' \in (Language \cup {"off"}) \ {language}
    /\ plugin' = IF language' = "off" THEN NoPlugin
                 ELSE IF plugin.on THEN schedule(plugin)
                 ELSE SpellChecking(spellCount.gens + 1)
    /\ spellCount' = [spellCount EXCEPT !.switches = @ - 1,
                          !.gens = IF plugin'.gen > @ THEN @ + 1 ELSE @]
    /\ UNCHANGED <<doc, span, words, worker, failed, spellMishap>>

-----------------------------------------------------------------------------
(* A run of the plugin, and the worker's answers.                          *)

InSpan(s, d) == {d[i] : i \in s}
Shown(c, p) ==
    {i \in c.span : /\ doc[i] \in DOMAIN p.verdicts /\ p.verdicts[doc[i]]
                     /\ ~accepts(c.known, doc[i])}
(* An edit meanwhile scheduled a new run.                                  *)
Finish(c, p) ==
    IF c.gen # p.gen \/ p.stopped \/ c.typed # spellCount.typed THEN p
    ELSE [p EXCEPT !.marks = Shown(c, p), !.latest = IF c.id > @ THEN c.id ELSE @]

(* The worker's answer, a verdict on each word asked about.                *)
Learns(c, p) ==
    [p EXCEPT !.verdicts = [w \in DOMAIN @ \cup c.unknown |->
        IF w \in c.unknown THEN w \notin Correct[c.language] ELSE @[w]]]

NeverCleared(p) == p.verdicts
Cleared(p) == IF p.language = language THEN p.verdicts ELSE << >>

run ==
    /\ plugin.on /\ plugin.timer
    /\ LET p == [plugin EXCEPT !.timer = FALSE, !.verdicts = Cleared(plugin), !.language = language]
           c == [id |-> spellCount.runs + 1, gen |-> plugin.gen, language |-> language,
                 span |-> span, known |-> Known, typed |-> spellCount.typed,
                 unknown |-> InSpan(span, doc) \ DOMAIN p.verdicts]
       IN  IF c.unknown = {} THEN plugin' = Finish(c, p) /\ UNCHANGED checks
           ELSE plugin' = p /\ checks' = Append(checks, c)
    /\ spellCount' = [spellCount EXCEPT !.runs = @ + 1]
    /\ UNCHANGED <<doc, span, language, words, loaded, failed, spellMishap>>

loadDictionary(l) ==
    /\ l \notin loaded /\ \E k \in DOMAIN checks : checks[k].language = l
    /\ loaded' = loaded \cup {l}
    /\ UNCHANGED <<doc, span, language, words, plugin, checks, failed, spellCount, spellMishap>>

First(k) == \A j \in 1..(k - 1) : checks[j].language # checks[k].language
Late(c) == c.gen = plugin.gen /\ c.language # plugin.language
ask(k) ==
    /\ checks[k].language \in loaded /\ First(k)
    /\ LET c == checks[k]
       IN  /\ plugin' = IF c.gen = plugin.gen THEN Finish(c, Learns(c, plugin)) ELSE plugin
           /\ spellMishap' = spellMishap \cup (IF Late(c) THEN {"mixed"} ELSE {})
                  \cup (IF c.gen = plugin.gen /\ c.id < plugin.latest THEN {"overtaken"} ELSE {})
    /\ checks' = RemoveAt(checks, k)
    /\ UNCHANGED <<doc, span, language, words, loaded, failed, spellCount>>

(* The dictionary does not load, the worker dies or the deadline passes:   *)
(* the plugin that asked stops for good.                                   *)
NoDeadline(k) == FALSE
Deadline(k) == checks[k].language \in Language
fail(k) ==
    /\ Deadline(k)
    /\ plugin' = IF checks[k].gen # plugin.gen THEN plugin
                 ELSE [plugin EXCEPT !.stopped = TRUE, !.marks = {}]
    /\ failed' = checks[k].language
    /\ checks' = RemoveAt(checks, k)
    /\ UNCHANGED <<doc, span, language, words, loaded, spellCount, spellMishap>>

-----------------------------------------------------------------------------
(* The words the user keeps.                                               *)

Menu(i) == i \in plugin.marks   \* misspelledAt

replaceWord(i) ==
    /\ Menu(i)
    /\ \E w \in Correct[language] \ {doc[i]} : updateDoc(i, w)

ignoreInDocument(i) ==
    /\ Menu(i) /\ Spent("kept")
    /\ ignored' = ignored \cup {doc[i]}
    /\ UNCHANGED <<doc, span, language, server, shownWords, changes, refetch, worker, failed,
                   spellMishap>>
    /\ spellcheckFor

(* onMutate: the query's request is cancelled, its data changed at once.   *)
Mutate(kind, w) ==
    /\ Spent("kept")
    /\ changes' = Append(changes, [kind |-> kind, word |-> w, previous |-> shownWords,
                                   answer |-> "none"])
    /\ shownWords' = IF kind = "add" THEN shownWords \cup {w} ELSE shownWords \ {w}
    /\ refetch' = Nothing
    /\ UNCHANGED <<doc, span, language, server, ignored, worker, failed, spellMishap>>
    /\ spellcheckFor
addToDictionary == \E i \in Place : Menu(i) /\ Mutate("add", doc[i])
removeWord == \E w \in shownWords : Mutate("remove", w)

addDictionaryWord(k) ==
    /\ changes[k].answer = "none"
    /\ \/ /\ server' = IF changes[k].kind = "add" THEN server \cup {changes[k].word}
                       ELSE server \ {changes[k].word}
          /\ changes' = [changes EXCEPT ![k].answer = "ok"]
       \/ changes' = [changes EXCEPT ![k].answer = "refused"] /\ UNCHANGED server
    /\ UNCHANGED <<doc, span, language, shownWords, refetch, ignored, plugin, worker, failed,
                   spellCount, spellMishap>>

NotInvalidated == refetch
Invalidated == [ask |-> "asked"]
onSettled(k) ==
    /\ changes[k].answer # "none"
    /\ shownWords' = IF changes[k].answer = "refused" THEN changes[k].previous ELSE shownWords
    /\ changes' = RemoveAt(changes, k)
    /\ refetch' = Invalidated
    /\ UNCHANGED <<doc, span, language, server, ignored, worker, failed, spellCount, spellMishap>>
    /\ spellcheckFor

listDictionary ==   \* it may fail: the list stays as it is until the next change has it read
    /\ refetch = [ask |-> "asked"] /\ refetch' \in {[read |-> server], [failed |-> TRUE]}
    /\ UNCHANGED <<doc, span, language, server, shownWords, changes, ignored, plugin, worker,
                   failed, spellCount, spellMishap>>
usePersonalDictionary ==
    /\ "read" \in DOMAIN refetch
    /\ shownWords' = refetch.read /\ refetch' = Nothing
    /\ UNCHANGED <<doc, span, language, server, changes, ignored, worker, failed, spellCount,
                   spellMishap>>
    /\ spellcheckFor

SpellNext ==
    \/ TypeWord
    \/ update
    \/ useSpellLanguage
    \/ run
    \/ \E l \in Language : loadDictionary(l)
    \/ \E k \in DOMAIN checks : ask(k)
    \/ \E k \in DOMAIN checks : fail(k)
    \/ \E i \in Place : replaceWord(i)
    \/ \E i \in Place : ignoreInDocument(i)
    \/ addToDictionary
    \/ removeWord
    \/ \E k \in DOMAIN changes : addDictionaryWord(k)
    \/ \E k \in DOMAIN changes : onSettled(k)
    \/ listDictionary
    \/ usePersonalDictionary

(* Timers fire: a request is answered or meets its deadline.  That a       *)
(* dictionary ever loads is not assumed.                                   *)
Answered == \E k \in DOMAIN checks : fail(k) \/ ask(k)

-----------------------------------------------------------------------------
SpellTypeOK ==
    /\ doc \in Seq(Word) /\ span \subseteq Place /\ plugin.marks \subseteq Place
    /\ language \in Language \cup {"off"} /\ loaded \subseteq Language
    /\ (server \cup shownWords \cup ignored) \subseteq Word
    /\ DOMAIN plugin.verdicts \subseteq Word
    /\ \A k \in DOMAIN checks : checks[k].unknown # {} /\ checks[k].id <= spellCount.runs

(* With nothing under way, the marks are the words on the screen that the  *)
(* chosen language does not know and the user does not keep, unless two    *)
(* checks overlapped in one of the ways `spellMishap' names.               *)
AtRest == checks = << >> /\ ~plugin.timer
MarksTrue ==
    (AtRest /\ plugin.on /\ ~plugin.stopped /\ spellMishap = {}) =>
        plugin.marks = {i \in span : doc[i] \notin Correct[language] \cup Known}

(* Once every change of the dictionary has been settled and the list was   *)
(* read after it, the browser shows the server's: a refused change takes   *)
(* no other change with it.                                                *)
DictionaryConverges == (changes = << >> /\ refetch = Nothing) => shownWords = server

(* The spelling shown agrees with the document and with what the user      *)
(* keeps.                                                                  *)
SpellTrue == SpellTypeOK /\ MarksTrue /\ DictionaryConverges

SpellSpec == SpellInit /\ [][SpellNext]_spellVars
=============================================================================
