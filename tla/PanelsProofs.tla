---------------------------- MODULE PanelsProofs ----------------------------
(***************************************************************************)
(* The comment threads and the project chat: proofs of what CommentThreads *)
(* and ProjectChat promise, for any names, texts, threads, messages, size  *)
(* of a page, budgets and faults.                                          *)
(***************************************************************************)
EXTENDS MCWorkspace, FiniteSetTheorems, SequenceTheorems, WellFoundedInduction, TLAPS
-----------------------------------------------------------------------------
(* What the variables hold.                                                *)

CommentMessages == [mine : BOOLEAN, text : Nat, names : SUBSET Name, mentions : SUBSET Name, gone : BOOLEAN]
Threads == [doc : {"main", "other"}, start : Nat, end : Nat, quote : SUBSET Nat, resolved : BOOLEAN,
            msgs : Seq(CommentMessages)]
Lists == Seq(Threads)
Passages == [doc : {"none", "main"}, start : Nat, end : Nat, quote : SUBSET Nat]
Reviews == [open : BOOLEAN, doc : {"main", "other"}, selected : Nat, filter : {"open", "resolved", "all"},
            scope : {"all", "file"}, link : 0..2, tree : BOOLEAN, members : BOOLEAN]
Edits == [thread : Nat, msg : Nat, picked : SUBSET Name, known : BOOLEAN]
Writes == [kind : {"create", "reply", "edit", "remove", "resolve"}, thread : Nat, msg : Nat, text : Nat,
           names : SUBSET Name, to : BOOLEAN, passage : Passages, known : BOOLEAN,
           at : {"asked", "done", "failed"}]
CommentBudgets == [drafts : Nat, replies : Nat, edits : Nat, removes : Nat, presses : Nat, views : Nat,
                   others : Nat, typing : Nat, breaks : Nat, faults : Nat, link : 0..2]
Frames == [type : PROJECT_EVENT_TYPES \cup {"open"}, id : Nat]
Chars == [id : Nat, gone : BOOLEAN]

ChannelTyped == stream \in [at : {"connecting", "open", "waiting"}, queue : Seq(Frames)] /\ outbox \subseteq Frames
ThreadsTyped == threads \in Lists
CommentsTyped == comments \in [loaded : BOOLEAN, list : Lists, fetch : {"none", "asked", "read"}, got : Lists]
PanelTyped ==
    /\ review \in Reviews /\ draft \in Passages /\ editing \in Edits
    /\ boxes \in [0..MaxThreads -> Nat]
WritesTyped == writes \subseteq Writes
StoryTyped ==
    /\ commentLeft \in CommentBudgets /\ typed \in Nat /\ thrown \subseteq Nat /\ overlooked \in BOOLEAN
DocTyped == ydoc \in Seq(Chars)
CommentTyped ==
    /\ ChannelTyped /\ DocTyped /\ ThreadsTyped /\ CommentsTyped /\ PanelTyped /\ WritesTyped /\ StoryTyped

(* Anchors in a text: of a passage all that is left, and all that was typed *)
(* into it since, lies between its first character and its last.           *)
DocOK(text) ==
    /\ text \in Seq(Chars)
    /\ \A p \in DOMAIN text : text[p].id \in 1..Len(text)
    /\ \A p, q \in DOMAIN text : text[p].id = text[q].id => p = q
PlaceIn(text, id) == CHOOSE p \in DOMAIN text : text[p].id = id
HeldIn(text, a) ==
    /\ a.start \in a.quote /\ a.end \in a.quote
    /\ \A id \in a.quote : \E p \in DOMAIN text : text[p].id = id
    /\ \A id \in a.quote :
         PlaceIn(text, a.start) <= PlaceIn(text, id) /\ PlaceIn(text, id) <= PlaceIn(text, a.end)
(* A text that has the characters of another, in their order.              *)
Keeps(text, new) ==
    \E e \in [DOMAIN text -> DOMAIN new] :
        /\ \A p, q \in DOMAIN text : p < q => e[p] < e[q]
        /\ \A p \in DOMAIN text : new[e[p]].id = text[p].id
Held(a) == HeldIn(ydoc, a)
Anchored ==
    /\ \A n \in DOMAIN threads : threads[n].doc = "main" => Held(threads[n])
    /\ draft.doc = "none" => draft = NoDraft
    /\ draft.doc = "main" => Held(draft)
    /\ \A w \in writes : w.kind = "create" => w.passage.doc = "main" /\ Held(w.passage)
AnchorInv == DocOK(ydoc) /\ Anchored

(* Of two readings of the threads, the first is the older. *)
SameMessage(a, b) == a.mine = b.mine /\ a.text = b.text /\ a.names = b.names
Continues(a, b) ==
    /\ a.doc = b.doc /\ a.start = b.start /\ a.end = b.end /\ a.quote = b.quote
    /\ Len(a.msgs) <= Len(b.msgs)
    /\ \A m \in DOMAIN a.msgs : SameMessage(a.msgs[m], b.msgs[m])
Older(before, after) ==
    /\ Len(before) <= Len(after)
    /\ \A n \in DOMAIN before : Continues(before[n], after[n])

SameMentions(before, after) ==
    \A n \in DOMAIN before : \A m \in DOMAIN before[n].msgs :
        after[n].msgs[m].mentions = before[n].msgs[m].mentions
Named(list) ==
    \A n \in DOMAIN list : \A m \in DOMAIN list[n].msgs : list[n].msgs[m].mentions \subseteq list[n].msgs[m].names
(* The threads after a write that changes no mention.                      *)
Written(before, after) ==
    /\ after \in Lists /\ Older(before, after) /\ SameMentions(before, after)
    /\ Named(before) => Named(after)
(* The threads after the mentions of one message are written anew.         *)
Mentioned(before, after, n, m, mentions) ==
    /\ after \in Lists /\ Older(before, after) /\ Len(after) = Len(before)
    /\ Named(before) => Named(after)
    /\ \A k \in DOMAIN before : \A j \in DOMAIN before[k].msgs :
         after[k].msgs[j].mentions = IF k = n /\ j = m THEN mentions ELSE before[k].msgs[j].mentions

AllOlder ==
    /\ ~comments.loaded => comments.list = << >> /\ comments.fetch # "none"
    /\ Older(comments.list, threads)
    /\ comments.fetch = "read" => Older(comments.list, comments.got) /\ Older(comments.got, threads)
Current ==
    \/ overlooked \/ stream # Closed("open") \/ outbox # {} \/ comments.fetch = "asked"
    \/ comments.fetch = "read" /\ comments.got = threads
    \/ comments.fetch = "none" /\ comments.list = threads

RoomInv ==
    /\ Len(threads) <= MaxThreads
    /\ \A v, w \in writes : v.kind = "create" /\ w.kind = "create" => v = w
    /\ \A w \in writes : w.kind = "create" => w.thread = Composer /\ (w.at = "asked" => Len(threads) < MaxThreads)

ToldIn(list, text) == \E n \in DOMAIN list : \E m \in DOMAIN list[n].msgs : list[n].msgs[m].text = text
Told(text) == ToldIn(threads, text)
Somewhere == \A text \in 1..typed : text \in thrown \/ (\E b \in DOMAIN boxes : boxes[b] = text) \/ Told(text)
BoxInv ==
    /\ \A b \in DOMAIN boxes : boxes[b] \in 0..typed
    /\ \A n \in DOMAIN boxes \ {Composer} :
         boxes[n] # 0 => n \in Present(comments.list) /\ ~comments.list[n].resolved
    /\ \A w \in writes : w.kind \in {"create", "reply"} =>
         w.thread \in DOMAIN boxes /\ w.text # 0 /\ (w.at = "done" => Told(w.text))
    /\ Somewhere

EditDone(n) == \E w \in writes : w.kind = "edit" /\ w.at = "done" /\ w.thread = n
Mentions(n, m) == threads[n].msgs[m].mentions
Shows(list) ==
    \A n \in DOMAIN list : \A m \in DOMAIN list[n].msgs :
        Mentions(n, m) \subseteq list[n].msgs[m].mentions \/ EditDone(n)
EditTargets ==
    /\ editing # NoEdit => /\ editing.thread \in Present(comments.list)
                           /\ editing.msg \in DOMAIN comments.list[editing.thread].msgs
    /\ \A w \in writes : w.kind \in {"edit", "remove"} =>
         /\ w.thread \in DOMAIN threads /\ w.msg \in DOMAIN threads[w.thread].msgs
         /\ comments.loaded
         /\ w.kind = "edit" => w.names \subseteq threads[w.thread].msgs[w.msg].names
    /\ \A v, w \in writes : v.kind = "edit" /\ w.kind = "edit" /\ v.thread = w.thread => v = w
MentionInv ==
    /\ Named(threads)
    /\ comments.fetch = "none" => Shows(comments.list)
    /\ comments.fetch = "read" => Shows(comments.got)
    /\ editing # NoEdit /\ editing.known =>
         Mentions(editing.thread, editing.msg) \subseteq editing.picked \/ EditDone(editing.thread)
    /\ \A w \in writes : w.kind = "edit" /\ w.at = "asked" /\ w.known => Mentions(w.thread, w.msg) \subseteq w.names

CommentInv ==
    /\ CommentTyped /\ AnchorInv /\ AllOlder /\ Current /\ RoomInv /\ BoxInv /\ EditTargets /\ MentionInv

-----------------------------------------------------------------------------
(* Counting the live characters of the text.                               *)

\* The live characters up to a place are finitely many, and at most that many.
LEMMA LiveFinite ==
    ASSUME DocTyped
    PROVE  /\ IsFiniteSet(LivePlaces) /\ Cardinality(LivePlaces) \in Nat
           /\ \A p \in Nat : /\ IsFiniteSet({q \in LivePlaces : q <= p})
                             /\ LiveUpTo(p) \in Nat /\ LiveUpTo(p) <= Cardinality(LivePlaces)
<1>1. Len(ydoc) \in Nat /\ LivePlaces \subseteq 1..Len(ydoc)
  BY DEF DocTyped, LivePlaces
<1>2. IsFiniteSet(1..Len(ydoc))
  BY <1>1, FS_Interval
<1>3. IsFiniteSet(LivePlaces)
  BY <1>1, <1>2, FS_Subset
<1>4. Cardinality(LivePlaces) \in Nat
  BY <1>3, FS_CardinalityType
<1>5. ASSUME NEW p \in Nat
      PROVE  /\ IsFiniteSet({q \in LivePlaces : q <= p})
             /\ LiveUpTo(p) \in Nat /\ LiveUpTo(p) <= Cardinality(LivePlaces)
  BY <1>3, FS_Subset, FS_CardinalityType DEF LiveUpTo
<1> QED
  BY <1>3, <1>4, <1>5

\* From one place to the next the count grows by one exactly at a live character.
LEMMA LiveCounts ==
    ASSUME DocTyped
    PROVE  /\ LiveUpTo(0) = 0 /\ LiveUpTo(Len(ydoc)) = Cardinality(LivePlaces)
           /\ \A p \in Nat \ {0} :
                LiveUpTo(p) = IF p \in LivePlaces THEN LiveUpTo(p - 1) + 1 ELSE LiveUpTo(p - 1)
<1>1. Len(ydoc) \in Nat /\ LivePlaces \subseteq 1..Len(ydoc)
  BY DEF DocTyped, LivePlaces
<1>e. \A q \in LivePlaces : q \in Nat /\ ~(q <= 0) /\ q <= Len(ydoc)
  BY <1>1
<1>2. {q \in LivePlaces : q <= 0} = {}
  BY <1>e, Zenon
<1>3. {q \in LivePlaces : q <= Len(ydoc)} = LivePlaces
  BY <1>e, Zenon
<1>4. ASSUME NEW p \in Nat \ {0}
      PROVE  LiveUpTo(p) = IF p \in LivePlaces THEN LiveUpTo(p - 1) + 1 ELSE LiveUpTo(p - 1)
  <2> DEFINE T == {q \in LivePlaces : q <= p - 1}
             U == {q \in LivePlaces : q <= p}
  <2>1. p - 1 \in Nat /\ IsFiniteSet(T)
    BY LiveFinite
  <2>2. p \notin T
    OBVIOUS
  <2>e. \A q \in LivePlaces : (q <= p <=> q <= p - 1 \/ q = p) /\ (q = p => ~(q <= p - 1))
    BY <1>e
  <2>3. CASE p \in LivePlaces
    <3>1. U = T \cup {p}
      BY <2>3, <2>e, Zenon
    <3>2. Cardinality(U) = Cardinality(T) + 1
      BY <3>1, <2>1, <2>2, FS_AddElement
    <3> QED
      BY <3>2, <2>3 DEF LiveUpTo
  <2>4. CASE p \notin LivePlaces
    BY <2>4, <2>e DEF LiveUpTo
  <2> QED
    BY <2>3, <2>4
<1> QED
  BY <1>2, <1>3, <1>4, FS_EmptySet DEF LiveUpTo

\* The count does not fall from a place to a later one, and a live one adds to it.
LEMMA LiveGrows ==
    ASSUME DocTyped, NEW p \in Nat, NEW q \in Nat, p <= q
    PROVE  LiveUpTo(p) <= LiveUpTo(q) /\ (p < q /\ q \in LivePlaces => LiveUpTo(p) < LiveUpTo(q))
<1> DEFINE T(n) == {x \in LivePlaces : x <= n}
<1>1. ASSUME NEW m \in Nat, NEW n \in Nat, m <= n PROVE LiveUpTo(m) <= LiveUpTo(n)
  <2>1. T(m) \in SUBSET T(n) /\ IsFiniteSet(T(n))
    <3>1. \A x \in LivePlaces : x <= m => x <= n
      BY <1>1 DEF LivePlaces, DocTyped
    <3>2. IsFiniteSet(T(n))
      BY <1>1, LiveFinite, Zenon
    <3> QED
      BY <3>1, <3>2, Zenon
  <2> QED
    BY <2>1, FS_Subset DEF LiveUpTo
<1>2. ASSUME p < q, q \in LivePlaces PROVE LiveUpTo(p) < LiveUpTo(q)
  <2>1. q - 1 \in Nat /\ p <= q - 1 /\ q \in Nat \ {0}
    BY <1>2
  <2>2. LiveUpTo(q) = LiveUpTo(q - 1) + 1
    BY <2>1, <1>2, LiveCounts
  <2>3. LiveUpTo(p) <= LiveUpTo(q - 1) /\ LiveUpTo(p) \in Nat /\ LiveUpTo(q - 1) \in Nat
    BY <2>1, <1>1, LiveFinite
  <2> QED
    BY <2>2, <2>3
<1> QED
  BY <1>1, <1>2

\* Naturals are well ordered.
LEMMA LeastNatural ==
    ASSUME NEW T, T \subseteq Nat, T # {}
    PROVE  \E x \in T : \A y \in T : x <= y
<1> DEFINE Less == {p \in Nat \X Nat : p[1] < p[2]}
<1>1. IsWellFoundedOn(Less, Nat)
  BY NatLessThanWellFounded DEF OpToRel, Less
<1>2. \E x \in T : \A y \in T : ~(<<y, x>> \in Less)
  BY <1>1, WFMin, Zenon
<1>3. PICK x \in T : \A y \in T : ~(<<y, x>> \in Less)
  BY <1>2
<1>4. \A y \in T : x <= y
  <2> SUFFICES ASSUME NEW y \in T PROVE x <= y
    OBVIOUS
  <2>1. x \in Nat /\ y \in Nat /\ <<y, x>> \notin Less
    BY <1>3
  <2>2. ~(y < x)
    BY <2>1
  <2> QED
    BY <2>1, <2>2
<1> QED
  BY <1>4

\* The live characters are numbered by how many there are up to each.
LEMMA LiveNumbered ==
    ASSUME DocTyped
    PROVE  /\ \A p \in LivePlaces : LiveUpTo(p) \in 1..Cardinality(LivePlaces) /\ LivePlace(LiveUpTo(p)) = p
           /\ \A i \in 1..Cardinality(LivePlaces) : LivePlace(i) \in LivePlaces /\ LiveUpTo(LivePlace(i)) = i
<1>1. LivePlaces \subseteq Nat \ {0} /\ Len(ydoc) \in Nat
  BY DEF LivePlaces, DocTyped
<1>2. \A p, q \in LivePlaces : LiveUpTo(p) = LiveUpTo(q) => p = q
  <2> SUFFICES ASSUME NEW p \in LivePlaces, NEW q \in LivePlaces, p < q PROVE LiveUpTo(p) # LiveUpTo(q)
    BY <1>1
  <2>1. p \in Nat /\ q \in Nat
    BY <1>1
  <2>2. LiveUpTo(p) < LiveUpTo(q)
    BY <2>1, LiveGrows
  <2>3. LiveUpTo(p) \in Nat /\ LiveUpTo(q) \in Nat
    BY <2>1, LiveFinite, Zenon
  <2> QED
    BY <2>2, <2>3
<1>3. ASSUME NEW p \in LivePlaces PROVE LiveUpTo(p) \in 1..Cardinality(LivePlaces) /\ LivePlace(LiveUpTo(p)) = p
  <2>1. p \in Nat /\ p - 1 \in Nat /\ p \in Nat \ {0}
    BY <1>1
  <2>2. LiveUpTo(p) = LiveUpTo(p - 1) + 1 /\ LiveUpTo(p - 1) \in Nat /\ LiveUpTo(p) <= Cardinality(LivePlaces)
    BY <2>1, LiveCounts, LiveFinite
  <2>3. LiveUpTo(p) \in 1..Cardinality(LivePlaces)
    BY <2>2, LiveFinite
  <2>4. LivePlace(LiveUpTo(p)) = p
    BY <1>2 DEF LivePlace
  <2> QED
    BY <2>3, <2>4
<1>4. ASSUME NEW i \in 1..Cardinality(LivePlaces) PROVE \E p \in LivePlaces : LiveUpTo(p) = i
  <2> DEFINE T == {p \in Nat : i <= LiveUpTo(p)}
  <2>1. Len(ydoc) \in T
    BY <1>1, LiveCounts, LiveFinite
  <2>2. PICK p \in T : \A q \in T : p <= q
    BY <2>1, LeastNatural
  <2>3. p # 0
    BY LiveCounts
  <2>4. p \in Nat \ {0} /\ p - 1 \in Nat /\ ~(p <= p - 1)
    BY <2>3
  <2>5. p - 1 \notin T
    BY <2>2, <2>4
  <2>n. LiveUpTo(p) \in Nat /\ LiveUpTo(p - 1) \in Nat /\ Cardinality(LivePlaces) \in Nat
    BY <2>4, LiveFinite, Zenon
  <2>6. LiveUpTo(p - 1) < i /\ i <= LiveUpTo(p)
    BY <2>4, <2>5, <2>n
  <2>7. p \in LivePlaces /\ LiveUpTo(p) = i
    BY <2>4, <2>6, <2>n, LiveCounts
  <2> QED
    BY <2>7
<1>5. ASSUME NEW i \in 1..Cardinality(LivePlaces) PROVE LivePlace(i) \in LivePlaces /\ LiveUpTo(LivePlace(i)) = i
  BY <1>4 DEF LivePlace
<1> QED
  BY <1>3, <1>5

-----------------------------------------------------------------------------
(* Anchors.                                                                *)

\* The place of a character is where it is.
LEMMA PlaceFacts ==
    ASSUME NEW text, DocOK(text)
    PROVE  /\ \A p \in DOMAIN text : PlaceIn(text, text[p].id) = p
           /\ \A id : (\E p \in DOMAIN text : text[p].id = id)
                         => PlaceIn(text, id) \in DOMAIN text /\ text[PlaceIn(text, id)].id = id
  BY DEF DocOK, PlaceIn

\* What keeps its order keeps its anchors.
LEMMA HeldStays ==
    ASSUME NEW text, NEW new, DocOK(text), DocOK(new), Keeps(text, new), NEW a, HeldIn(text, a)
    PROVE  HeldIn(new, a)
<1>1. PICK e \in [DOMAIN text -> DOMAIN new] :
         /\ \A p, q \in DOMAIN text : p < q => e[p] < e[q]
         /\ \A p \in DOMAIN text : new[e[p]].id = text[p].id
  BY DEF Keeps
<1>2. ASSUME NEW id, \E p \in DOMAIN text : text[p].id = id
      PROVE  /\ PlaceIn(text, id) \in DOMAIN text /\ PlaceIn(new, id) = e[PlaceIn(text, id)]
             /\ \E p \in DOMAIN new : new[p].id = id
  BY <1>2, PlaceFacts, <1>1
<1>3. ASSUME NEW p \in DOMAIN text, NEW q \in DOMAIN text, p <= q PROVE e[p] <= e[q]
  BY <1>1, <1>3 DEF DocOK
<1>4. a.start \in a.quote /\ a.end \in a.quote
  BY DEF HeldIn
<1>5. ASSUME NEW id \in a.quote
      PROVE  /\ \E p \in DOMAIN new : new[p].id = id
             /\ PlaceIn(new, a.start) <= PlaceIn(new, id) /\ PlaceIn(new, id) <= PlaceIn(new, a.end)
  BY <1>2, <1>4, <1>3 DEF HeldIn
<1> QED
  BY <1>4, <1>5 DEF HeldIn

\* Two sequences joined.
LEMMA JoinFacts ==
    ASSUME NEW S, NEW a \in Seq(S), NEW b \in Seq(S)
    PROVE  a \o b \in Seq(S) /\ Len(a \o b) = Len(a) + Len(b)
  OBVIOUS

\* The characters of a sequence with one put in.
LEMMA InsertFacts ==
    ASSUME NEW S, NEW s \in Seq(S), NEW k \in 1..Len(s) + 1, NEW c \in S
    PROVE  /\ InsertAt(s, k, c) \in Seq(S) /\ Len(InsertAt(s, k, c)) = Len(s) + 1
           /\ \A i \in 1..Len(s) + 1 :
                InsertAt(s, k, c)[i] = IF i < k THEN s[i] ELSE IF i = k THEN c ELSE s[i - 1]
<1> DEFINE a == SubSeq(s, 1, k - 1)
           b == SubSeq(s, k, Len(s))
           l == Len(s)
<1>0. l \in Nat /\ k \in 1..l + 1
  OBVIOUS
<1>1. a \in Seq(S) /\ Len(a) = k - 1 /\ \A i \in 1..k - 1 : a[i] = s[i]
  BY <1>0
<1>2. b \in Seq(S) /\ Len(b) = l - k + 1 /\ \A i \in 1..l - k + 1 : b[i] = s[k + i - 1]
  BY <1>0
<1>3. InsertAt(s, k, c) = a \o <<c>> \o b
  BY DEF InsertAt
<1>4. <<c>> \in Seq(S) /\ Len(<<c>>) = 1 /\ <<c>>[1] = c
  OBVIOUS
<1> HIDE DEF a, b, l
<1> DEFINE d == a \o <<c>>
<1>5. d \in Seq(S) /\ Len(d) = k /\ \A i \in 1..k : d[i] = IF i < k THEN s[i] ELSE c
  BY <1>0, <1>1
<1> HIDE DEF d
<1>6. d \o b \in Seq(S) /\ Len(d \o b) = l + 1
  <2>1. d \o b \in Seq(S) /\ Len(d \o b) = Len(d) + Len(b)
    BY <1>2, <1>5, JoinFacts, Zenon
  <2>2. k + (l - k + 1) = l + 1
    BY <1>0
  <2> QED
    BY <2>1, <2>2, <1>2, <1>5, Zenon
<1>7. ASSUME NEW i \in 1..l + 1
      PROVE  (d \o b)[i] = IF i < k THEN s[i] ELSE IF i = k THEN c ELSE s[i - 1]
  <2>1. CASE i <= k
    BY <2>1, <1>0, <1>2, <1>5
  <2>2. CASE i > k
    <3>1. i - k \in 1..l - k + 1 /\ k + (i - k) = i /\ k + (i - k) - 1 = i - 1
      BY <2>2, <1>0
    <3>2. (d \o b)[k + (i - k)] = b[i - k]
      BY <3>1, <1>2, <1>5, <1>0
    <3>3. b[i - k] = s[k + (i - k) - 1]
      BY <3>1, <1>2, Zenon
    <3>4. (d \o b)[i] = s[i - 1]
      BY <3>1, <3>2, <3>3, Zenon
    <3>5. ~(i < k) /\ i # k
      BY <2>2, <1>0
    <3> QED
      BY <3>4, <3>5, Zenon
  <2>3. i <= k \/ i > k
    BY <1>0
  <2> QED
    BY <2>1, <2>2, <2>3, Zenon
<1>8. InsertAt(s, k, c) = d \o b
  BY <1>3 DEF d
<1> QED
  BY <1>6, <1>7, <1>8 DEF l

\* An insertion keeps the text in order, and its new character has an id of its own.
LEMMA InsertKeeps ==
    ASSUME NEW text, DocOK(text), NEW k \in 1..Len(text) + 1
    PROVE  LET new == InsertAt(text, k, [id |-> Len(text) + 1, gone |-> FALSE])
           IN  DocOK(new) /\ Keeps(text, new)
<1> DEFINE c == [id |-> Len(text) + 1, gone |-> FALSE]
           new == InsertAt(text, k, c)
           l == Len(text)
           at(p) == IF p < k THEN p ELSE p + 1
<1>0. text \in Seq(Chars) /\ l \in Nat /\ c \in Chars /\ DOMAIN text = 1..l
  BY DEF DocOK, Chars
<1>c. c.id = Len(text) + 1
  OBVIOUS
<1> HIDE DEF c
<1>1. /\ new \in Seq(Chars) /\ Len(new) = l + 1 /\ DOMAIN new = 1..l + 1
      /\ \A i \in 1..l + 1 : new[i] = IF i < k THEN text[i] ELSE IF i = k THEN c ELSE text[i - 1]
  BY <1>0, InsertFacts
<1>2. \A p \in 1..l : text[p].id \in 1..l
  BY <1>0 DEF DocOK
<1>3. \A p, q \in 1..l : text[p].id = text[q].id => p = q
  BY <1>0 DEF DocOK
<1>4. c.id = l + 1
  BY <1>c
<1>k. k \in 1..l + 1
  OBVIOUS
<1> HIDE DEF new, l
<1>5. ASSUME NEW i \in 1..l + 1
      PROVE  \/ i = k /\ new[i].id = l + 1
             \/ \E p \in 1..l : i = at(p) /\ new[i] = text[p]
  BY <1>1, <1>4, <1>k, <1>0
<1>6. ASSUME NEW i \in 1..l + 1 PROVE new[i].id \in 1..l + 1
  BY <1>5, <1>2, <1>0
<1>7. ASSUME NEW i \in 1..l + 1, NEW j \in 1..l + 1, new[i].id = new[j].id PROVE i = j
  BY <1>2, <1>0, <1>5, <1>7, <1>3
<1>8. DocOK(new)
  BY <1>1, <1>6, <1>7 DEF DocOK
<1>9. Keeps(text, new)
  <2> DEFINE e == [p \in 1..l |-> at(p)]
  <2>1. \A p \in 1..l : at(p) \in 1..l + 1
    BY <1>0, <1>k
  <2>2. e \in [DOMAIN text -> DOMAIN new]
    BY <2>1, <1>0, <1>1
  <2>3. \A p, q \in 1..l : p < q => at(p) < at(q)
    BY <1>0, <1>k
  <2>4. ASSUME NEW p \in 1..l PROVE new[at(p)] = text[p]
    <3>1. CASE p < k
      BY <3>1, <1>1, <1>0, <2>1
    <3>2. CASE ~(p < k)
      BY <3>2, <1>0, <1>k, <1>1
    <3> QED
      BY <3>1, <3>2
  <2>5. \A p, q \in DOMAIN text : p < q => e[p] < e[q]
    BY <2>3, <1>0
  <2>6. \A p \in DOMAIN text : new[e[p]].id = text[p].id
    BY <2>4, <1>0
  <2> HIDE DEF e
  <2> QED
    BY <2>2, <2>5, <2>6 DEF Keeps
<1> QED
  BY <1>8, <1>9 DEF new, c

\* So does a deletion, which leaves the character where it was.
LEMMA EraseKeeps ==
    ASSUME NEW text, DocOK(text), NEW k \in DOMAIN text
    PROVE  LET new == [text EXCEPT ![k].gone = TRUE] IN DocOK(new) /\ Keeps(text, new)
<1> DEFINE new == [text EXCEPT ![k].gone = TRUE]
<1>0. text \in Seq(Chars) /\ Len(text) \in Nat /\ DOMAIN text = 1..Len(text)
  BY DEF DocOK
<1>1. ASSUME NEW i \in 1..Len(text) PROVE new[i] \in Chars /\ new[i].id = text[i].id
  <2>1. text[i] \in Chars
    BY <1>0
  <2> QED
    BY <2>1, <1>0 DEF Chars
<1>2. new \in Seq(Chars) /\ Len(new) = Len(text) /\ DOMAIN new = 1..Len(text)
  <2> DEFINE x == [text[k] EXCEPT !.gone = TRUE]
  <2>0. text[k] \in Chars
    BY <1>0
  <2>1. x \in Chars
    BY <2>0 DEF Chars
  <2> HIDE DEF x
  <2>2. /\ [text EXCEPT ![k] = x] \in Seq(Chars) /\ Len([text EXCEPT ![k] = x]) = Len(text)
        /\ DOMAIN [text EXCEPT ![k] = x] = 1..Len(text)
    BY <2>1, <1>0
  <2> QED
    BY <2>2 DEF x
<1> HIDE DEF new
<1>3. DocOK(new)
  BY <1>0, <1>1, <1>2 DEF DocOK
<1>4. Keeps(text, new)
  <2> DEFINE e == [p \in DOMAIN text |-> p]
  <2>1. e \in [DOMAIN text -> DOMAIN new]
    BY <1>0, <1>2
  <2>2. \A p, q \in DOMAIN text : p < q => e[p] < e[q]
    OBVIOUS
  <2>3. \A p \in DOMAIN text : new[e[p]].id = text[p].id
    BY <1>0, <1>1
  <2> HIDE DEF e
  <2> QED
    BY <2>1, <2>2, <2>3 DEF Keeps
<1> QED
  BY <1>3, <1>4 DEF new

\* The live characters, in the order of the text.
LEMMA LiveFacts ==
    ASSUME DocTyped
    PROVE  /\ Live \in Seq(Chars) /\ Len(Live) = Cardinality(LivePlaces)
           /\ \A i \in 1..Len(Live) :
                /\ LivePlace(i) \in LivePlaces /\ LivePlace(i) \in DOMAIN ydoc
                /\ LiveUpTo(LivePlace(i)) = i /\ Live[i] = ydoc[LivePlace(i)]
  BY LiveFinite, LiveNumbered DEF LivePlaces, DocTyped, Live

\* The places of the live characters.
LEMMA LivePlaced ==
    ASSUME DocOK(ydoc)
    PROVE  /\ DocTyped
           /\ \A i \in 1..Len(Live) :
                Live[i].id \in Nat /\ PlaceIn(ydoc, Live[i].id) = LivePlace(i) /\ LivePlace(i) \in Nat \ {0}
           /\ \A i, j \in 1..Len(Live) : i <= j => LivePlace(i) <= LivePlace(j)
<1>1. DocTyped /\ DOMAIN ydoc \subseteq Nat \ {0}
  BY DEF DocOK, DocTyped
<1>2. \A p \in DOMAIN ydoc : ydoc[p].id \in Nat
  BY DEF DocOK, Chars
<1>3. ASSUME NEW i \in 1..Len(Live)
      PROVE  Live[i].id \in Nat /\ PlaceIn(ydoc, Live[i].id) = LivePlace(i) /\ LivePlace(i) \in Nat \ {0}
  BY <1>1, LiveFacts, <1>2, PlaceFacts
<1>4. ASSUME NEW i \in 1..Len(Live), NEW j \in 1..Len(Live), i <= j PROVE LivePlace(i) <= LivePlace(j)
  BY <1>3, <1>1, LiveFacts, LiveGrows, <1>4
<1> QED
  BY <1>1, <1>3, <1>4

\* The passage of a selection.
LEMMA PassageHeld ==
    ASSUME DocOK(ydoc), NEW from \in 0..Len(Live), NEW to \in 0..Len(Live), from < to
    PROVE  Passage(from, to) \in Passages /\ Passage(from, to).doc = "main" /\ Held(Passage(from, to))
  BY LivePlaced, LiveFacts DEF Passage, encodeAnchor, Quote, Passages, Held, HeldIn

\* What is marked of a passage is what is left of it, and lies within it.
LEMMA HighlightTrue ==
    ASSUME DocOK(ydoc), NEW a, Held(a)
    PROVE  LET marked == buildDecorations(resolveAnchor(a))
           IN  /\ a.quote \cap {c.id : c \in ToSet(Live)} \subseteq marked
               /\ \A id \in marked : \E first, last \in a.quote :
                      Place(first) <= Place(id) /\ Place(id) <= Place(last)
<1> DEFINE s == PlaceIn(ydoc, a.start)
           e == PlaceIn(ydoc, a.end)
           from == LiveUpTo(s - 1)
           to == LiveUpTo(e)
           marked == buildDecorations(resolveAnchor(a))
<1>0. DocTyped /\ Len(Live) \in Nat /\ \A id : Place(id) = PlaceIn(ydoc, id)
  BY LivePlaced, LiveFacts DEF Place, PlaceIn
<1>1. /\ a.start \in a.quote /\ a.end \in a.quote
      /\ \A id \in a.quote : s <= PlaceIn(ydoc, id) /\ PlaceIn(ydoc, id) <= e
  BY DEF Held, HeldIn
<1>2. s \in DOMAIN ydoc /\ e \in DOMAIN ydoc
  BY PlaceFacts, <1>1 DEF Held, HeldIn
<1>3. s \in Nat /\ e \in Nat /\ s - 1 \in Nat
  BY <1>2, <1>0 DEF DocTyped
<1>4. from \in Nat /\ to \in Nat /\ to <= Len(Live)
  BY <1>3, <1>0, LiveFinite, LiveFacts
<1>5. resolveAnchor(a) = IF from >= to THEN <<0, 0>> ELSE <<from, to>>
  BY <1>0 DEF resolveAnchor
<1> HIDE DEF s, e, from, to
<1>6. \A id : id \in marked <=> from < to /\ \E i \in from + 1..to : id = Live[i].id
  BY <1>4, <1>5 DEF buildDecorations
<1> HIDE DEF marked
<1>7. ASSUME NEW id \in a.quote, NEW c \in ToSet(Live), c.id = id PROVE id \in marked
  BY <1>0, LiveFacts, <1>7, LivePlaced, <1>1, <1>3, LiveGrows, <1>4, <1>6 DEF ToSet, from, to
<1>8. ASSUME NEW id \in marked
      PROVE  Place(a.start) <= Place(id) /\ Place(id) <= Place(a.end)
  BY <1>6, <1>4, <1>0, LivePlaced, LiveFacts, <1>3, LiveGrows DEF from, to, s, e
<1> QED
  BY <1>1, <1>7, <1>8 DEF marked

-----------------------------------------------------------------------------
(* Lists of threads.                                                       *)

\* The parts of a thread.
LEMMA ThreadParts ==
    ASSUME NEW list \in Lists
    PROVE  /\ Len(list) \in Nat /\ DOMAIN list = 1..Len(list)
           /\ \A n \in DOMAIN list :
                /\ list[n] \in Threads /\ list[n].msgs \in Seq(CommentMessages) /\ Len(list[n].msgs) \in Nat
                /\ DOMAIN list[n].msgs = 1..Len(list[n].msgs)
                /\ \A m \in DOMAIN list[n].msgs : list[n].msgs[m] \in CommentMessages
<1>1. list \in Seq(Threads)
  BY DEF Lists
<1>2. Len(list) \in Nat /\ DOMAIN list = 1..Len(list) /\ \A n \in DOMAIN list : list[n] \in Threads
  BY <1>1
<1>3. ASSUME NEW n \in DOMAIN list
      PROVE  /\ list[n] \in Threads /\ list[n].msgs \in Seq(CommentMessages) /\ Len(list[n].msgs) \in Nat
             /\ DOMAIN list[n].msgs = 1..Len(list[n].msgs)
             /\ \A m \in DOMAIN list[n].msgs : list[n].msgs[m] \in CommentMessages
  BY <1>2 DEF Threads
<1> QED
  BY <1>2, <1>3

\* Nothing is older than itself, and age is transitive.
LEMMA OlderSelf ==
    ASSUME NEW list \in Lists
    PROVE  Older(list, list)
  BY ThreadParts DEF Older, Continues, SameMessage

\* Where an older list has a message, a later one has the same.
LEMMA OlderHas ==
    ASSUME NEW a \in Lists, NEW b \in Lists, Older(a, b), NEW n \in DOMAIN a
    PROVE  /\ n \in DOMAIN b /\ Continues(a[n], b[n])
           /\ \A m \in DOMAIN a[n].msgs : m \in DOMAIN b[n].msgs /\ SameMessage(a[n].msgs[m], b[n].msgs[m])
  BY ThreadParts DEF Older, Continues

\* Age is transitive.
LEMMA OlderTrans ==
    ASSUME NEW a \in Lists, NEW b \in Lists, NEW c \in Lists, Older(a, b), Older(b, c)
    PROVE  Older(a, c)
<1>1. Len(a) <= Len(c)
  BY ThreadParts DEF Older
<1>2. ASSUME NEW n \in DOMAIN a PROVE Continues(a[n], c[n])
  <2>1. /\ n \in DOMAIN b /\ Continues(a[n], b[n])
        /\ \A m \in DOMAIN a[n].msgs : m \in DOMAIN b[n].msgs /\ SameMessage(a[n].msgs[m], b[n].msgs[m])
    BY OlderHas
  <2>2. /\ n \in DOMAIN c /\ Continues(b[n], c[n])
        /\ \A m \in DOMAIN b[n].msgs : SameMessage(b[n].msgs[m], c[n].msgs[m])
    BY <2>1, OlderHas
  <2>3. \A m \in DOMAIN a[n].msgs : SameMessage(a[n].msgs[m], c[n].msgs[m])
    BY <2>1, <2>2, Zenon DEF SameMessage
  <2>4. Len(a[n].msgs) <= Len(c[n].msgs)
    BY <2>1, <2>2, ThreadParts DEF Continues
  <2> QED
    BY <2>1, <2>2, <2>3, <2>4, Zenon DEF Continues
<1> QED
  BY <1>1, <1>2 DEF Older

\* What was told in a list is told in every later one.
LEMMA OlderTold ==
    ASSUME NEW a \in Lists, NEW b \in Lists, Older(a, b), NEW text, ToldIn(a, text)
    PROVE  ToldIn(b, text)
  BY OlderHas DEF ToldIn, SameMessage

\* One thread is replaced by a continuation of it.
LEMMA ThreadChanged ==
    ASSUME NEW list \in Lists, NEW n \in DOMAIN list, NEW t \in Threads, Continues(list[n], t)
    PROVE  LET new == [list EXCEPT ![n] = t]
           IN  /\ new \in Lists /\ Older(list, new) /\ DOMAIN new = DOMAIN list /\ Len(new) = Len(list)
               /\ new[n] = t /\ \A k \in DOMAIN list : k # n => new[k] = list[k]
  BY OlderSelf, ThreadParts DEF Lists, Older

\* One message is replaced by another reading of it.
LEMMA MessageChanged ==
    ASSUME NEW list \in Lists, NEW n \in DOMAIN list, NEW m \in DOMAIN list[n].msgs,
           NEW c \in CommentMessages, SameMessage(list[n].msgs[m], c)
    PROVE  LET new == [list EXCEPT ![n].msgs[m] = c]
           IN  /\ new \in Lists /\ Older(list, new) /\ DOMAIN new = DOMAIN list /\ Len(new) = Len(list)
               /\ \A k \in DOMAIN list :
                    /\ DOMAIN new[k].msgs = DOMAIN list[k].msgs /\ new[k].resolved = list[k].resolved
                    /\ \A j \in DOMAIN list[k].msgs :
                         new[k].msgs[j] = IF k = n /\ j = m THEN c ELSE list[k].msgs[j]
<1> DEFINE msgs == list[n].msgs
           later == [msgs EXCEPT ![m] = c]
           t == [list[n] EXCEPT !.msgs = later]
           new == [list EXCEPT ![n] = t]
<1>0. [list EXCEPT ![n].msgs[m] = c] = new
  OBVIOUS
<1>1. list[n] \in Threads /\ msgs \in Seq(CommentMessages) /\ Len(msgs) \in Nat /\ DOMAIN msgs = 1..Len(msgs)
  BY ThreadParts
<1>2. m \in DOMAIN msgs /\ SameMessage(msgs[m], c)
  OBVIOUS
<1>s. \A j \in DOMAIN msgs : SameMessage(msgs[j], msgs[j])
  BY DEF SameMessage
<1>d. list[n].msgs = msgs
  OBVIOUS
<1> HIDE DEF msgs
<1>3. /\ later \in Seq(CommentMessages) /\ DOMAIN later = DOMAIN msgs /\ Len(later) = Len(msgs)
      /\ \A j \in DOMAIN msgs : later[j] = IF j = m THEN c ELSE msgs[j]
  BY <1>1, <1>2
<1> HIDE DEF later
<1>4. /\ t \in Threads /\ t.msgs = later /\ t.resolved = list[n].resolved /\ t.doc = list[n].doc
      /\ t.start = list[n].start /\ t.end = list[n].end /\ t.quote = list[n].quote
  BY <1>1, <1>3 DEF Threads
<1> HIDE DEF t
<1>5. Continues(list[n], t)
  BY <1>2, <1>3, <1>s, <1>1, <1>4, <1>d DEF Continues
<1>6. /\ new \in Lists /\ Older(list, new) /\ DOMAIN new = DOMAIN list /\ Len(new) = Len(list)
      /\ new[n] = t /\ \A k \in DOMAIN list : k # n => new[k] = list[k]
  BY <1>4, <1>5, ThreadChanged
<1> HIDE DEF new
<1>7. ASSUME NEW k \in DOMAIN list
      PROVE  /\ DOMAIN new[k].msgs = DOMAIN list[k].msgs /\ new[k].resolved = list[k].resolved
             /\ \A j \in DOMAIN list[k].msgs :
                  new[k].msgs[j] = IF k = n /\ j = m THEN c ELSE list[k].msgs[j]
  BY <1>3, <1>4, <1>6, <1>d
<1> QED
  BY <1>0, <1>6, <1>7

\* A message is deleted.
LEMMA MessageGone ==
    ASSUME NEW list \in Lists, NEW n \in DOMAIN list, NEW m \in DOMAIN list[n].msgs
    PROVE  LET new == [list EXCEPT ![n].msgs[m].gone = TRUE]
           IN  Written(list, new) /\ Len(new) = Len(list) /\ DOMAIN new = DOMAIN list
<1> DEFINE c == [list[n].msgs[m] EXCEPT !.gone = TRUE]
           new == [list EXCEPT ![n].msgs[m] = c]
<1>0. [list EXCEPT ![n].msgs[m].gone = TRUE] = new
  OBVIOUS
<1>1. list[n].msgs[m] \in CommentMessages
  BY ThreadParts
<1>2. c \in CommentMessages /\ SameMessage(list[n].msgs[m], c) /\ c.mentions = list[n].msgs[m].mentions
  BY <1>1 DEF CommentMessages, SameMessage
<1> HIDE DEF c
<1>3. /\ new \in Lists /\ Older(list, new) /\ DOMAIN new = DOMAIN list /\ Len(new) = Len(list)
      /\ \A k \in DOMAIN list :
           /\ DOMAIN new[k].msgs = DOMAIN list[k].msgs
           /\ \A j \in DOMAIN list[k].msgs :
                new[k].msgs[j] = IF k = n /\ j = m THEN c ELSE list[k].msgs[j]
  BY <1>2, MessageChanged
<1> HIDE DEF new
<1>4. ASSUME NEW k \in DOMAIN list, NEW j \in DOMAIN list[k].msgs
      PROVE  /\ new[k].msgs[j].mentions = list[k].msgs[j].mentions
             /\ new[k].msgs[j].names = list[k].msgs[j].names
  BY <1>2, <1>3 DEF SameMessage
<1>5. SameMentions(list, new)
  BY <1>4 DEF SameMentions
<1>6. Named(list) => Named(new)
  BY <1>3, <1>4 DEF Named
<1> QED
  BY <1>0, <1>3, <1>5, <1>6 DEF Written

\* A thread gets a message more.
LEMMA MessageAdded ==
    ASSUME NEW list \in Lists, NEW n \in DOMAIN list, NEW c \in CommentMessages, c.mentions \subseteq c.names
    PROVE  LET new == [list EXCEPT ![n].msgs = Append(@, c)]
           IN  Written(list, new) /\ Len(new) = Len(list) /\ DOMAIN new = DOMAIN list /\ ToldIn(new, c.text)
<1> DEFINE msgs == list[n].msgs
           later == Append(msgs, c)
           t == [list[n] EXCEPT !.msgs = later]
           new == [list EXCEPT ![n] = t]
           l == Len(msgs)
<1>0. [list EXCEPT ![n].msgs = Append(@, c)] = new
  OBVIOUS
<1>1. list[n] \in Threads /\ msgs \in Seq(CommentMessages) /\ l \in Nat /\ DOMAIN msgs = 1..l
  BY ThreadParts
<1>s. \A j \in DOMAIN msgs : SameMessage(msgs[j], msgs[j])
  BY DEF SameMessage
<1>d. list[n].msgs = msgs
  OBVIOUS
<1> HIDE DEF msgs
<1>3. /\ later \in Seq(CommentMessages) /\ DOMAIN later = 1..l + 1 /\ Len(later) = l + 1
      /\ later[l + 1] = c /\ \A j \in 1..l : later[j] = msgs[j]
  BY <1>1
<1> HIDE DEF later, l
<1>4. /\ t \in Threads /\ t.msgs = later /\ t.doc = list[n].doc
      /\ t.start = list[n].start /\ t.end = list[n].end /\ t.quote = list[n].quote
  BY <1>1, <1>3 DEF Threads
<1> HIDE DEF t
<1>5. Continues(list[n], t)
  BY <1>1, <1>3, <1>s, <1>4, <1>d DEF l, Continues
<1>6. /\ new \in Lists /\ Older(list, new) /\ DOMAIN new = DOMAIN list /\ Len(new) = Len(list)
      /\ new[n] = t /\ \A k \in DOMAIN list : k # n => new[k] = list[k]
  BY <1>4, <1>5, ThreadChanged
<1> HIDE DEF new
<1>7. SameMentions(list, new)
  BY <1>1, <1>3, <1>4, <1>6, <1>d DEF SameMentions
<1>8. ASSUME Named(list) PROVE Named(new)
  <2> SUFFICES ASSUME NEW k \in DOMAIN new, NEW j \in DOMAIN new[k].msgs
               PROVE  new[k].msgs[j].mentions \subseteq new[k].msgs[j].names
    BY DEF Named
  <2>1. CASE k # n
    BY <2>1, <1>6, <1>8 DEF Named
  <2>2. CASE k = n
    BY <2>2, <1>3, <1>4, <1>6, <1>1, <1>d, <1>8 DEF Named
  <2> QED
    BY <2>1, <2>2
<1>9. ToldIn(new, c.text)
  BY <1>1, <1>3, <1>4, <1>6 DEF ToldIn
<1> QED
  BY <1>0, <1>6, <1>7, <1>8, <1>9 DEF Written

\* A thread is marked resolved, or open again.
LEMMA ThreadResolved ==
    ASSUME NEW list \in Lists, NEW n \in DOMAIN list, NEW resolved \in BOOLEAN
    PROVE  LET new == [list EXCEPT ![n].resolved = resolved]
           IN  Written(list, new) /\ Len(new) = Len(list) /\ DOMAIN new = DOMAIN list /\ new[n].resolved = resolved
<1> DEFINE t == [list[n] EXCEPT !.resolved = resolved]
           new == [list EXCEPT ![n] = t]
<1>0. [list EXCEPT ![n].resolved = resolved] = new
  OBVIOUS
<1>1. list[n] \in Threads /\ Continues(list[n], list[n])
  BY OlderSelf, ThreadParts DEF Older
<1>4. /\ t \in Threads /\ t.msgs = list[n].msgs /\ t.doc = list[n].doc /\ t.resolved = resolved
      /\ t.start = list[n].start /\ t.end = list[n].end /\ t.quote = list[n].quote
  BY <1>1 DEF Threads
<1> HIDE DEF t
<1>5. Continues(list[n], t)
  BY <1>1, <1>4, Zenon DEF Continues
<1>6. /\ new \in Lists /\ Older(list, new) /\ DOMAIN new = DOMAIN list /\ Len(new) = Len(list)
      /\ new[n] = t /\ \A k \in DOMAIN list : k # n => new[k] = list[k]
  BY <1>4, <1>5, ThreadChanged
<1> HIDE DEF new
<1>7. \A k \in DOMAIN list : new[k].msgs = list[k].msgs
  BY <1>4, <1>6
<1>8. SameMentions(list, new) /\ (Named(list) => Named(new))
  BY <1>6, <1>7, Zenon DEF SameMentions, Named
<1> QED
  BY <1>0, <1>4, <1>6, <1>8 DEF Written

\* A list gets a thread more, of one message.
LEMMA ThreadAdded ==
    ASSUME NEW list \in Lists, NEW t \in Threads, NEW c \in CommentMessages, t.msgs = <<c>>,
           c.mentions \subseteq c.names
    PROVE  LET new == Append(list, t)
           IN  /\ Written(list, new) /\ Len(new) = Len(list) + 1 /\ ToldIn(new, c.text)
               /\ \A n \in DOMAIN new : (n \in DOMAIN list /\ new[n] = list[n]) \/ new[n] = t
<1> DEFINE new == Append(list, t)
           l == Len(list)
<1>1. list \in Seq(Threads) /\ l \in Nat /\ DOMAIN list = 1..l
  BY ThreadParts DEF Lists
<1>2. /\ new \in Seq(Threads) /\ DOMAIN new = 1..l + 1 /\ Len(new) = l + 1
      /\ new[l + 1] = t /\ \A j \in 1..l : new[j] = list[j]
  BY <1>1
<1>3. DOMAIN t.msgs = {1} /\ t.msgs[1] = c
  OBVIOUS
<1>o. \A k \in DOMAIN list : Continues(list[k], list[k])
  BY OlderSelf DEF Older
<1>l. l <= l + 1
  BY <1>1
<1> HIDE DEF new, l
<1>4. Older(list, new)
  BY <1>1, <1>2, <1>o, <1>l DEF Older, l
<1>5. SameMentions(list, new)
  BY <1>1, <1>2 DEF SameMentions
<1>6. \A n \in DOMAIN new : (n \in DOMAIN list /\ new[n] = list[n]) \/ new[n] = t
  BY <1>1, <1>2
<1>7. Named(list) => Named(new)
  BY <1>3, <1>6 DEF Named
<1>8. ToldIn(new, c.text)
  BY <1>1, <1>2, <1>3 DEF ToldIn
<1> QED
  BY <1>2, <1>4, <1>5, <1>6, <1>7, <1>8 DEF new, l, Written, Lists

\* The mentions of one message are written anew.
LEMMA MentionsWritten ==
    ASSUME NEW list \in Lists, NEW n \in DOMAIN list, NEW m \in DOMAIN list[n].msgs,
           NEW mentions \in SUBSET Name, mentions \subseteq list[n].msgs[m].names
    PROVE  Mentioned(list, [list EXCEPT ![n].msgs[m].mentions = mentions], n, m, mentions)
<1> DEFINE c == [list[n].msgs[m] EXCEPT !.mentions = mentions]
           new == [list EXCEPT ![n].msgs[m] = c]
<1>0. [list EXCEPT ![n].msgs[m].mentions = mentions] = new
  OBVIOUS
<1>1. list[n].msgs[m] \in CommentMessages
  BY ThreadParts
<1>2. /\ c \in CommentMessages /\ SameMessage(list[n].msgs[m], c)
      /\ c.mentions = mentions /\ c.names = list[n].msgs[m].names
  BY <1>1 DEF CommentMessages, SameMessage
<1> HIDE DEF c
<1>3. /\ new \in Lists /\ Older(list, new) /\ DOMAIN new = DOMAIN list /\ Len(new) = Len(list)
      /\ \A k \in DOMAIN list :
           /\ DOMAIN new[k].msgs = DOMAIN list[k].msgs
           /\ \A j \in DOMAIN list[k].msgs :
                new[k].msgs[j] = IF k = n /\ j = m THEN c ELSE list[k].msgs[j]
  BY <1>2, MessageChanged
<1> HIDE DEF new
<1>6. Named(list) => Named(new)
  BY <1>2, <1>3 DEF Named
<1>7. \A k \in DOMAIN list : \A j \in DOMAIN list[k].msgs :
        new[k].msgs[j].mentions = IF k = n /\ j = m THEN mentions ELSE list[k].msgs[j].mentions
  BY <1>2, <1>3
<1>8. Mentioned(list, new, n, m, mentions)
  BY <1>3, <1>6, <1>7 DEF Mentioned
<1> QED
  BY <1>0, <1>8

-----------------------------------------------------------------------------
(* The channel and the panel.                                              *)

\* The budgets of a story stay natural numbers.
LEMMA SpendTyped ==
    ASSUME commentLeft \in CommentBudgets,
           NEW what \in {"drafts", "replies", "edits", "removes", "presses", "views", "others", "typing",
                         "breaks", "faults"},
           CommentSpend(what)
    PROVE  commentLeft' \in CommentBudgets
  BY DEF CommentBudgets, CommentSpend

\* The parts of the stream.
LEMMA StreamParts ==
    ASSUME ChannelTyped
    PROVE  /\ stream.at \in {"connecting", "open", "waiting"} /\ stream.queue \in Seq(Frames)
           /\ stream = [at |-> stream.at, queue |-> stream.queue]
           /\ \A at \in {"connecting", "open", "waiting"} : \A queue \in Seq(Frames) :
                [at |-> at, queue |-> queue] \in [at : {"connecting", "open", "waiting"}, queue : Seq(Frames)]
  BY DEF ChannelTyped

\* The channel keeps its types.
LEMMA ChannelStays ==
    ASSUME ChannelTyped,
           \/ deliver \/ project_events_stream \/ scheduleReconnect \/ streamError
           \/ \E event \in outbox : publish_project_event(event) \/ _publish_quietly(event)
    PROVE  ChannelTyped'
<1> DEFINE Streams == [at : {"connecting", "open", "waiting"}, queue : Seq(Frames)]
<1>0. outbox \subseteq Frames /\ stream \in Streams
  BY DEF ChannelTyped
<1>1. CASE deliver
  <2>1. stream' = [at |-> stream.at, queue |-> Tail(stream.queue)] /\ outbox' = outbox
    BY <1>1, StreamParts DEF deliver
  <2>2. Tail(stream.queue) \in Seq(Frames)
    BY <1>1, StreamParts DEF deliver
  <2> QED
    BY <1>0, <2>1, <2>2, StreamParts DEF ChannelTyped
<1>2. CASE project_events_stream
  BY <1>0, <1>2, StreamParts DEF Opened, Frames, ChannelTyped, project_events_stream
<1>3. CASE scheduleReconnect \/ streamError
  <2>1. \A at : Closed(at) = [at |-> at, queue |-> << >>]
    BY DEF Closed
  <2>2. << >> \in Seq(Frames)
    OBVIOUS
  <2> QED
    BY <1>0, <1>3, <2>1, <2>2, StreamParts DEF ChannelTyped, scheduleReconnect, streamError
<1>4. ASSUME NEW event \in outbox, publish_project_event(event) \/ _publish_quietly(event) PROVE ChannelTyped'
  <2>1. event \in Frames /\ outbox' \subseteq Frames
    BY <1>0, <1>4 DEF publish_project_event, _publish_quietly
  <2>2. CASE stream' = stream
    BY <1>0, <2>1, <2>2 DEF ChannelTyped
  <2>3. CASE stream' = [stream EXCEPT !.queue = Append(@, event)]
    <3>1. stream' = [at |-> stream.at, queue |-> Append(stream.queue, event)]
      BY <2>3, StreamParts
    <3>2. Append(stream.queue, event) \in Seq(Frames)
      BY <2>1, StreamParts
    <3> QED
      BY <2>1, <3>1, <3>2, StreamParts DEF ChannelTyped
  <2> QED
    BY <1>4, <2>2, <2>3 DEF publish_project_event, _publish_quietly
<1> QED
  BY <1>1, <1>2, <1>3, <1>4

\* What the panel does to its boxes and to the editor.
LEMMA PanelFacts ==
    ASSUME PanelTyped, thrown \subseteq Nat, NEW list, NEW view \in Reviews, NEW passage \in Passages,
           PanelBody(list, view, passage)
    PROVE  /\ PanelTyped' /\ thrown' \subseteq Nat /\ review' = view /\ draft' = passage
           /\ DOMAIN boxes' = DOMAIN boxes /\ thrown \subseteq thrown'
           /\ \A b \in DOMAIN boxes : \/ boxes'[b] = boxes[b]
                                      \/ boxes'[b] = 0 /\ (boxes[b] # 0 => boxes[b] \in thrown')
           /\ \A n \in DOMAIN boxes \ {Composer} :
                boxes'[n] # 0 => n \in Present(list) /\ ~list[n].resolved
           /\ editing' = NoEdit \/ (editing' = editing /\ editing.thread \in Present(list))
  BY DEF PanelBody, ReplyShown, orderThreads, PanelTyped, NoEdit, Edits

-----------------------------------------------------------------------------
(* Steps of the channel, of the list and of the panel.                     *)

\* The channel and what the page has fetched: the list, the texts and the writes stay.
LEMMA QuietKeeps ==
    ASSUME CommentInv, UNCHANGED <<ydoc, threads, comments, draft, boxes, editing, writes, typed, thrown>>,
           ChannelTyped', review' \in Reviews, commentLeft' \in CommentBudgets, overlooked' \in BOOLEAN, Current'
    PROVE  CommentInv'
<1>1. CommentTyped'
  BY DEF CommentInv, CommentTyped, DocTyped, ThreadsTyped, CommentsTyped, PanelTyped, WritesTyped, StoryTyped
<1>2. AnchorInv'
  BY Zenon DEF CommentInv, AnchorInv, Anchored, Held
<1>3. AllOlder' /\ RoomInv'
  BY Zenon DEF CommentInv, AllOlder, RoomInv
<1>4. BoxInv'
  BY Zenon DEF CommentInv, BoxInv, Somewhere, Told
<1>5. EditTargets' /\ MentionInv'
  BY Zenon DEF CommentInv, EditTargets, MentionInv, Shows, EditDone, Mentions
<1> QED
  BY <1>1, <1>2, <1>3, <1>4, <1>5 DEF CommentInv

\* An event is published, or its publication fails.
LEMMA PublishKeeps ==
    ASSUME CommentInv, CommentPublished
    PROVE  CommentInv'
<1>0. ChannelTyped /\ StoryTyped /\ PanelTyped /\ Current
  BY DEF CommentInv, CommentTyped
<1>1. PICK event \in outbox :
        \/ publish_project_event(event) /\ UNCHANGED <<overlooked, commentLeft>>
        \/ _publish_quietly(event) /\ CommentSpend("faults") /\ overlooked' = TRUE
  BY DEF CommentPublished
<1>2. ChannelTyped'
  BY <1>0, <1>1, ChannelStays
<1>3. commentLeft' \in CommentBudgets /\ overlooked' \in BOOLEAN
  BY <1>0, <1>1, SpendTyped DEF StoryTyped
<1>4. UNCHANGED <<ydoc, threads, comments, draft, boxes, editing, writes, typed, thrown>> /\ review' = review
  BY DEF CommentPublished, panelVars
<1>5. Current'
  BY <1>0, StreamParts, <1>1 DEF Current, publish_project_event, Closed
<1> QED
  BY <1>0, <1>2, <1>3, <1>4, <1>5, QuietKeeps DEF PanelTyped

\* The stream connects, breaks or connects again.
LEMMA StreamKeeps ==
    ASSUME CommentInv, CommentConnects \/ CommentBreaks
    PROVE  CommentInv'
<1>0. ChannelTyped /\ StoryTyped /\ PanelTyped
  BY DEF CommentInv, CommentTyped
<1>1. ChannelTyped'
  BY <1>0, ChannelStays DEF CommentConnects, CommentBreaks
<1>2. commentLeft' \in CommentBudgets /\ overlooked' = overlooked
  BY <1>0, SpendTyped DEF StoryTyped, CommentConnects, CommentBreaks, commentVars
<1>3. UNCHANGED <<ydoc, threads, comments, draft, boxes, editing, writes, typed, thrown>> /\ review' = review
  BY DEF CommentConnects, CommentBreaks, commentVars, panelVars
<1>4. Current'
  BY DEF project_events_stream, Closed, scheduleReconnect, streamError, CommentConnects, CommentBreaks,
     Current
<1> QED
  BY <1>0, <1>1, <1>2, <1>3, <1>4, QuietKeeps DEF PanelTyped, StoryTyped

\* The tree of files arrives, or the project's members do.
LEMMA FetchedKeeps ==
    ASSUME CommentInv, TreeArrives \/ useMentionMembers
    PROVE  CommentInv'
  BY QuietKeeps DEF CommentInv, CommentTyped, TreeArrives, useMentionMembers, eventVars, PanelTyped,
     Reviews, ChannelTyped, Current, StoryTyped

\* What a refresh of the list does.
LEMMA RefreshFacts ==
    ASSUME CommentsTyped, AllOlder, Current, overlooked \in BOOLEAN, refreshComments
    PROVE  /\ CommentsTyped' /\ comments'.list = comments.list /\ comments'.loaded = comments.loaded
           /\ comments'.got = comments.got /\ overlooked' \in BOOLEAN
           /\ comments.loaded => comments'.fetch = "asked"
           /\ comments'.fetch = "asked" \/ (comments' = comments /\ ~comments.loaded /\ comments.fetch = "read")
           /\ overlooked' \/ comments'.fetch = "asked"
  BY DEF refreshComments, CommentsTyped, AllOlder

\* The parts of the list and of its fetch.
LEMMA CommentsParts ==
    ASSUME CommentsTyped
    PROVE  /\ comments.loaded \in BOOLEAN /\ comments.list \in Lists /\ comments.fetch \in {"none", "asked", "read"}
           /\ comments.got \in Lists
  BY DEF CommentsTyped

\* The list is fetched anew, or its fetch is asked for again: what is shown stays.
LEMMA FetchKeeps ==
    ASSUME CommentInv, CommentsTyped', ChannelTyped', overlooked' \in BOOLEAN,
           UNCHANGED <<ydoc, threads, panelVars, writes, commentLeft, typed, thrown>>,
           comments'.list = comments.list, comments'.loaded = comments.loaded, Current',
           \/ comments'.fetch = "asked"
           \/ comments'.fetch = "read" /\ comments'.got = threads
           \/ comments' = comments
    PROVE  CommentInv'
<1>0. UNCHANGED <<review, draft, boxes, editing>>
  BY DEF panelVars
<1>1. CommentTyped'
  BY <1>0 DEF CommentInv, CommentTyped, DocTyped, ThreadsTyped, PanelTyped, WritesTyped, StoryTyped
<1>2. AnchorInv' /\ RoomInv'
  BY <1>0, Zenon DEF CommentInv, AnchorInv, Anchored, Held, RoomInv
<1>3. BoxInv'
  BY <1>0, Zenon DEF CommentInv, BoxInv, Somewhere, Told
<1>4. EditTargets'
  BY <1>0, Zenon DEF CommentInv, EditTargets
<1>5. AllOlder'
  BY OlderSelf DEF CommentInv, CommentTyped, ThreadsTyped, AllOlder
<1>6. MentionInv'
  BY <1>0 DEF CommentInv, EditDone, Mentions, MentionInv, Shows
<1> QED
  BY <1>1, <1>2, <1>3, <1>4, <1>5, <1>6 DEF CommentInv

\* The server reads the threads for the list.
LEMMA ReadKeeps ==
    ASSUME CommentInv, fetchThreads
    PROVE  CommentInv'
  BY FetchKeeps DEF CommentInv, CommentTyped, fetchThreads, eventVars, CommentsTyped, ThreadsTyped,
     ChannelTyped, Current, StoryTyped

\* A frame of the stream asks for the list again.
LEMMA DeliverKeeps ==
    ASSUME CommentInv, CommentDelivered
    PROVE  CommentInv'
  BY RefreshFacts, ChannelStays, FetchKeeps DEF CommentInv, CommentTyped, CommentDelivered, StoryTyped,
     Current

\* A thread with a live message has a message, and is in every later list.
LEMMA PresentFacts ==
    ASSUME NEW list \in Lists, NEW n \in Present(list)
    PROVE  n \in DOMAIN list /\ n \in Nat \ {0} /\ DOMAIN list[n].msgs # {} /\ list[n].doc \in {"main", "other"}
  BY ThreadParts DEF Present, Threads

\* The panel on a thread.
LEMMA SelectTyped ==
    ASSUME NEW list \in Lists, NEW view \in Reviews, NEW n \in Present(list)
    PROVE  selectThread(n, list, view) \in Reviews
  BY PresentFacts DEF Reviews, selectThread

\* The list arrives, and the bell's link with it.
LEMMA LoadKeeps ==
    ASSUME CommentInv, useCommentThreads
    PROVE  CommentInv'
<1>0. /\ ChannelTyped /\ DocTyped /\ ThreadsTyped /\ CommentsTyped /\ PanelTyped /\ WritesTyped /\ StoryTyped
      /\ AllOlder /\ Current /\ BoxInv /\ EditTargets /\ MentionInv
  BY DEF CommentInv, CommentTyped
<1>n. PICK new : new = comments.got
  OBVIOUS
<1>1. /\ comments.fetch = "read"
      /\ comments' = [loaded |-> TRUE, list |-> new, fetch |-> "none", got |-> << >>]
      /\ PanelBody(new, Linked(new), draft)
      /\ UNCHANGED <<stream, outbox, ydoc, threads, writes, commentLeft, typed, overlooked>>
  BY <1>n DEF useCommentThreads, eventVars
<1>2. new \in Lists /\ comments.list \in Lists /\ threads \in Lists /\ Older(comments.list, new) /\ Older(new, threads)
  BY <1>0, <1>1, <1>n, CommentsParts DEF ThreadsTyped, AllOlder
<1>3. Linked(new) \in Reviews
  <2>1. review \in Reviews
    BY <1>0 DEF PanelTyped
  <2>2. CASE LinkReady(new)
    <3>1. selectThread(review.link, new, review) \in Reviews
      BY <1>2, <2>1, <2>2, SelectTyped DEF LinkReady
    <3>2. Linked(new) = [selectThread(review.link, new, review) EXCEPT !.open = TRUE, !.link = 0]
      BY <2>2 DEF Linked
    <3>3. ASSUME NEW x \in Reviews PROVE [x EXCEPT !.open = TRUE] \in Reviews
      BY DEF Reviews
    <3>4. ASSUME NEW x \in Reviews PROVE [x EXCEPT !.link = 0] \in Reviews
      BY DEF Reviews
    <3> QED
      BY <3>1, <3>2, <3>3, <3>4
  <2>3. CASE ~LinkReady(new)
    BY <2>1, <2>3 DEF Linked
  <2> QED
    BY <2>2, <2>3
<1>4. draft \in Passages /\ thrown \subseteq Nat
  BY <1>0 DEF PanelTyped, StoryTyped
<1>5. /\ PanelTyped' /\ thrown' \subseteq Nat /\ draft' = draft
      /\ DOMAIN boxes' = DOMAIN boxes /\ thrown \subseteq thrown'
      /\ \A b \in DOMAIN boxes : \/ boxes'[b] = boxes[b]
                                 \/ boxes'[b] = 0 /\ (boxes[b] # 0 => boxes[b] \in thrown')
      /\ \A n \in DOMAIN boxes \ {Composer} : boxes'[n] # 0 => n \in Present(new) /\ ~new[n].resolved
      /\ editing' = NoEdit \/ (editing' = editing /\ editing.thread \in Present(new))
  BY <1>0, <1>1, <1>3, <1>4, PanelFacts
<1>6. comments'.loaded /\ comments'.list = new /\ comments'.fetch = "none"
  BY <1>1
<1>7. CommentTyped'
  BY <1>1, <1>2, <1>0, <1>5 DEF Lists, CommentsTyped, CommentTyped, ChannelTyped, DocTyped,
     ThreadsTyped, WritesTyped, StoryTyped
<1>8. AnchorInv' /\ RoomInv'
  BY <1>1, <1>5, Zenon DEF CommentInv, AnchorInv, Anchored, Held, RoomInv
<1>9. AllOlder'
  BY <1>1, <1>2, <1>6 DEF AllOlder
<1>10. Current'
  BY <1>0, <1>1, <1>6, <1>n DEF Current
<1>11. BoxInv'
  BY <1>0, <1>1, <1>5, <1>6 DEF StoryTyped, BoxInv, Told, Somewhere
<1>12. EditTargets'
  BY <1>5, <1>0, <1>2, OlderHas, <1>1, <1>6 DEF EditTargets, Present
<1>13. MentionInv'
  BY <1>1, <1>0, <1>n, <1>6, <1>5 DEF EditDone, Mentions, MentionInv, Shows
<1> QED
  BY <1>7, <1>8, <1>9, <1>10, <1>11, <1>12, <1>13 DEF CommentInv

\* The panel is looked at otherwise, or has another passage to comment on.
LEMMA PanelKeeps ==
    ASSUME CommentInv, NEW view \in Reviews, NEW passage \in Passages, CommentsPanel(view, passage),
           UNCHANGED <<eventVars, ydoc, threads, writes, typed, overlooked>>, commentLeft' \in CommentBudgets,
           passage = draft \/ passage = NoDraft \/ (passage.doc = "main" /\ Held(passage))
    PROVE  CommentInv'
<1>0. /\ ChannelTyped /\ DocTyped /\ ThreadsTyped /\ CommentsTyped /\ PanelTyped /\ WritesTyped /\ StoryTyped
      /\ AnchorInv /\ AllOlder /\ Current /\ BoxInv /\ EditTargets /\ MentionInv
  BY DEF CommentInv, CommentTyped
<1>1. /\ PanelBody(comments.list, view, passage)
      /\ UNCHANGED <<stream, outbox, ydoc, threads, comments, writes, typed, overlooked>>
  BY DEF CommentsPanel, eventVars
<1>n. PICK list : list = comments.list
  OBVIOUS
<1>2. thrown \subseteq Nat /\ typed \in Nat
  BY <1>0 DEF StoryTyped
<1>3. /\ PanelTyped' /\ thrown' \subseteq Nat /\ draft' = passage
      /\ DOMAIN boxes' = DOMAIN boxes /\ thrown \subseteq thrown'
      /\ \A b \in DOMAIN boxes : \/ boxes'[b] = boxes[b]
                                 \/ boxes'[b] = 0 /\ (boxes[b] # 0 => boxes[b] \in thrown')
      /\ \A n \in DOMAIN boxes \ {Composer} : boxes'[n] # 0 => n \in Present(list) /\ ~list[n].resolved
      /\ editing' = NoEdit \/ editing' = editing
  BY <1>0, <1>1, <1>2, <1>n, PanelFacts
<1>4. CommentTyped'
  BY <1>0, <1>1, <1>3 DEF CommentTyped, ChannelTyped, DocTyped, ThreadsTyped, CommentsTyped, WritesTyped, StoryTyped
<1>5. AnchorInv'
  BY <1>0, <1>1, <1>3 DEF AnchorInv, Anchored, Held, NoDraft
<1>6. AllOlder' /\ Current' /\ RoomInv'
  BY <1>1 DEF CommentInv, AllOlder, Current, RoomInv
<1>7. BoxInv'
  BY <1>0, <1>1, <1>2, <1>3, <1>n DEF BoxInv, Told, Somewhere
<1>8. EditTargets'
  BY <1>0, <1>1, <1>3, Zenon DEF EditTargets
<1>9. MentionInv'
  BY <1>3, <1>1, <1>0 DEF EditDone, Mentions, Shows, MentionInv
<1> QED
  BY <1>4, <1>5, <1>6, <1>7, <1>8, <1>9 DEF CommentInv

\* A comment is begun on a selection, the panel is looked at otherwise, a comment is given up.
LEMMA LookKeeps ==
    ASSUME CommentInv, startDraft \/ useCommentState \/ onDraftCancel
    PROVE  CommentInv'
<1>0. ThreadsTyped /\ CommentsTyped /\ PanelTyped /\ StoryTyped /\ AnchorInv
  BY DEF CommentInv, CommentTyped
<1>1. review \in Reviews /\ draft \in Passages /\ commentLeft \in CommentBudgets /\ NoDraft \in Passages
  BY <1>0 DEF PanelTyped, StoryTyped, NoDraft, Passages
<1>2. CASE startDraft
  BY <1>2, <1>0, PassageHeld, <1>1, SpendTyped, PanelKeeps DEF startDraft, useEditorSelection,
     AnchorInv, Reviews
<1>3. CASE useCommentState
  <2>1. PICK view \in Views : CommentsPanel(view, draft)
    BY <1>3 DEF useCommentState
  <2>2. view \in Reviews
    <3>1. CASE \E n \in Present(comments.list) : view = selectThread(n, comments.list, review)
      BY <3>1, <1>0, <1>1, SelectTyped, CommentsParts
    <3>2. CASE view = [review EXCEPT !.open = ~@]
      BY <3>2, <1>1 DEF Reviews
    <3>3. CASE view = [review EXCEPT !.filter = "all"]
      BY <3>3, <1>1 DEF Reviews
    <3>4. CASE view = [review EXCEPT !.filter = "resolved"]
      BY <3>4, <1>1 DEF Reviews
    <3>5. CASE view = [review EXCEPT !.scope = "all"]
      BY <3>5, <1>1 DEF Reviews
    <3>6. \A n \in commentMarks(comments.list, review)
                     \cup (IF review.open THEN orderThreads(comments.list, review) ELSE {}) :
            n \in Present(comments.list)
      BY DEF commentMarks, orderThreads
    <3> QED
      BY <2>1, <3>1, <3>2, <3>3, <3>4, <3>5, <3>6 DEF Views
  <2>3. UNCHANGED <<eventVars, ydoc, threads, writes, typed, overlooked>> /\ CommentSpend("views")
    BY <1>3 DEF useCommentState
  <2>4. commentLeft' \in CommentBudgets
    BY <1>1, <2>3, SpendTyped
  <2> QED
    BY <1>1, <2>1, <2>2, <2>3, <2>4, PanelKeeps
<1>4. CASE onDraftCancel
  BY <1>4, <1>1, SpendTyped, PanelKeeps DEF onDraftCancel
<1> QED
  BY <1>2, <1>3, <1>4

\* The threads shown have a box each, and their places in the server's list.
LEMMA ShownFacts ==
    ASSUME CommentInv, NEW n \in Present(comments.list)
    PROVE  /\ n \in DOMAIN boxes \ {Composer} /\ n \in Nat \ {0} /\ n \in DOMAIN comments.list /\ n \in DOMAIN threads
           /\ comments.loaded
           /\ \A m \in DOMAIN comments.list[n].msgs :
                /\ m \in Nat /\ m \in DOMAIN threads[n].msgs
                /\ SameMessage(comments.list[n].msgs[m], threads[n].msgs[m])
<1>0. /\ ThreadsTyped /\ CommentsTyped /\ PanelTyped /\ AllOlder /\ Len(threads) <= MaxThreads
      /\ MaxThreads \in Nat
  BY CommentAssumption DEF CommentInv, CommentTyped, RoomInv
<1>1. comments.list \in Lists /\ threads \in Lists /\ Older(comments.list, threads)
  BY <1>0, CommentsParts DEF ThreadsTyped, AllOlder
<1>2. n \in DOMAIN comments.list /\ n \in Nat \ {0}
  BY <1>1, PresentFacts
<1>3. /\ n \in DOMAIN threads
      /\ \A m \in DOMAIN comments.list[n].msgs :
           m \in DOMAIN threads[n].msgs /\ SameMessage(comments.list[n].msgs[m], threads[n].msgs[m])
  BY <1>1, <1>2, OlderHas
<1>4. n \in 0..MaxThreads
  BY <1>0, <1>1, <1>3, ThreadParts
<1>5. comments.loaded
  BY <1>2, <1>0 DEF AllOlder
<1>6. \A m \in DOMAIN comments.list[n].msgs : m \in Nat
  BY <1>1, <1>2, ThreadParts
<1> QED
  BY <1>0, <1>2, <1>3, <1>4, <1>5, <1>6 DEF PanelTyped, Composer

\* Something is typed into a box, over what was in it.
LEMMA TypedKeeps ==
    ASSUME CommentInv, NEW into \in DOMAIN boxes, typed' = typed + 1, boxes' = [boxes EXCEPT ![into] = typed + 1],
           UNCHANGED <<eventVars, ydoc, threads, comments, review, draft, editing, writes, overlooked>>,
           commentLeft' \in CommentBudgets, thrown \subseteq thrown', thrown' \subseteq Nat,
           boxes[into] # 0 => boxes[into] \in thrown',
           into # Composer => into \in Present(comments.list) /\ ~comments.list[into].resolved
    PROVE  CommentInv'
<1>0. /\ ChannelTyped /\ DocTyped /\ ThreadsTyped /\ CommentsTyped /\ PanelTyped /\ WritesTyped /\ StoryTyped
      /\ BoxInv
  BY DEF CommentInv, CommentTyped
<1>1. UNCHANGED <<stream, outbox>> /\ typed \in Nat /\ boxes \in [0..MaxThreads -> Nat]
  BY <1>0 DEF eventVars, StoryTyped, PanelTyped
<1>2. /\ typed' \in Nat /\ boxes' \in [0..MaxThreads -> Nat] /\ boxes'[into] = typed'
      /\ DOMAIN boxes' = DOMAIN boxes /\ \A b \in DOMAIN boxes : b # into => boxes'[b] = boxes[b]
  BY <1>1
<1>3. CommentTyped'
  BY <1>0, <1>1, <1>2 DEF CommentTyped, ChannelTyped, DocTyped, ThreadsTyped, CommentsTyped, PanelTyped,
                          WritesTyped, StoryTyped
<1>4. AnchorInv' /\ AllOlder' /\ RoomInv'
  BY Zenon DEF CommentInv, AnchorInv, Anchored, Held, AllOlder, RoomInv
<1>5. Current'
  BY <1>1 DEF CommentInv, Current
<1>6. EditTargets' /\ MentionInv'
  BY Zenon DEF CommentInv, EditTargets, MentionInv, Shows, EditDone, Mentions
<1>7. BoxInv'
  BY <1>0, <1>1, <1>2 DEF BoxInv, Told, Somewhere
<1> QED
  BY <1>3, <1>4, <1>5, <1>6, <1>7 DEF CommentInv

\* The user types a comment, a reply, or more over a text on its way.
LEMMA TypingKeeps ==
    ASSUME CommentInv, CommentComposer \/ ReplyBox \/ TypeOver
    PROVE  CommentInv'
<1>0. PanelTyped /\ StoryTyped /\ BoxInv
  BY DEF CommentInv, CommentTyped
<1>1. /\ DOMAIN boxes = 0..MaxThreads /\ Composer \in DOMAIN boxes /\ commentLeft \in CommentBudgets
      /\ thrown \subseteq Nat
  BY <1>0, CommentAssumption DEF PanelTyped, StoryTyped, Composer
<1>2. CASE CommentComposer
  BY <1>2, <1>1, TypedKeeps DEF CommentComposer, WriteIn
<1>3. CASE ReplyBox
  BY <1>3, <1>1, ShownFacts, SpendTyped, TypedKeeps DEF ReplyBox, ReplyShown, orderThreads, WriteIn
<1>4. CASE TypeOver
  <2>1. PICK w \in writes :
          /\ w.kind \in {"create", "reply"} /\ boxes[w.thread] = w.text /\ CommentSpend("replies")
          /\ typed' = typed + 1 /\ boxes' = [boxes EXCEPT ![w.thread] = typed + 1]
          /\ thrown' = thrown \cup {w.text}
    BY <1>4 DEF TypeOver
  <2>2. w.thread \in DOMAIN boxes /\ w.text # 0
    BY <2>1, <1>0 DEF BoxInv
  <2>3. w.thread # Composer => w.thread \in Present(comments.list) /\ ~comments.list[w.thread].resolved
    BY <2>1, <2>2, <1>0 DEF BoxInv
  <2>4. UNCHANGED <<eventVars, ydoc, threads, comments, review, draft, editing, writes, overlooked>>
    BY <1>4 DEF TypeOver
  <2>5. thrown \subseteq thrown' /\ thrown' \subseteq Nat /\ boxes[w.thread] \in thrown'
    BY <2>1, <2>2, <1>0, <1>1 DEF PanelTyped
  <2>6. commentLeft' \in CommentBudgets
    BY <2>1, <1>1, SpendTyped
  <2> QED
    BY <2>1, <2>2, <2>3, <2>4, <2>5, <2>6, TypedKeeps
<1> QED
  BY <1>2, <1>3, <1>4

-----------------------------------------------------------------------------
(* The user's mutations, and what others type.                             *)

\* A mutation is sent.
LEMMA MutateKeeps ==
    ASSUME CommentInv, NEW w \in Writes, w.at = "asked", Mutate(w), UNCHANGED <<boxes, editing>>,
           commentLeft' \in CommentBudgets,
           w.kind = "create" => /\ w.thread = Composer /\ ~Pending("create", Composer) /\ Len(threads) < MaxThreads
                                /\ w.passage = draft /\ draft # NoDraft,
           w.kind \in {"create", "reply"} => w.thread \in DOMAIN boxes /\ w.text # 0,
           w.kind \in {"edit", "remove"} => /\ w.thread \in DOMAIN threads /\ w.msg \in DOMAIN threads[w.thread].msgs
                                            /\ comments.loaded,
           w.kind = "edit" => /\ ~Pending("edit", w.thread) /\ w.names \subseteq threads[w.thread].msgs[w.msg].names
                              /\ w.known => Mentions(w.thread, w.msg) \subseteq w.names
    PROVE  CommentInv'
<1>0. /\ ChannelTyped /\ DocTyped /\ ThreadsTyped /\ CommentsTyped /\ PanelTyped /\ WritesTyped /\ StoryTyped
      /\ AnchorInv /\ AllOlder /\ Current /\ RoomInv /\ BoxInv /\ EditTargets /\ MentionInv
  BY DEF CommentInv, CommentTyped
<1>1. /\ writes' = writes \cup {w}
      /\ UNCHANGED <<stream, outbox, ydoc, threads, comments, review, draft, typed, thrown, overlooked, boxes,
                     editing>>
  BY DEF Mutate, eventVars
<1>2. CommentTyped'
  BY <1>0, <1>1 DEF CommentTyped, ChannelTyped, DocTyped, ThreadsTyped, CommentsTyped, PanelTyped,
                    WritesTyped, StoryTyped
<1>3. AnchorInv'
  BY <1>0, <1>1 DEF PanelTyped, Passages, AnchorInv, Anchored, Held
<1>4. AllOlder' /\ Current'
  BY <1>0, <1>1 DEF AllOlder, Current
<1>5. RoomInv'
  BY <1>0, <1>1 DEF RoomInv, Pending
<1>6. BoxInv'
  BY <1>0, <1>1 DEF BoxInv, Somewhere, Told
<1>7. EditTargets'
  BY <1>0, <1>1 DEF EditTargets, Pending
<1>8. MentionInv'
  BY <1>1, <1>0 DEF EditDone, Mentions, Shows, MentionInv
<1> QED
  BY <1>2, <1>3, <1>4, <1>5, <1>6, <1>7, <1>8 DEF CommentInv

\* The user sends a comment, a reply, an edit, a deletion, or resolves a thread.
LEMMA SentKeeps ==
    ASSUME CommentInv, onCreate \/ sendReply \/ SaveEdit \/ MessageItem \/ ThreadView
    PROVE  CommentInv'
<1>0. /\ ThreadsTyped /\ CommentsTyped /\ PanelTyped /\ StoryTyped /\ RoomInv /\ EditTargets /\ MentionInv
      /\ AnchorInv
  BY DEF CommentInv, CommentTyped
<1>1. /\ DOMAIN boxes = 0..MaxThreads /\ Composer \in DOMAIN boxes /\ commentLeft \in CommentBudgets
      /\ \A b \in DOMAIN boxes : boxes[b] \in Nat
      /\ draft \in Passages /\ editing \in Edits
  BY <1>0, CommentAssumption DEF PanelTyped, StoryTyped, Composer
<1>l. comments.list \in Lists /\ threads \in Lists
  BY <1>0, CommentsParts DEF ThreadsTyped
<1>w. ASSUME NEW kind \in {"create", "reply", "edit", "remove", "resolve"}, NEW n \in Nat
      PROVE  /\ Write(kind, n) \in Writes /\ Write(kind, n).at = "asked" /\ Write(kind, n).kind = kind
             /\ Write(kind, n).thread = n
  BY DEF Write, Writes, NoDraft, Passages
<1>2. CASE onCreate
  <2>1. PICK picked \in MentionTextarea :
          Mutate([Write("create", Composer) EXCEPT !.text = boxes[Composer], !.passage = draft, !.names = picked])
    BY <1>2 DEF onCreate
  <2>2. picked \in SUBSET Name
    BY <2>1 DEF MentionTextarea
  <2>3. PICK w : w = [Write("create", Composer) EXCEPT !.text = boxes[Composer], !.passage = draft, !.names = picked]
    OBVIOUS
  <2>4. Composer \in Nat
    BY DEF Composer
  <2>5. /\ w \in Writes /\ w.at = "asked" /\ w.kind = "create" /\ w.thread = Composer /\ w.text = boxes[Composer]
        /\ w.passage = draft
    BY <2>2, <2>3, <2>4, <1>1, <1>w DEF Write, Writes
  <2>6. /\ draft # NoDraft /\ boxes[Composer] # 0 /\ ~Pending("create", Composer)
        /\ CommentSpend("presses") /\ Room /\ UNCHANGED <<boxes, editing>>
    BY <1>2 DEF onCreate, KeepsText
  <2>7. Len(threads) < MaxThreads
    BY <2>6, <1>l, ThreadParts DEF Room
  <2>8. commentLeft' \in CommentBudgets
    BY <2>6, <1>1, SpendTyped
  <2> QED
    BY <2>1, <2>3, <2>5, <2>6, <2>7, <2>8, <1>1, MutateKeeps
<1>3. CASE sendReply
  <2>1. PICK n \in ReplyShown(comments.list, review) :
          /\ boxes[n] # 0 /\ CommentSpend("presses")
          /\ Mutate([Write("reply", n) EXCEPT !.text = boxes[n]]) /\ boxes' = KeepsText(n)
    BY <1>3 DEF sendReply
  <2>2. n \in Present(comments.list)
    BY DEF ReplyShown, orderThreads
  <2>3. n \in DOMAIN boxes /\ n \in Nat
    BY <2>2, ShownFacts
  <2>4. PICK w : w = [Write("reply", n) EXCEPT !.text = boxes[n]]
    OBVIOUS
  <2>5. w \in Writes /\ w.at = "asked" /\ w.kind = "reply" /\ w.thread = n /\ w.text = boxes[n]
    BY <2>3, <2>4, <1>1, <1>w DEF Write, Writes
  <2>6. UNCHANGED <<boxes, editing>>
    BY <1>3, <2>1 DEF sendReply, KeepsText
  <2>7. commentLeft' \in CommentBudgets
    BY <2>1, <1>1, SpendTyped
  <2> QED
    BY <2>1, <2>3, <2>4, <2>5, <2>6, <2>7, MutateKeeps
<1>4. CASE SaveEdit
  <2> DEFINE n == editing.thread
             m == editing.msg
             names == mentionIds(comments.list[n].msgs[m].names, editing.picked)
  <2>1. /\ editing # NoEdit /\ ~Pending("edit", n)
        /\ Mutate([Write("edit", n) EXCEPT !.msg = m, !.known = editing.known, !.names = names])
        /\ UNCHANGED <<boxes, editing, commentLeft>>
    BY <1>4 DEF SaveEdit
  <2>2. n \in Present(comments.list) /\ m \in DOMAIN comments.list[n].msgs
    BY <2>1, <1>0 DEF EditTargets
  <2>3. /\ n \in Nat /\ n \in DOMAIN threads /\ comments.loaded /\ n \in DOMAIN comments.list
        /\ m \in Nat /\ m \in DOMAIN threads[n].msgs
        /\ SameMessage(comments.list[n].msgs[m], threads[n].msgs[m])
    BY <2>2, ShownFacts
  <2>4. comments.list[n].msgs[m] \in CommentMessages
    BY <2>2, <2>3, <1>l, ThreadParts
  <2>5. comments.list[n].msgs[m].names \in SUBSET Name /\ comments.list[n].msgs[m].names = threads[n].msgs[m].names
    BY <2>3, <2>4 DEF CommentMessages, SameMessage
  <2>6. names \in SUBSET Name /\ names = threads[n].msgs[m].names \cap editing.picked
    BY <2>5 DEF mentionIds
  <2>k. editing.known \in BOOLEAN
    BY <1>1 DEF Edits
  <2>7. editing.known => Mentions(n, m) \subseteq names
    BY <2>1, <1>0, <2>3, <2>6 DEF Pending, EditDone, MentionInv, Named, Mentions
  <2>8. PICK w : w = [Write("edit", n) EXCEPT !.msg = m, !.known = editing.known, !.names = names]
    OBVIOUS
  <2> HIDE DEF n, m, names
  <2>9. /\ w \in Writes /\ w.at = "asked" /\ w.kind = "edit" /\ w.thread = n /\ w.msg = m /\ w.names = names
        /\ w.known = editing.known
    BY <2>3, <2>6, <2>8, <2>k, <1>w DEF Write, Writes
  <2>10. /\ w.kind = "edit" => /\ ~Pending("edit", w.thread)
                               /\ w.names \subseteq threads[w.thread].msgs[w.msg].names
                               /\ w.known => Mentions(w.thread, w.msg) \subseteq w.names
         /\ w.kind # "create" /\ w.kind # "reply"
    BY <2>1, <2>6, <2>7, <2>9
  <2> QED
    BY <2>1, <2>3, <2>8, <2>9, <2>10, <1>1, MutateKeeps
<1>5. CASE MessageItem
  <2>1. PICK n \in orderThreads(comments.list, review) : \E m \in DOMAIN comments.list[n].msgs :
          Own(n, m) /\ ~Pending("remove", n) /\ Mutate([Write("remove", n) EXCEPT !.msg = m])
    BY <1>5 DEF MessageItem
  <2>2. PICK m \in DOMAIN comments.list[n].msgs : Mutate([Write("remove", n) EXCEPT !.msg = m])
    BY <2>1
  <2>3. n \in Present(comments.list)
    BY DEF orderThreads
  <2>4. n \in Nat /\ n \in DOMAIN threads /\ comments.loaded /\ m \in Nat /\ m \in DOMAIN threads[n].msgs
    BY <2>3, ShownFacts
  <2>5. PICK w : w = [Write("remove", n) EXCEPT !.msg = m]
    OBVIOUS
  <2>6. w \in Writes /\ w.at = "asked" /\ w.kind = "remove" /\ w.thread = n /\ w.msg = m
    BY <2>4, <2>5, <1>w DEF Write, Writes
  <2>7. UNCHANGED <<boxes, editing>> /\ CommentSpend("removes")
    BY <1>5 DEF MessageItem
  <2>8. commentLeft' \in CommentBudgets
    BY <2>7, <1>1, SpendTyped
  <2>9. w.kind # "create" /\ w.kind # "reply" /\ w.kind # "edit"
    BY <2>6
  <2> QED
    BY <2>2, <2>4, <2>5, <2>6, <2>7, <2>8, <2>9, MutateKeeps
<1>6. CASE ThreadView
  <2>1. PICK n \in orderThreads(comments.list, review) :
          ~Pending("resolve", n) /\ Mutate([Write("resolve", n) EXCEPT !.to = ~comments.list[n].resolved])
    BY <1>6 DEF ThreadView
  <2>3. n \in Present(comments.list)
    BY DEF orderThreads
  <2>4. n \in Nat
    BY <2>3, ShownFacts
  <2>5. PICK w : w = [Write("resolve", n) EXCEPT !.to = ~comments.list[n].resolved]
    OBVIOUS
  <2>6. w \in Writes /\ w.at = "asked" /\ w.kind = "resolve"
    BY <2>4, <2>5, <1>w DEF Write, Writes
  <2>7. UNCHANGED <<boxes, editing>> /\ CommentSpend("presses")
    BY <1>6 DEF ThreadView
  <2>8. commentLeft' \in CommentBudgets
    BY <2>7, <1>1, SpendTyped
  <2>9. w.kind # "create" /\ w.kind # "reply" /\ w.kind # "edit" /\ w.kind # "remove"
    BY <2>6
  <2> QED
    BY <2>1, <2>5, <2>6, <2>7, <2>8, <2>9, MutateKeeps
<1> QED
  BY <1>2, <1>3, <1>4, <1>5, <1>6

\* The editor of a message opens.
LEMMA EditorKeeps ==
    ASSUME CommentInv, MessageEditor
    PROVE  CommentInv'
<1>0. /\ ChannelTyped /\ DocTyped /\ ThreadsTyped /\ CommentsTyped /\ PanelTyped /\ WritesTyped /\ StoryTyped
      /\ EditTargets /\ MentionInv
  BY DEF CommentInv, CommentTyped
<1>1. PICK n \in orderThreads(comments.list, review) : \E m \in DOMAIN comments.list[n].msgs :
        /\ Own(n, m)
        /\ editing' = [thread |-> n, msg |-> m, picked |-> PickedAgain(comments.list[n].msgs[m]),
                       known |-> review.members /\ comments.fetch = "none"]
  BY DEF MessageEditor
<1>2. PICK m \in DOMAIN comments.list[n].msgs :
        editing' = [thread |-> n, msg |-> m, picked |-> PickedAgain(comments.list[n].msgs[m]),
                    known |-> review.members /\ comments.fetch = "none"]
  BY <1>1
<1>3. /\ UNCHANGED <<stream, outbox, ydoc, threads, comments, review, draft, boxes, writes, typed, thrown, overlooked>>
      /\ CommentSpend("edits")
  BY DEF MessageEditor, eventVars
<1>4. n \in Present(comments.list)
  BY DEF orderThreads
<1>5. /\ n \in Nat /\ m \in Nat /\ n \in DOMAIN comments.list
      /\ comments.list \in Lists /\ comments.list[n].msgs[m] \in CommentMessages
  BY <1>0, <1>4, ShownFacts, CommentsParts, ThreadParts
<1>6. comments.list[n].msgs[m].mentions \in SUBSET Name
  BY <1>5 DEF CommentMessages
<1>7. /\ PickedAgain(comments.list[n].msgs[m]) \in SUBSET Name
      /\ review.members => PickedAgain(comments.list[n].msgs[m]) = comments.list[n].msgs[m].mentions
  BY <1>6 DEF PickedAgain
<1>8. /\ editing'.thread = n /\ editing'.msg = m /\ editing'.picked = PickedAgain(comments.list[n].msgs[m])
      /\ editing'.known => review.members /\ comments.fetch = "none"
  BY <1>2
<1>9. editing' \in Edits
  BY <1>2, <1>5, <1>7 DEF Edits
<1>10. commentLeft' \in CommentBudgets
  BY <1>0, <1>3, SpendTyped DEF StoryTyped
<1>11. CommentTyped'
  BY <1>0, <1>3, <1>9, <1>10 DEF CommentTyped, ChannelTyped, DocTyped, ThreadsTyped, CommentsTyped, PanelTyped,
                    WritesTyped, StoryTyped
<1>12. AnchorInv' /\ AllOlder' /\ Current' /\ RoomInv'
  BY <1>3, Zenon DEF CommentInv, AnchorInv, Anchored, Held, AllOlder, Current, RoomInv
<1>13. BoxInv'
  BY <1>3, Zenon DEF CommentInv, BoxInv, Somewhere, Told
<1>14. EditTargets'
  BY <1>4, <1>8, <1>0, <1>3 DEF EditTargets
<1>15. MentionInv'
  BY <1>3, <1>0, <1>5, <1>7, <1>8 DEF EditDone, Mentions, Shows, MentionInv
<1> QED
  BY <1>11, <1>12, <1>13, <1>14, <1>15 DEF CommentInv

\* Others type: characters come and go, and the anchors hold.
LEMMA OthersTypeKeeps ==
    ASSUME CommentInv, OthersType
    PROVE  CommentInv'
<1>0. /\ ChannelTyped /\ DocTyped /\ ThreadsTyped /\ CommentsTyped /\ PanelTyped /\ WritesTyped /\ StoryTyped
      /\ DocOK(ydoc) /\ Anchored
  BY DEF CommentInv, CommentTyped, AnchorInv
<1>1. /\ UNCHANGED <<stream, outbox, threads, comments, review, draft, boxes, editing, writes, typed, thrown, overlooked>>
      /\ CommentSpend("typing")
  BY DEF OthersType, eventVars, panelVars
<1>l. Len(Live) \in Nat /\ Len(ydoc) \in Nat /\ DOMAIN ydoc = 1..Len(ydoc)
  BY <1>0, LivePlaced, LiveFacts DEF DocOK
<1>p. \A i \in 1..Len(Live) : Place(Live[i].id) \in DOMAIN ydoc
  BY <1>0, LivePlaced, LiveFacts, Zenon DEF Place, PlaceIn
<1>2. DocOK(ydoc') /\ Keeps(ydoc, ydoc')
  <2>1. ASSUME NEW at \in 0..Len(Live), Insert(at) PROVE DocOK(ydoc') /\ Keeps(ydoc, ydoc')
    <3> DEFINE p == IF at = Len(Live) THEN Len(ydoc) ELSE Place(Live[at + 1].id) - 1
    <3>1. p + 1 \in 1..Len(ydoc) + 1
      BY <1>l, <1>p
    <3>2. ydoc' = InsertAt(ydoc, p + 1, [id |-> Len(ydoc) + 1, gone |-> FALSE])
      BY <2>1 DEF Insert
    <3> HIDE DEF p
    <3> QED
      BY <3>1, <3>2, <1>0, InsertKeeps
  <2>2. ASSUME NEW i \in 1..Len(Live), Erase(i) PROVE DocOK(ydoc') /\ Keeps(ydoc, ydoc')
    BY <2>2, <1>0, <1>p, EraseKeeps DEF Erase
  <2> QED
    BY <2>1, <2>2 DEF OthersType
<1>3. \A a : Held(a) => HeldIn(ydoc', a)
  BY <1>0, <1>2, HeldStays DEF Held
<1>4. commentLeft' \in CommentBudgets
  BY <1>0, <1>1, SpendTyped DEF StoryTyped
<1>5. CommentTyped'
  BY <1>0, <1>1, <1>2, <1>4 DEF CommentTyped, ChannelTyped, DocTyped, ThreadsTyped, CommentsTyped, PanelTyped,
                                WritesTyped, StoryTyped, DocOK
<1>6. AnchorInv'
  BY <1>0, <1>3, <1>1, <1>2 DEF Anchored, AnchorInv, Held
<1>7. AllOlder' /\ Current' /\ RoomInv'
  BY <1>1, Zenon DEF CommentInv, AllOlder, Current, RoomInv
<1>8. BoxInv'
  BY <1>1, Zenon DEF CommentInv, BoxInv, Somewhere, Told
<1>9. EditTargets' /\ MentionInv'
  BY <1>1, Zenon DEF CommentInv, EditTargets, MentionInv, Shows, EditDone, Mentions
<1> QED
  BY <1>5, <1>6, <1>7, <1>8, <1>9 DEF CommentInv

-----------------------------------------------------------------------------
(* The server's writes.                                                    *)

\* A write of the server, and the mutation it answers.
LEMMA ServerKeeps ==
    ASSUME CommentInv, UNCHANGED <<stream, ydoc, comments, panelVars, typed, thrown, overlooked>>,
           commentLeft' \in CommentBudgets, outbox' \subseteq Frames,
           (threads' = threads /\ outbox \subseteq outbox') \/ outbox' # {},
           threads' \in Lists, Older(threads, threads'), Named(threads'), Len(threads') <= MaxThreads,
           \A n \in DOMAIN threads' : threads'[n].doc = "main" => HeldIn(ydoc, threads'[n]),
           writes' \subseteq Writes,
           \A w \in writes' : w.kind = "create" =>
               /\ w.passage.doc = "main" /\ HeldIn(ydoc, w.passage) /\ w.thread = Composer
               /\ w.at = "asked" => Len(threads') < MaxThreads,
           \A v, w \in writes' : v.kind = "create" /\ w.kind = "create" => v = w,
           \A w \in writes' : w.kind \in {"create", "reply"} =>
               w.thread \in DOMAIN boxes /\ w.text # 0 /\ (w.at = "done" => ToldIn(threads', w.text)),
           \A w \in writes' : w.kind \in {"edit", "remove"} =>
               /\ w.thread \in DOMAIN threads /\ w.msg \in DOMAIN threads[w.thread].msgs /\ comments.loaded
               /\ w.kind = "edit" => w.names \subseteq threads[w.thread].msgs[w.msg].names,
           \A v, w \in writes' : v.kind = "edit" /\ w.kind = "edit" /\ v.thread = w.thread => v = w,
           \A w \in writes' : w.kind = "edit" /\ w.at = "asked" /\ w.known =>
               threads'[w.thread].msgs[w.msg].mentions \subseteq w.names,
           \A n \in DOMAIN threads :
               /\ EditDone(n) => EditDone(n)'
               /\ \A m \in DOMAIN threads[n].msgs :
                    threads'[n].msgs[m].mentions = threads[n].msgs[m].mentions \/ EditDone(n)'
    PROVE  CommentInv'
<1>0. /\ ChannelTyped /\ DocTyped /\ ThreadsTyped /\ CommentsTyped /\ PanelTyped /\ WritesTyped /\ StoryTyped
      /\ DocOK(ydoc) /\ Anchored /\ AllOlder /\ Current /\ BoxInv /\ EditTargets /\ MentionInv
  BY DEF CommentInv, CommentTyped, AnchorInv
<1>1. UNCHANGED <<review, draft, boxes, editing>>
  BY DEF panelVars
<1>t. threads \in Lists /\ comments.list \in Lists /\ comments.got \in Lists
  BY <1>0, CommentsParts DEF ThreadsTyped
<1>2. CommentTyped'
  BY <1>0, <1>1 DEF CommentTyped, ChannelTyped, DocTyped, ThreadsTyped, CommentsTyped, PanelTyped,
                    WritesTyped, StoryTyped
<1>3. AnchorInv'
  BY <1>0, <1>1 DEF AnchorInv, Anchored, Held
<1>4. AllOlder'
  BY <1>0, <1>t, OlderTrans DEF AllOlder
<1>5. Current'
  BY <1>0 DEF Current
<1>6. RoomInv'
  BY DEF RoomInv
<1>7. BoxInv'
  BY <1>t, OlderTold, <1>0, <1>1 DEF Told, BoxInv, Somewhere
<1>h. \A n \in DOMAIN threads : \A m \in DOMAIN threads[n].msgs :
        /\ n \in DOMAIN threads' /\ m \in DOMAIN threads'[n].msgs
        /\ threads'[n].msgs[m].names = threads[n].msgs[m].names
  BY <1>t, OlderHas DEF SameMessage
<1>8. EditTargets'
  BY <1>h, <1>0, <1>1 DEF EditTargets
<1>9. MentionInv'
  <2>1. \A n \in DOMAIN threads : \A m \in DOMAIN threads[n].msgs :
          (Mentions(n, m)' = Mentions(n, m) \/ EditDone(n)') /\ (EditDone(n) => EditDone(n)')
    BY DEF Mentions
  <2>2. ASSUME NEW list \in Lists, Older(list, threads), Shows(list)
        PROVE  \A n \in DOMAIN list : \A m \in DOMAIN list[n].msgs :
                 Mentions(n, m)' \subseteq list[n].msgs[m].mentions \/ EditDone(n)'
    BY <1>t, <2>2, OlderHas, <2>1 DEF Shows
  <2>3. comments'.fetch = "none" => Shows(comments.list)'
    BY <1>0, <2>2, <1>t DEF MentionInv, AllOlder, Shows
  <2>4. comments'.fetch = "read" => Shows(comments.got)'
    BY <1>0, <2>2, <1>t DEF MentionInv, AllOlder, Shows
  <2>5. editing # NoEdit /\ editing.known =>
          Mentions(editing.thread, editing.msg)' \subseteq editing.picked \/ EditDone(editing.thread)'
    BY <1>0, ShownFacts, <2>1, <1>1 DEF EditTargets, MentionInv
  <2>6. \A w \in writes' : w.kind = "edit" /\ w.at = "asked" /\ w.known => Mentions(w.thread, w.msg)' \subseteq w.names
    BY DEF Mentions
  <2>7. Named(threads)'
    OBVIOUS
  <2> QED
    BY <2>3, <2>4, <2>5, <2>6, <2>7, <1>1 DEF MentionInv
<1> QED
  BY <1>2, <1>3, <1>4, <1>5, <1>6, <1>7, <1>8, <1>9 DEF CommentInv

\* Anchors hold in what the threads have become.
LEMMA HeldLater ==
    ASSUME Anchored, threads \in Lists, NEW after \in Lists, Older(threads, after)
    PROVE  \A n \in DOMAIN threads : after[n].doc = "main" => HeldIn(ydoc, after[n])
  BY OlderHas DEF Continues, Anchored, Held, HeldIn

\* A write that tells of itself.
LEMMA EmitFacts ==
    ASSUME ChannelTyped, NEW type \in PROJECT_EVENT_TYPES, Emit(type)
    PROVE  outbox' \subseteq Frames /\ outbox' # {}
<1>1. Event(type, 0) \in Frames
  BY DEF Event, Frames
<1>2. outbox' = outbox \cup {Event(type, 0)}
  BY DEF Emit, schedule_project_event
<1> QED
  BY <1>1, <1>2 DEF ChannelTyped

\* A message as it is first written.
LEMMA MessageTyped ==
    ASSUME NEW mine \in BOOLEAN, NEW text \in Nat, NEW names \in SUBSET Name
    PROVE  /\ Message(mine, text, names) \in CommentMessages /\ Message(mine, text, names).text = text
           /\ Message(mine, text, names).mentions \subseteq Message(mine, text, names).names
  BY DEF Message, CommentMessages

\* The threads after a write: what is anchored in the text, and what the channel is told.
ServerWrote ==
    /\ Written(threads, threads')
    /\ \A n \in DOMAIN threads' : threads'[n].doc = "main" => HeldIn(ydoc, threads'[n])
    /\ outbox' \subseteq Frames /\ (outbox' # {} \/ (threads' = threads /\ outbox' = outbox))

\* A thread is created.
LEMMA CreateFacts ==
    ASSUME CommentInv, NEW passage \in Passages, passage.doc = "main", HeldIn(ydoc, passage),
           NEW c \in CommentMessages, c.mentions \subseteq c.names, create_thread(passage, c)
    PROVE  ServerWrote /\ Len(threads') = Len(threads) + 1 /\ ToldIn(threads', c.text)
<1>0. ChannelTyped /\ threads \in Lists /\ Anchored
  BY DEF CommentInv, CommentTyped, ThreadsTyped, AnchorInv
<1>1. threads' = Append(threads, Thread(passage, c)) /\ Emit("comment.thread_created")
  BY DEF create_thread
<1>2. PICK t : t = Thread(passage, c)
  OBVIOUS
<1>3. t \in Threads
  BY <1>2 DEF Thread, Threads, Passages
<1>4. t.msgs = <<c>> /\ t.start = passage.start /\ t.end = passage.end /\ t.quote = passage.quote
  BY <1>2 DEF Thread
<1>5. /\ Written(threads, threads') /\ Len(threads') = Len(threads) + 1 /\ ToldIn(threads', c.text)
      /\ \A n \in DOMAIN threads' : (n \in DOMAIN threads /\ threads'[n] = threads[n]) \/ threads'[n] = t
  BY <1>0, <1>1, <1>2, <1>3, <1>4, ThreadAdded
<1>6. HeldIn(ydoc, t)
  BY <1>4, Zenon DEF HeldIn
<1>7. \A n \in DOMAIN threads' : threads'[n].doc = "main" => HeldIn(ydoc, threads'[n])
  BY <1>0, <1>5, <1>6 DEF Anchored, Held
<1>8. outbox' \subseteq Frames /\ outbox' # {}
  BY <1>0, <1>1, EmitFacts DEF PROJECT_EVENT_TYPES
<1> QED
  BY <1>5, <1>7, <1>8 DEF ServerWrote

\* The threads stay as many as they were.
LEMMA SameThreads ==
    ASSUME CommentInv, Written(threads, threads'), DOMAIN threads' = DOMAIN threads, outbox' \subseteq Frames,
           outbox' # {} \/ (threads' = threads /\ outbox' = outbox)
    PROVE  ServerWrote
  BY HeldLater DEF CommentInv, CommentTyped, ThreadsTyped, AnchorInv, Written, ServerWrote

\* A reply is written.
LEMMA ReplyFacts ==
    ASSUME CommentInv, NEW n \in Present(threads), NEW c \in CommentMessages, c.mentions \subseteq c.names,
           add_reply(n, c)
    PROVE  ServerWrote /\ Len(threads') = Len(threads) /\ ToldIn(threads', c.text)
  BY MessageAdded, EmitFacts, SameThreads DEF CommentInv, CommentTyped, ThreadsTyped, add_reply,
     Present, PROJECT_EVENT_TYPES

\* A message is deleted.
LEMMA DeleteFacts ==
    ASSUME CommentInv, NEW n \in DOMAIN threads, NEW m \in DOMAIN threads[n].msgs, delete_comment(n, m)
    PROVE  ServerWrote /\ Len(threads') = Len(threads)
  BY MessageGone, EmitFacts, SameThreads DEF CommentInv, CommentTyped, ThreadsTyped, delete_comment,
     PROJECT_EVENT_TYPES

\* Nothing is written.
LEMMA NothingWritten ==
    ASSUME CommentInv, UNCHANGED <<threads, outbox>>
    PROVE  ServerWrote /\ Len(threads') = Len(threads)
  BY OlderSelf, SameThreads DEF CommentInv, CommentTyped, ThreadsTyped, ChannelTyped, SameMentions,
     Written

\* A thread is resolved or opened again, or is so already.
LEMMA ResolveFacts ==
    ASSUME CommentInv, NEW n \in Present(threads), NEW resolved \in BOOLEAN, set_resolved(n, resolved)
    PROVE  ServerWrote /\ Len(threads') = Len(threads)
  BY NothingWritten, ThreadResolved, EmitFacts, SameThreads DEF CommentInv, CommentTyped, ThreadsTyped,
     Present, set_resolved, PROJECT_EVENT_TYPES

\* Another member comments, replies, deletes, resolves.
LEMMA OthersCommentKeeps ==
    ASSUME CommentInv, OthersComment
    PROVE  CommentInv'
<1>0. /\ StoryTyped /\ RoomInv /\ BoxInv /\ EditTargets /\ MentionInv /\ Anchored /\ WritesTyped /\ DocOK(ydoc)
      /\ threads \in Lists
  BY DEF CommentInv, CommentTyped, AnchorInv, ThreadsTyped
<1>c. /\ Message(FALSE, 0, {}) \in CommentMessages
      /\ Message(FALSE, 0, {}).mentions \subseteq Message(FALSE, 0, {}).names
  BY MessageTyped
<1>n. Len(threads) \in Nat /\ MaxThreads \in Nat
  BY <1>0, ThreadParts, CommentAssumption
<1>1. /\ ServerWrote
      /\ \/ Len(threads') = Len(threads)
         \/ Len(threads') = Len(threads) + 1 /\ Room
  BY <1>0, PassageHeld, <1>c, CreateFacts, ResolveFacts, ReplyFacts, DeleteFacts DEF Held, Present,
     OthersComment
<1>2. UNCHANGED <<stream, ydoc, comments, panelVars, writes, typed, thrown, overlooked>> /\ CommentSpend("others")
  BY DEF OthersComment
<1>3. commentLeft' \in CommentBudgets
  BY <1>0, <1>2, SpendTyped DEF StoryTyped
<1>4. /\ Older(threads, threads') /\ threads' \in Lists /\ Named(threads') /\ SameMentions(threads, threads')
      /\ \A n \in DOMAIN threads' : threads'[n].doc = "main" => HeldIn(ydoc, threads'[n])
      /\ outbox' \subseteq Frames /\ (outbox' # {} \/ (threads' = threads /\ outbox' = outbox))
  BY <1>0, <1>1 DEF ServerWrote, Written, MentionInv
<1>5. /\ Len(threads') <= MaxThreads
      /\ \A w \in writes : w.kind = "create" /\ w.at = "asked" => Len(threads') < MaxThreads
  BY <1>0, <1>n, <1>1 DEF RoomInv, Room, Pending
<1>6. \A w \in writes' : w.kind \in {"create", "reply"} =>
        w.thread \in DOMAIN boxes /\ w.text # 0 /\ (w.at = "done" => ToldIn(threads', w.text))
  BY <1>0, <1>4, OlderTold, <1>2 DEF Told, BoxInv
<1>7. \A w \in writes' : w.kind \in {"edit", "remove"} =>
        /\ w.thread \in DOMAIN threads /\ w.msg \in DOMAIN threads[w.thread].msgs /\ comments.loaded
        /\ w.kind = "edit" => w.names \subseteq threads[w.thread].msgs[w.msg].names
  BY <1>0, <1>2 DEF EditTargets
<1>8. \A v, w \in writes' : v.kind = "edit" /\ w.kind = "edit" /\ v.thread = w.thread => v = w
  BY <1>0, <1>2 DEF EditTargets
<1>9. \A n \in DOMAIN threads :
        /\ EditDone(n) => EditDone(n)'
        /\ \A m \in DOMAIN threads[n].msgs :
             threads'[n].msgs[m].mentions = threads[n].msgs[m].mentions \/ EditDone(n)'
  BY <1>2, <1>4 DEF EditDone, SameMentions
<1>10. \A w \in writes' : w.kind = "edit" /\ w.at = "asked" /\ w.known =>
         threads'[w.thread].msgs[w.msg].mentions \subseteq w.names
  BY <1>2, <1>0, <1>4 DEF EditTargets, MentionInv, SameMentions, Mentions
<1>11. \A w \in writes' : w.kind = "create" =>
         /\ w.passage.doc = "main" /\ HeldIn(ydoc, w.passage) /\ w.thread = Composer
         /\ w.at = "asked" => Len(threads') < MaxThreads
  BY <1>0, <1>2, <1>5 DEF Anchored, Held, RoomInv
<1>12. \A v, w \in writes' : v.kind = "create" /\ w.kind = "create" => v = w
  BY <1>0, <1>2 DEF RoomInv
<1>13. writes' \subseteq Writes /\ ((threads' = threads /\ outbox \subseteq outbox') \/ outbox' # {})
  BY <1>0, <1>2, <1>4 DEF WritesTyped
<1> QED
  BY <1>2, <1>3, <1>4, <1>5, <1>6, <1>7, <1>8, <1>9, <1>10, <1>11, <1>12, <1>13, ServerKeeps

\* A mutation gets its answer from the server, or does not reach it.
LEMMA AnsweredFacts ==
    ASSUME CommentInv, NEW w \in writes, w.at = "asked", NEW at \in {"done", "failed"},
           NEW v, v = [w EXCEPT !.at = at], writes' = (writes \ {w}) \cup {v}
    PROVE  /\ v \in Writes /\ v.at = at /\ v.kind = w.kind /\ v.thread = w.thread /\ v.msg = w.msg
           /\ v.names = w.names /\ v.text = w.text /\ v.passage = w.passage
           /\ writes' \subseteq Writes
           /\ \A x, y \in writes' : x.kind = "create" /\ y.kind = "create" => x = y
           /\ \A x, y \in writes' : x.kind = "edit" /\ y.kind = "edit" /\ x.thread = y.thread => x = y
           /\ \A n : EditDone(n) => EditDone(n)'
<1>0. w \in Writes /\ writes \subseteq Writes /\ RoomInv /\ EditTargets
  BY DEF CommentInv, CommentTyped, WritesTyped
<1>1. /\ v \in Writes /\ v.at = at /\ v.kind = w.kind /\ v.thread = w.thread /\ v.msg = w.msg
      /\ v.names = w.names /\ v.text = w.text /\ v.passage = w.passage
  BY <1>0 DEF Writes
<1>2. writes' \subseteq Writes
  BY <1>0, <1>1
<1>e. \A x \in writes' : x = v \/ (x \in writes /\ x # w)
  OBVIOUS
<1>3. \A x, y \in writes' : x.kind = "create" /\ y.kind = "create" => x = y
  <2>1. \A x, y \in writes : x.kind = "create" /\ y.kind = "create" => x = y
    BY <1>0 DEF RoomInv
  <2> SUFFICES ASSUME NEW x \in writes', NEW y \in writes', x.kind = "create", y.kind = "create" PROVE x = y
    OBVIOUS
  <2>2. x = v \/ (x \in writes /\ x # w /\ w.kind # "create")
    BY <1>e, <2>1
  <2>3. y = v \/ (y \in writes /\ y # w /\ w.kind # "create")
    BY <1>e, <2>1
  <2> QED
    BY <1>1, <2>1, <2>2, <2>3
<1>4. \A x, y \in writes' : x.kind = "edit" /\ y.kind = "edit" /\ x.thread = y.thread => x = y
  <2>1. \A x, y \in writes : x.kind = "edit" /\ y.kind = "edit" /\ x.thread = y.thread => x = y
    BY <1>0 DEF EditTargets
  <2> SUFFICES ASSUME NEW x \in writes', NEW y \in writes', x.kind = "edit", y.kind = "edit", x.thread = y.thread
               PROVE  x = y
    OBVIOUS
  <2>2. x = v \/ (x \in writes /\ ~(w.kind = "edit" /\ w.thread = x.thread))
    BY <1>e, <2>1
  <2>3. y = v \/ (y \in writes /\ ~(w.kind = "edit" /\ w.thread = y.thread))
    BY <1>e, <2>1
  <2> QED
    BY <1>1, <2>1, <2>2, <2>3
<1>5. ASSUME NEW n, EditDone(n) PROVE EditDone(n)'
  BY <1>5 DEF EditDone
<1> QED
  BY <1>1, <1>2, <1>3, <1>4, <1>5

\* The server takes a mutation, or it fails.
LEMMA RequestKeeps ==
    ASSUME CommentInv, CommentRequest
    PROVE  CommentInv'
<1>0. /\ StoryTyped /\ RoomInv /\ BoxInv /\ EditTargets /\ MentionInv /\ Anchored /\ WritesTyped /\ ChannelTyped
      /\ threads \in Lists /\ MaxThreads \in Nat /\ Len(threads) \in Nat
  BY ThreadParts, CommentAssumption DEF CommentInv, CommentTyped, AnchorInv, ThreadsTyped
<1>1. PICK w \in writes :
        /\ w.at = "asked"
        /\ \/ Taken(w) /\ writes' = (writes \ {w}) \cup {[w EXCEPT !.at = "done"]} /\ UNCHANGED commentLeft
           \/ /\ (IF Refused(w) THEN UNCHANGED commentLeft ELSE CommentSpend("faults"))
              /\ writes' = (writes \ {w}) \cup {[w EXCEPT !.at = "failed"]}
              /\ UNCHANGED <<threads, outbox>>
  BY DEF CommentRequest
<1>2. UNCHANGED <<stream, ydoc, comments, panelVars, typed, thrown, overlooked>>
  BY DEF CommentRequest
<1>3. commentLeft' \in CommentBudgets
  BY <1>0, <1>1, SpendTyped DEF StoryTyped
<1>4. PICK at \in {"done", "failed"} :
        /\ writes' = (writes \ {w}) \cup {[w EXCEPT !.at = at]}
        /\ at = "done" => Taken(w)
        /\ at = "failed" => UNCHANGED <<threads, outbox>>
  BY <1>1
<1>5. PICK v : v = [w EXCEPT !.at = at]
  OBVIOUS
<1>6. writes' = (writes \ {w}) \cup {v}
  BY <1>4, <1>5
<1>7. /\ v \in Writes /\ v.at = at /\ v.kind = w.kind /\ v.thread = w.thread /\ v.msg = w.msg
      /\ v.names = w.names /\ v.text = w.text /\ v.passage = w.passage
      /\ writes' \subseteq Writes
      /\ \A x, y \in writes' : x.kind = "create" /\ y.kind = "create" => x = y
      /\ \A x, y \in writes' : x.kind = "edit" /\ y.kind = "edit" /\ x.thread = y.thread => x = y
      /\ \A n : EditDone(n) => EditDone(n)'
  BY <1>1, <1>5, <1>6, AnsweredFacts
<1>w. /\ w \in Writes /\ w.kind \in {"create", "reply", "edit", "remove", "resolve"} /\ w.text \in Nat
      /\ w.names \in SUBSET Name /\ w.passage \in Passages /\ w.to \in BOOLEAN
  BY <1>0 DEF WritesTyped, Writes
<1>m. /\ Message(TRUE, w.text, w.names) \in CommentMessages /\ Message(TRUE, w.text, w.names).text = w.text
      /\ Message(TRUE, w.text, w.names).mentions \subseteq Message(TRUE, w.text, w.names).names
  BY <1>w, MessageTyped
<1>n. at # "asked"
  OBVIOUS
\* What the request did to the threads.
<1>8. /\ threads' \in Lists /\ Older(threads, threads') /\ Named(threads')
      /\ \A n \in DOMAIN threads' : threads'[n].doc = "main" => HeldIn(ydoc, threads'[n])
      /\ outbox' \subseteq Frames /\ (outbox' # {} \/ (threads' = threads /\ outbox' = outbox))
      /\ Len(threads') = (IF w.kind = "create" /\ at = "done" THEN Len(threads) + 1 ELSE Len(threads))
      /\ w.kind \in {"create", "reply"} /\ at = "done" => ToldIn(threads', w.text)
      /\ \A n \in DOMAIN threads : \A m \in DOMAIN threads[n].msgs :
           \/ threads'[n].msgs[m].mentions = threads[n].msgs[m].mentions
           \/ w.kind = "edit" /\ at = "done" /\ n = w.thread
  <2>1. ASSUME ServerWrote
        PROVE  /\ threads' \in Lists /\ Older(threads, threads') /\ Named(threads')
               /\ \A n \in DOMAIN threads' : threads'[n].doc = "main" => HeldIn(ydoc, threads'[n])
               /\ outbox' \subseteq Frames /\ (outbox' # {} \/ (threads' = threads /\ outbox' = outbox))
               /\ \A n \in DOMAIN threads : \A m \in DOMAIN threads[n].msgs :
                    threads'[n].msgs[m].mentions = threads[n].msgs[m].mentions
    BY <2>1, <1>0 DEF ServerWrote, Written, MentionInv, SameMentions
  <2>2. CASE at = "failed"
    BY <2>2, <1>4, NothingWritten, <2>1
  <2>3. CASE at = "done" /\ w.kind = "create"
    BY <2>3, <1>4, <1>0, <1>w, <1>m, CreateFacts, <2>1 DEF Taken, Anchored, Held
  <2>4. CASE at = "done" /\ w.kind = "reply"
    BY <2>4, <1>4, <1>m, ReplyFacts, <2>1 DEF Taken
  <2>5. CASE at = "done" /\ w.kind = "remove"
    BY <2>5, <1>4, <1>0, DeleteFacts, <2>1 DEF Taken, EditTargets
  <2>6. CASE at = "done" /\ w.kind = "resolve"
    BY <2>6, <1>4, <1>w, ResolveFacts, <2>1 DEF Taken
  <2>7. CASE at = "done" /\ w.kind = "edit"
    <3>1. edit_message(w.thread, w.msg, w.names)
      BY <2>7, <1>4 DEF Taken
    <3>2. /\ w.thread \in DOMAIN threads /\ w.msg \in DOMAIN threads[w.thread].msgs
          /\ w.names \subseteq threads[w.thread].msgs[w.msg].names
      BY <2>7, <1>0 DEF EditTargets
    <3>3. threads' = [threads EXCEPT ![w.thread].msgs[w.msg].mentions = w.names] /\ Emit("comment.message_updated")
      BY <3>1 DEF edit_message
    <3>4. Mentioned(threads, threads', w.thread, w.msg, w.names)
      BY <3>2, <1>0, <1>w, MentionsWritten, <3>3
    <3>5. \A n \in DOMAIN threads' : threads'[n].doc = "main" => HeldIn(ydoc, threads'[n])
      BY <3>4, <1>0, ThreadParts, HeldLater DEF Mentioned
    <3>6. outbox' \subseteq Frames /\ outbox' # {}
      BY <3>3, <1>0, EmitFacts DEF PROJECT_EVENT_TYPES
    <3>7. w.kind # "create" /\ w.kind # "reply" /\ Named(threads)
      BY <2>7, <1>0 DEF MentionInv
    <3> QED
      BY <3>4, <3>5, <3>6, <3>7, <2>7 DEF Mentioned
  <2> QED
    BY <1>w, <2>2, <2>3, <2>4, <2>5, <2>6, <2>7
<1>9. Len(threads') <= MaxThreads
  BY <1>0, <1>1, <1>8 DEF RoomInv
<1>10. \A u \in writes' : u.kind = "create" =>
         /\ u.passage.doc = "main" /\ HeldIn(ydoc, u.passage) /\ u.thread = Composer
         /\ u.at = "asked" => Len(threads') < MaxThreads
  BY <1>0, <1>7, <1>n, <1>8, <1>6 DEF Anchored, Held, RoomInv
<1>t. \A text : Told(text) => ToldIn(threads', text)
  BY <1>0, <1>8, OlderTold DEF Told
<1>11. \A u \in writes' : u.kind \in {"create", "reply"} =>
         u.thread \in DOMAIN boxes /\ u.text # 0 /\ (u.at = "done" => ToldIn(threads', u.text))
  BY <1>0, <1>t, <1>6, <1>7, <1>8 DEF BoxInv
<1>12. \A u \in writes' : u.kind \in {"edit", "remove"} =>
         /\ u.thread \in DOMAIN threads /\ u.msg \in DOMAIN threads[u.thread].msgs /\ comments.loaded
         /\ u.kind = "edit" => u.names \subseteq threads[u.thread].msgs[u.msg].names
  BY <1>0, <1>6, <1>7 DEF EditTargets
<1>13. \A u \in writes' : u.kind = "edit" /\ u.at = "asked" /\ u.known =>
         threads'[u.thread].msgs[u.msg].mentions \subseteq u.names
  BY <1>6, <1>7, <1>n, <1>0, <1>8 DEF EditTargets, MentionInv, Mentions
<1>14. \A n \in DOMAIN threads :
         /\ EditDone(n) => EditDone(n)'
         /\ \A m \in DOMAIN threads[n].msgs :
              threads'[n].msgs[m].mentions = threads[n].msgs[m].mentions \/ EditDone(n)'
  BY <1>6, <1>7, <1>8 DEF EditDone
<1>15. (threads' = threads /\ outbox \subseteq outbox') \/ outbox' # {}
  BY <1>8
<1> QED
  BY <1>2, <1>3, <1>7, <1>8, <1>9, <1>10, <1>11, <1>12, <1>13, <1>14, <1>15, ServerKeeps

\* The answer to a mutation.
LEMMA AnswerKeeps ==
    ASSUME CommentInv, useCommentMutations
    PROVE  CommentInv'
<1>0. /\ ChannelTyped /\ DocTyped /\ ThreadsTyped /\ CommentsTyped /\ PanelTyped /\ WritesTyped /\ StoryTyped
      /\ AnchorInv /\ AllOlder /\ Current /\ RoomInv /\ BoxInv /\ EditTargets /\ MentionInv
  BY DEF CommentInv, CommentTyped
<1>1. PICK w \in writes :
        /\ w.at # "asked" /\ writes' = writes \ {w}
        /\ IF w.at = "failed" THEN UNCHANGED <<comments, panelVars, thrown, overlooked>>
           ELSE /\ refreshComments
                /\ IF w.kind \in {"create", "reply"}
                   THEN /\ boxes' = Emptied(w)
                        /\ thrown' = thrown \cup ({boxes[w.thread]} \ {0, w.text})
                   ELSE UNCHANGED <<boxes, thrown>>
                /\ draft' = IF w.kind = "create" THEN NoDraft ELSE draft
                /\ editing' = IF w.kind = "edit" THEN NoEdit ELSE editing
                /\ UNCHANGED review
  BY DEF useCommentMutations
<1>2. UNCHANGED <<stream, outbox, ydoc, threads, commentLeft, typed>>
  BY DEF useCommentMutations, eventVars
<1>w. /\ w \in Writes /\ w.at \in {"done", "failed"} /\ writes' \subseteq writes
      /\ typed \in Nat /\ overlooked \in BOOLEAN /\ boxes \in [0..MaxThreads -> Nat]
  BY <1>0, <1>1 DEF WritesTyped, Writes, StoryTyped, PanelTyped
\* The list, the panel and the texts after the answer.
<1>3. /\ CommentsTyped' /\ comments'.list = comments.list /\ comments'.loaded = comments.loaded
      /\ comments'.got = comments.got /\ overlooked' \in BOOLEAN
      /\ comments'.fetch = "asked" \/ comments' = comments
      /\ overlooked' \/ comments'.fetch = "asked" \/ (w.at = "failed" /\ UNCHANGED <<comments, overlooked>>)
      /\ w.at = "done" /\ comments.loaded => comments'.fetch = "asked"
  BY <1>0, <1>1, <1>w, RefreshFacts DEF CommentsTyped
<1>4. /\ review' = review /\ draft' \in {draft, NoDraft} /\ editing' \in {editing, NoEdit}
      /\ w.at = "done" /\ w.kind = "edit" => editing' = NoEdit
  BY <1>1, <1>w DEF panelVars
<1>5. /\ boxes' \in [0..MaxThreads -> Nat] /\ thrown' \subseteq Nat /\ thrown \subseteq thrown'
      /\ \A b \in 0..MaxThreads :
           \/ boxes'[b] = boxes[b]
           \/ boxes'[b] = 0 /\ (boxes[b] # 0 => boxes[b] \in thrown' \/ Told(boxes[b]))
  <2>0. thrown \subseteq Nat
    BY <1>0 DEF StoryTyped
  <2>1. CASE UNCHANGED <<boxes, thrown>>
    BY <2>0, <2>1, <1>w
  <2>2. CASE w.at = "done" /\ w.kind \in {"create", "reply"}
    <3>1. w.thread \in 0..MaxThreads /\ Told(w.text)
      BY <2>2, <1>0, <1>w DEF BoxInv
    <3>2. boxes' = [boxes EXCEPT ![w.thread] = 0] /\ thrown' = thrown \cup ({boxes[w.thread]} \ {0, w.text})
      BY <2>2, <3>1, <1>1, <1>w DEF Emptied
    <3>3. boxes[w.thread] \in Nat
      BY <3>1, <1>w
    <3>4. thrown' \subseteq Nat /\ thrown \subseteq thrown'
      BY <2>0, <3>2, <3>3
    <3>5. boxes' \in [0..MaxThreads -> Nat] /\ boxes'[w.thread] = 0
          /\ \A b \in 0..MaxThreads : b # w.thread => boxes'[b] = boxes[b]
      BY <3>1, <3>2, <1>w
    <3>6. boxes[w.thread] # 0 => boxes[w.thread] \in thrown' \/ Told(boxes[w.thread])
      BY <3>1, <3>2
    <3> QED
      BY <3>4, <3>5, <3>6
  <2> QED
    BY <1>1, <1>w, <2>1, <2>2 DEF panelVars
<1>d. DOMAIN boxes = 0..MaxThreads /\ DOMAIN boxes' = 0..MaxThreads
  BY <1>5, <1>w
<1>6. CommentTyped'
  <2>1. NoDraft \in Passages /\ NoEdit \in Edits
    BY DEF NoDraft, NoEdit, Passages, Edits
  <2>2. PanelTyped'
    BY <2>1, <1>0, <1>4, <1>5 DEF PanelTyped
  <2> QED
    BY <2>2, <1>0, <1>2, <1>3, <1>5, <1>w DEF CommentTyped, ChannelTyped, DocTyped, ThreadsTyped, WritesTyped,
                                              StoryTyped
<1>7. AnchorInv'
  BY <1>0, <1>2, <1>4, <1>w DEF AnchorInv, Anchored, Held, NoDraft
<1>8. AllOlder'
  BY <1>0, <1>2, <1>3 DEF AllOlder
<1>9. Current'
  BY <1>0, <1>2, <1>3 DEF Current
<1>10. RoomInv'
  BY <1>0, <1>2, <1>w DEF RoomInv
<1>11. BoxInv'
  BY <1>0, <1>d, <1>5, <1>w, <1>2, <1>3 DEF BoxInv, Somewhere, Told
<1>12. EditTargets'
  BY <1>0, <1>w, <1>4, <1>2, <1>3 DEF EditTargets
<1>13. MentionInv'
  BY <1>0, <1>3, <1>4, <1>2, <1>w, <1>1 DEF EditTargets, MentionInv, Mentions, EditDone, Shows
<1> QED
  BY <1>6, <1>7, <1>8, <1>9, <1>10, <1>11, <1>12, <1>13 DEF CommentInv

-----------------------------------------------------------------------------
(* Behaviours.                                                             *)

\* The two threads at the start.
LEMMA FirstThreads ==
    ASSUME commentInit
    PROVE  /\ DocOK(ydoc) /\ Len(threads) = 2 /\ threads \in Lists /\ Named(threads)
           /\ \A n \in DOMAIN threads : threads[n].doc = "main" => Held(threads[n])
<1>1. ydoc = [i \in 1..TextLength |-> [id |-> i, gone |-> FALSE]] /\ TextLength \in Nat \ {0}
  BY CommentAssumption DEF commentInit
<1>2. DocOK(ydoc)
  BY <1>1 DEF Chars, DocOK
<1>3. Len(Live) \in Nat /\ 1 <= Len(Live)
  <2>1. 1 \in DOMAIN ydoc /\ ~ydoc[1].gone
    BY <1>1
  <2>2. 1 \in LivePlaces
    BY <2>1 DEF LivePlaces
  <2>3. LiveUpTo(1) \in 1..Len(Live) /\ Len(Live) \in Nat
    BY <1>2, <2>2, LivePlaced, LiveFacts, LiveNumbered
  <2> QED
    BY <2>3
<1>4. PICK a : a = Passage(0, 1)
  OBVIOUS
<1>5. a \in Passages /\ a.doc = "main" /\ HeldIn(ydoc, a)
  BY <1>3, <1>2, <1>4, PassageHeld DEF Held
<1>6. PICK b : b = [NoDraft EXCEPT !.doc = "other"]
  OBVIOUS
<1>7. b.doc = "other" /\ b.start \in Nat /\ b.end \in Nat /\ b.quote \subseteq Nat
  BY <1>6 DEF NoDraft
<1>8. PICK c, d : c = Message(TRUE, 0, Name) /\ d = Message(FALSE, 0, {})
  OBVIOUS
<1>9. /\ c \in CommentMessages /\ c.mentions \subseteq c.names /\ d \in CommentMessages
      /\ d.mentions \subseteq d.names
  BY <1>8, MessageTyped
<1>10. PICK s, t : s = Thread(a, c) /\ t = Thread(b, d)
  OBVIOUS
<1>11. s \in Threads /\ t \in Threads
  BY <1>9, <1>5, <1>10, <1>7 DEF Thread, Threads, Passages
<1>12. threads = <<s, t>>
  BY <1>4, <1>6, <1>8, <1>10 DEF commentInit
<1>13. threads \in Lists /\ Len(threads) = 2 /\ DOMAIN threads = {1, 2} /\ threads[1] = s /\ threads[2] = t
  BY <1>11, <1>12 DEF Lists
<1>14. s.msgs = <<c>> /\ t.msgs = <<d>> /\ t.doc = "other" /\ s.start = a.start /\ s.end = a.end /\ s.quote = a.quote
  BY <1>7, <1>10 DEF Thread
<1>15. Named(threads)
  BY <1>9, <1>13, <1>14 DEF Named
<1>16. HeldIn(ydoc, s)
  BY <1>5, <1>14, Zenon DEF HeldIn
<1>17. \A n \in DOMAIN threads : threads[n].doc = "main" => Held(threads[n])
  BY <1>13, <1>14, <1>16 DEF Held
<1> QED
  BY <1>2, <1>13, <1>15, <1>17

\* The invariant holds at the start.
LEMMA CommentStart ==
    ASSUME commentInit
    PROVE  CommentInv
<1>1. /\ DocOK(ydoc) /\ Len(threads) = 2 /\ threads \in Lists /\ Named(threads)
      /\ \A n \in DOMAIN threads : threads[n].doc = "main" => Held(threads[n])
  BY FirstThreads
<1>2. /\ commentLeft \in CommentStories /\ outbox = {} /\ draft = NoDraft /\ boxes = [b \in 0..MaxThreads |-> 0]
      /\ editing = NoEdit /\ writes = {} /\ typed = 0 /\ thrown = {} /\ overlooked = FALSE
  BY DEF commentInit
<1>3. PICK settled \in BOOLEAN :
        /\ stream = Closed(IF settled THEN "open" ELSE "connecting")
        /\ comments = [loaded |-> settled, list |-> IF settled THEN threads ELSE << >>,
                       fetch |-> IF settled THEN "none" ELSE "asked", got |-> << >>]
        /\ review = [open |-> settled, doc |-> "main", selected |-> 0, filter |-> "open",
                     scope |-> "file", link |-> commentLeft.link, tree |-> settled,
                     members |-> FALSE]
  BY DEF commentInit
<1>4. commentLeft \in CommentBudgets /\ MaxThreads \in Nat /\ 2 <= MaxThreads
  BY <1>2, CommentAssumption DEF CommentBudgets
<1>e. << >> \in Lists
  BY DEF Lists
<1>5. CommentTyped
  <2>1. ChannelTyped
    BY <1>2, <1>3 DEF ChannelTyped, Closed
  <2>2. CommentsTyped
    BY <1>1, <1>3, <1>e DEF CommentsTyped
  <2>3. review \in Reviews
    BY <1>3, <1>4 DEF Reviews, CommentBudgets
  <2>4. draft \in Passages /\ editing \in Edits /\ boxes \in [0..MaxThreads -> Nat]
    BY <1>2 DEF NoDraft, NoEdit, Passages, Edits
  <2> QED
    BY <2>1, <2>2, <2>3, <2>4, <1>1, <1>2, <1>4 DEF CommentTyped, DocTyped, DocOK, ThreadsTyped, PanelTyped,
                                                     WritesTyped, StoryTyped
<1>6. AnchorInv
  BY <1>1, <1>2 DEF AnchorInv, Anchored, NoDraft
<1>7. AllOlder
  BY <1>1, OlderSelf, <1>3 DEF Older, AllOlder
<1>8. Current
  BY <1>3 DEF Current
<1>9. RoomInv
  BY <1>1, <1>2, <1>4 DEF RoomInv
<1>10. BoxInv
  BY <1>2 DEF BoxInv, Somewhere
<1>11. EditTargets
  BY <1>2 DEF EditTargets
<1>12. MentionInv
  BY <1>3, <1>1, <1>2 DEF Shows, Mentions, MentionInv
<1> QED
  BY <1>5, <1>6, <1>7, <1>8, <1>9, <1>10, <1>11, <1>12 DEF CommentInv

\* Every step keeps it.
LEMMA CommentSteps ==
    ASSUME CommentInv, [commentNext]_<<eventVars, commentVars>>
    PROVE  CommentInv'
<1>1. CASE fetchThreads
  BY <1>1, ReadKeeps
<1>2. CASE useCommentThreads
  BY <1>2, LoadKeeps
<1>3. CASE CommentDelivered
  BY <1>3, DeliverKeeps
<1>4. CASE CommentPublished
  BY <1>4, PublishKeeps
<1>5. CASE CommentConnects \/ CommentBreaks
  BY <1>5, StreamKeeps
<1>6. CASE CommentRequest
  BY <1>6, RequestKeeps
<1>7. CASE useCommentMutations
  BY <1>7, AnswerKeeps
<1>8. CASE useMentionMembers \/ TreeArrives
  BY <1>8, FetchedKeeps
<1>9. CASE OthersComment
  BY <1>9, OthersCommentKeeps
<1>10. CASE OthersType
  BY <1>10, OthersTypeKeeps
<1>11. CASE startDraft \/ useCommentState \/ onDraftCancel
  BY <1>11, LookKeeps
<1>12. CASE CommentComposer \/ ReplyBox \/ TypeOver
  BY <1>12, TypingKeeps
<1>13. CASE onCreate \/ sendReply \/ SaveEdit \/ MessageItem \/ ThreadView
  BY <1>13, SentKeeps
<1>14. CASE MessageEditor
  BY <1>14, EditorKeeps
<1>15. CASE UNCHANGED <<eventVars, commentVars>>
  BY <1>15, QuietKeeps DEF eventVars, commentVars, panelVars, CommentInv, CommentTyped, ChannelTyped,
     Current, StoryTyped, PanelTyped
<1> QED
  BY <1>1, <1>2, <1>3, <1>4, <1>5, <1>6, <1>7, <1>8, <1>9, <1>10, <1>11, <1>12, <1>13, <1>14, <1>15
     DEF commentNext, CommentStep

\* Only a request to the server takes a mutation from those that wait for it.
LEMMA RequestAlone ==
    ASSUME commentNext, NEW w \in writes, w.at = "asked", w \notin writes'
    PROVE  Taken(w) \/ UNCHANGED threads
<1>1. CASE CommentRequest
  BY <1>1 DEF CommentRequest
<1>2. CASE useCommentMutations
  BY <1>2 DEF useCommentMutations
<1>3. ASSUME NEW u, Mutate(u) PROVE FALSE
  BY <1>3 DEF Mutate
<1>4. CASE onCreate \/ sendReply \/ SaveEdit \/ MessageItem \/ ThreadView
  BY <1>3, <1>4 DEF onCreate, sendReply, SaveEdit, MessageItem, ThreadView
<1>5. CASE fetchThreads \/ useCommentThreads \/ CommentDelivered \/ CommentPublished
  BY <1>5 DEF fetchThreads, useCommentThreads, CommentDelivered, CommentPublished
<1>6. CASE CommentConnects \/ CommentBreaks \/ useMentionMembers \/ TreeArrives \/ OthersComment \/ OthersType
  BY <1>6 DEF CommentConnects, CommentBreaks, useMentionMembers, TreeArrives, OthersComment, OthersType, commentVars
<1>7. CASE startDraft \/ useCommentState \/ onDraftCancel \/ MessageEditor
  BY <1>7 DEF startDraft, useCommentState, onDraftCancel, MessageEditor
<1>8. CASE CommentComposer \/ ReplyBox \/ TypeOver
  BY <1>8 DEF CommentComposer, ReplyBox, TypeOver, WriteIn
<1> QED
  BY <1>1, <1>2, <1>4, <1>5, <1>6, <1>7, <1>8 DEF commentNext, CommentStep

\* The anchors of the list shown hold, as old as it may be.
LEMMA ShownAnchors ==
    ASSUME AnchorInv, AllOlder, ThreadsTyped, CommentsTyped
    PROVE  QuoteHighlighted
  BY CommentsParts, OlderHas, HighlightTrue DEF AnchorInv, AllOlder, ThreadsTyped, useThreadRanges,
     Present, Continues, Anchored, Held, HeldIn, QuoteHighlighted

(* What the panel of the comments promises of a state. *)
CommentsTrue == commentTypeOK /\ ListConverges /\ QuoteHighlighted /\ NothingTypedLost

\* What the panels promise of a state follows from the invariant.
LEMMA CommentTruths ==
    ASSUME CommentInv
    PROVE  CommentsTrue
  BY CommentsParts, ShownAnchors DEF CommentInv, CommentTyped, commentTypeOK, RoomInv, BoxInv,
     EditTargets, ListConverges, Current, ChannelQuiet, NothingTypedLost, Somewhere, Told, ToldIn,
     CommentsTrue

\* The list, the anchors, the boxes, the mutations and what they are about hold together at all
\* times (use-comments.ts, anchors.ts, service.py).
THEOREM CommentsHold == commentSpec => []CommentInv
<1>1. commentInit => CommentInv
  BY CommentStart
<1>2. CommentInv /\ [commentNext]_<<eventVars, commentVars>> => CommentInv'
  BY CommentSteps
<1> QED
  BY <1>1, <1>2, PTL DEF commentSpec

\* Saving an edit that leaves a name in the text keeps its mention, once the members were known and
\* no fetch of the list was under way when the editor opened (MessageEditor, edit_message).
LEMMA MentionsStay ==
    ASSUME CommentInv, [commentNext]_<<eventVars, commentVars>>
    PROVE  [\A w \in writes : w.kind = "edit" /\ w.at = "asked" /\ w.known /\ w \notin writes' =>
               \A n \in DOMAIN threads : \A m \in DOMAIN threads[n].msgs :
                   threads[n].msgs[m].mentions \subseteq threads'[n].msgs[m].mentions]_commentVars
<1>1. ASSUME NEW w \in writes, w.kind = "edit",
             w.at = "asked", w.known, w \notin writes',
             NEW n \in DOMAIN threads, NEW m \in DOMAIN threads[n].msgs
      PROVE  threads[n].msgs[m].mentions \subseteq threads'[n].msgs[m].mentions
  <2>0. threads \in Lists /\ w \in Writes
    BY <1>1 DEF CommentInv, CommentTyped, ThreadsTyped, WritesTyped
  <2>1. commentNext
    BY <1>1 DEF commentVars
  <2>2. CASE UNCHANGED threads
    BY <2>2
  <2>3. CASE Taken(w)
    <3>1. edit_message(w.thread, w.msg, w.names)
      BY <1>1, <2>3 DEF Taken
    <3>2. PICK k, j, names : k = w.thread /\ j = w.msg /\ names = w.names
      OBVIOUS
    <3>3. /\ k \in DOMAIN threads /\ j \in DOMAIN threads[k].msgs
          /\ names \subseteq threads[k].msgs[j].names /\ threads[k].msgs[j].mentions \subseteq names
          /\ names \in SUBSET Name
      BY <1>1, <2>0, <3>2 DEF CommentInv, EditTargets, MentionInv, Mentions, Writes
    <3>4. threads' = [threads EXCEPT ![k].msgs[j].mentions = names]
      BY <3>1, <3>2 DEF edit_message
    <3>5. Mentioned(threads, [threads EXCEPT ![k].msgs[j].mentions = names], k, j, names)
      BY <2>0, <3>3, MentionsWritten, Zenon
    <3>6. threads'[n].msgs[m].mentions = IF n = k /\ m = j THEN names ELSE threads[n].msgs[m].mentions
      BY <3>4, <3>5 DEF Mentioned
    <3> QED
      BY <3>3, <3>6
  <2> QED
    BY <1>1, <2>1, <2>2, <2>3, RequestAlone
<1> QED
  BY <1>1

\* Resolve resolves and Reopen reopens, though another member pressed first (set_resolved).
LEMMA PressesHold ==
    ASSUME CommentInv, [commentNext]_<<eventVars, commentVars>>
    PROVE  [\A w \in writes : w.kind = "resolve" /\ w.at = "asked" /\ w \notin writes' =>
               \/ threads'[w.thread].resolved = w.to \/ threads'[w.thread] = threads[w.thread]]_commentVars
<1>1. ASSUME NEW w \in writes, w.kind = "resolve", w.at = "asked", w \notin writes'
      PROVE  threads'[w.thread].resolved = w.to \/ threads'[w.thread] = threads[w.thread]
  <2>0. threads \in Lists /\ w \in Writes
    BY <1>1 DEF CommentInv, CommentTyped, ThreadsTyped, WritesTyped
  <2>1. commentNext
    BY <1>1 DEF commentVars
  <2>2. CASE UNCHANGED threads
    BY <2>2
  <2>3. CASE Taken(w)
    BY <1>1, <2>3, <2>0, ThreadResolved DEF Taken, Present, Writes, set_resolved
  <2> QED
    BY <1>1, <2>1, <2>2, <2>3, RequestAlone
<1> QED
  BY <1>1

\* What the panel of the comments promises, of a behaviour of the threads alone.
THEOREM CommentsAreKept == commentSpec => CommentsKept
<1>1. CommentInv => CommentsTrue
  BY CommentTruths
<1>2. CommentInv /\ [commentNext]_<<eventVars, commentVars>> =>
        [\A w \in writes : w.kind = "edit" /\ w.at = "asked" /\ w.known /\ w \notin writes' =>
           \A n \in DOMAIN threads : \A m \in DOMAIN threads[n].msgs :
               threads[n].msgs[m].mentions \subseteq threads'[n].msgs[m].mentions]_commentVars
  BY MentionsStay
<1>3. CommentInv /\ [commentNext]_<<eventVars, commentVars>> =>
        [\A w \in writes : w.kind = "resolve" /\ w.at = "asked" /\ w \notin writes' =>
           \/ threads'[w.thread].resolved = w.to \/ threads'[w.thread] = threads[w.thread]]_commentVars
  BY PressesHold
<1> QED
  BY <1>1, <1>2, <1>3, CommentsHold, PTL DEF commentSpec, CommentsKept, CommentsTrue, MentionsKept, PressHolds

-----------------------------------------------------------------------------
(* The project chat: proofs of what ProjectChat promises, for any number of *)
(* messages, size of a page, stories and faults.                           *)

Created(id) == Event("chat.message_created", id)
Deleted(id) == Event("chat.message_deleted", id)
ChatRow == [id : Nat \ {0}, gone : BOOLEAN]
ChatPage == [rows : SUBSET ChatRow, next : Nat \ {1}]
SaidRows == Seq([mine : BOOLEAN, gone : BOOLEAN])
ChatDatas == [loaded : BOOLEAN, pages : Seq(ChatPage)]
ChatFrame == [type : {"open", "chat.message_created", "chat.message_deleted"}, id : Nat]

Events == [at : {"connecting", "open", "waiting"}, queue : Seq(ChatFrame)]
ChatFetches == [kind : {"none", "first", "again", "older"}, base : Seq(ChatPage), got : Seq(ChatPage),
                want : Nat, read : BOOLEAN]
ChatBudgets == [sends : Nat, others : Nat, deletes : Nat, turns : Nat, olders : Nat,
                breaks : Nat, faults : Nat, settled : BOOLEAN]
Requests == [kind : {"post", "delete"}, n : Nat, at : Int]

RoomTyped == said \in SaidRows /\ lastRead \in 0..Len(said)
PagesTyped == chatData \in ChatDatas /\ chatFetch \in ChatFetches
SendsTyped ==
    /\ pending \in Seq(Int) /\ \A n \in DOMAIN pending : pending[n] \in {Sending, Failed} \cup DOMAIN said
    /\ posts \subseteq Requests
CountTyped ==
    /\ unread \in [loaded : BOOLEAN, count : 0..Len(said), fetch : {"none", "asked", "read"}, got : 0..Len(said)]
    /\ marking \in [asked : Nat, done : Nat]
RestTyped == chatOpen \in BOOLEAN /\ missed \in BOOLEAN /\ belated \in BOOLEAN /\ chatLeft \in ChatBudgets

IsEvent(e, all) == \E id \in DOMAIN all : e = Created(id) \/ (e = Deleted(id) /\ all[id].gone)
Channel(s, waits, all) ==
    /\ s \in Events /\ waits \subseteq ChatFrame
    /\ s.at # "open" => s.queue = << >>
    /\ \A e \in waits : IsEvent(e, all)
    /\ \A i \in DOMAIN s.queue : s.queue[i] = Opened \/ IsEvent(s.queue[i], all)
(* A message's creation is announced before its deletion. *)
Orderly(queue, waits, all) ==
    \A id \in DOMAIN all : all[id].gone =>
        /\ Created(id) \in waits => Deleted(id) \in waits
        /\ \A i \in DOMAIN queue : queue[i] = Created(id) =>
             Deleted(id) \in waits \/ \E j \in DOMAIN queue : j > i /\ queue[j] = Deleted(id)
ChannelInv == Channel(stream, outbox, said)
InOrder == Orderly(stream.queue, outbox, said)

(* What is on its way: to be announced, or to be read after a reconnection. *)
Reopens(s) == s.at # "open" \/ Opened \in ToSet(s.queue)
CreatesOf(s, waits, all) == {id \in DOMAIN all : Reopens(s) \/ Created(id) \in waits \/ Created(id) \in ToSet(s.queue)}
DeletesOf(s, waits, all) == {id \in DOMAIN all : Reopens(s) \/ Deleted(id) \in waits \/ Deleted(id) \in ToSet(s.queue)}
Creates == CreatesOf(stream, outbox, said)
Deletes == DeletesOf(stream, outbox, said)

PostTrue(r, texts, all) ==
    /\ r.kind = "post" => r.n \in DOMAIN texts /\ r.at \in {Sending, Failed} \cup DOMAIN all
    /\ r.kind = "delete" => /\ r.n \in DOMAIN all /\ r.at \in {Sending, Failed, r.n}
                            /\ r.at = r.n => all[r.n].gone
PostsInv == \A r \in posts : PostTrue(r, pending, said)

(* The rows of pages are messages of the server, and no page under the first is empty. *)
Real(pages, all) ==
    \A p \in DOMAIN pages :
        /\ \A m \in pages[p].rows : m.id \in DOMAIN all /\ (m.gone => all[m.id].gone)
        /\ pages[p].next <= Len(all)
        /\ p > 1 => pages[p].rows # {}
Filled(pages) == \A p \in DOMAIN pages : pages[p].rows # {}
FetchInv ==
    /\ chatData.loaded <=> chatFetch.kind # "first"
    /\ chatData.loaded <=> chatData.pages # << >>
    /\ chatFetch.kind = "none" => chatFetch.got = << >> /\ ~chatFetch.read
    /\ chatFetch.kind # "older" => chatFetch.base = << >>
    /\ chatFetch.read => chatFetch.got # << >>
    /\ chatFetch.kind \in {"first", "older"} /\ ~chatFetch.read => chatFetch.got = << >>
    /\ chatFetch.got # << >> /\ ~chatFetch.read => getNextPageParam(chatFetch.got) # 0
    /\ chatFetch.kind = "older" =>
         /\ chatFetch.base # << >> /\ getNextPageParam(chatFetch.base) # 0
         /\ Reach(chatFetch.base) = Reach(chatData.pages)
         /\ Ids(chatFetch.base) \subseteq Ids(chatData.pages)
         /\ Filled(chatFetch.got)
    /\ Real(chatData.pages, said) /\ Real(chatFetch.base, said) /\ Real(chatFetch.got, said)

Once(pages) == \A p, q \in DOMAIN pages : \A m \in pages[p].rows, n \in pages[q].rows :
                   m.id = n.id => p = q /\ m = n
Above(pages) == \A m \in Rows(pages) : m.id >= Reach(pages)
Below(pages, cursor) == \A m \in Rows(pages) : m.id < cursor
OnceInv ==
    /\ Once(chatFetch.got) /\ Above(chatFetch.got)
    /\ chatFetch.kind = "older" => Below(chatFetch.got, Reach(chatFetch.base))
    /\ ~belated =>
         /\ Once(chatData.pages) /\ Above(chatData.pages)
         /\ Once(chatFetch.base) /\ Above(chatFetch.base)

(* What the rows of pages do not say yet is on its way. *)
Marked(pages) == {id \in Ids(pages) : [id |-> id, gone |-> TRUE] \in Rows(pages)}
Right(pages, all, deletes) == \A m \in Rows(pages) : all[m.id].gone => m.gone \/ m.id \in deletes
Whole(pages, shown, all, creates) ==
    \A id \in DOMAIN all : id >= Reach(pages) => id \in Ids(pages) \/ id \in shown \/ id \in creates
Spans(pages, to, all) == \A id \in DOMAIN all : id >= Reach(pages) /\ id < to => id \in Ids(pages)
ShownInv ==
    chatFetch.kind \in {"none", "older"} =>
        /\ belated \/ Right(chatData.pages, said, Deletes)
        /\ Whole(chatData.pages, {}, said, Creates)
GotInv ==
    /\ Right(chatFetch.got, said, Deletes)
    /\ chatFetch.kind \in {"first", "again"} /\ chatFetch.got # << >> =>
         Whole(chatFetch.got, Ids(chatData.pages), said, Creates)
    /\ chatFetch.kind = "again" /\ chatFetch.got # << >> => Spans(chatFetch.got, Reach(chatData.pages), said)
    /\ chatFetch.kind = "older" /\ chatFetch.got # << >> => Spans(chatFetch.got, Reach(chatFetch.base), said)
BaseInv == belated \/ Right(chatFetch.base, said, Deletes \cup Marked(chatData.pages))

OnPages(pages, id) == id \in Ids(pages) \/ id < Reach(pages)
OwnInv ==
    \A n \in DOMAIN pending : pending[n] \notin {Sending, Failed} =>
        /\ chatData.loaded => OnPages(chatData.pages, pending[n])
        /\ ~chatData.loaded /\ chatFetch.read => OnPages(chatFetch.got, pending[n])
CountOwed == outbox # {} \/ stream # Closed("open") \/ marking.done > 0
BadgeInv ==
    /\ unread.fetch = "read" => unread.got = UnreadFrom(said, lastRead) \/ CountOwed
    /\ unread.fetch = "none" /\ unread.loaded => unread.count = UnreadFrom(said, lastRead) \/ CountOwed

PagesInv == PagesTyped /\ FetchInv /\ OnceInv /\ (~missed => ShownInv /\ GotInv /\ BaseInv)
ChatInv ==
    /\ RoomTyped /\ SendsTyped /\ CountTyped /\ RestTyped /\ ChannelInv /\ PostsInv /\ PagesInv
    /\ ~missed => InOrder /\ OwnInv /\ BadgeInv

-----------------------------------------------------------------------------
(* Pages.                                                                  *)

(* A row of pages is a row of one of them.                                 *)
LEMMA RowIn ==
    ASSUME NEW pages
    PROVE  /\ \A m : m \in Rows(pages) <=> \E p \in DOMAIN pages : m \in pages[p].rows
           /\ \A id : id \in Ids(pages) <=> \E m \in Rows(pages) : m.id = id
BY DEF Rows, Ids, ToSet

(* No pages: no rows.                                                      *)
LEMMA NoRows == Rows(<< >>) = {} /\ Ids(<< >>) = {} /\ getNextPageParam(<< >>) = 0 /\ Reach(<< >>) = 1
BY DEF Rows, Ids, ToSet, getNextPageParam, Reach

(* Where typed pages reach.                                                *)
LEMMA ReachTyped ==
    ASSUME NEW pages \in Seq(ChatPage)
    PROVE  /\ getNextPageParam(pages) \in Nat /\ Reach(pages) \in Nat \ {0}
           /\ pages # << >> => getNextPageParam(pages) = pages[Len(pages)].next /\ Len(pages) \in DOMAIN pages
           /\ getNextPageParam(pages) # 0 => Reach(pages) = getNextPageParam(pages)
           /\ getNextPageParam(pages) = 0 => Reach(pages) = 1
           /\ \A m \in Rows(pages) : m \in ChatRow
           /\ \A p \in DOMAIN pages : pages[p] \in ChatPage
<1>1. pages # << >> => Len(pages) \in DOMAIN pages
  OBVIOUS
<1>2. \A p \in DOMAIN pages : pages[p] \in ChatPage
  OBVIOUS
<1>3. \A m \in Rows(pages) : m \in ChatRow
  BY <1>2, RowIn DEF ChatPage
<1> QED
  BY <1>1, <1>2, <1>3 DEF getNextPageParam, Reach, Last, ChatPage

(* Pages with one more.                                                    *)
LEMMA OnePageMore ==
    ASSUME NEW pages \in Seq(ChatPage), NEW page \in ChatPage
    PROVE  LET more == Append(pages, page)
           IN  /\ more \in Seq(ChatPage) /\ more # << >> /\ getNextPageParam(more) = page.next
               /\ \A m : m \in Rows(more) <=> m \in Rows(pages) \/ m \in page.rows
               /\ DOMAIN more = 1..(Len(pages) + 1) /\ DOMAIN pages = 1..Len(pages)
               /\ \A p \in DOMAIN more : more[p] = IF p = Len(pages) + 1 THEN page ELSE pages[p]
<1> DEFINE more == Append(pages, page)
<1>1. /\ more \in Seq(ChatPage) /\ more # << >> /\ DOMAIN more = 1..(Len(pages) + 1)
      /\ DOMAIN pages = 1..Len(pages) /\ Len(more) = Len(pages) + 1 /\ Len(pages) \in Nat
      /\ \A p \in DOMAIN more : more[p] = IF p = Len(pages) + 1 THEN page ELSE pages[p]
  OBVIOUS
<1> HIDE DEF more
<1>2. getNextPageParam(more) = page.next
  BY <1>1 DEF getNextPageParam, Last
<1>3. \A m : m \in Rows(more) <=> m \in Rows(pages) \/ m \in page.rows
  BY <1>1, RowIn
<1> QED
  BY <1>1, <1>2, <1>3 DEF more

(* Pages put under others.                                                 *)
LEMMA PagesUnder ==
    ASSUME NEW base \in Seq(ChatPage), NEW got \in Seq(ChatPage), got # << >>
    PROVE  LET all == base \o got
           IN  /\ all \in Seq(ChatPage) /\ all # << >> /\ getNextPageParam(all) = getNextPageParam(got)
               /\ Reach(all) = Reach(got)
               /\ \A m : m \in Rows(all) <=> m \in Rows(base) \/ m \in Rows(got)
               /\ DOMAIN all = 1..(Len(base) + Len(got)) /\ DOMAIN base = 1..Len(base) /\ DOMAIN got = 1..Len(got)
               /\ \A p \in DOMAIN all : all[p] = IF p <= Len(base) THEN base[p] ELSE got[p - Len(base)]
<1> DEFINE all == base \o got
<1>1. /\ all \in Seq(ChatPage) /\ all # << >> /\ DOMAIN all = 1..(Len(base) + Len(got))
      /\ DOMAIN base = 1..Len(base) /\ DOMAIN got = 1..Len(got) /\ Len(all) = Len(base) + Len(got)
      /\ Len(base) \in Nat /\ Len(got) \in Nat \ {0}
      /\ \A p \in DOMAIN all : all[p] = IF p <= Len(base) THEN base[p] ELSE got[p - Len(base)]
  OBVIOUS
<1> HIDE DEF all
<1>2. getNextPageParam(all) = getNextPageParam(got)
  <2>1. all # << >> /\ got # << >> /\ Len(all) \in DOMAIN all /\ ~(Len(all) <= Len(base)) /\ Len(all) - Len(base) = Len(got)
    BY <1>1
  <2>2. all[Len(all)] = got[Len(got)]
    BY <1>1, <2>1
  <2>3. getNextPageParam(all) = all[Len(all)].next /\ getNextPageParam(got) = got[Len(got)].next
    BY <2>1, Zenon DEF getNextPageParam, Last
  <2> QED
    BY <2>2, <2>3
<1>3. ASSUME NEW m, m \in Rows(all) PROVE m \in Rows(base) \/ m \in Rows(got)
  BY <1>3, RowIn, <1>1
<1>4. ASSUME NEW m, m \in Rows(base) PROVE m \in Rows(all)
  <2>1. PICK p \in DOMAIN base : m \in base[p].rows
    BY <1>4, RowIn
  <2>2. p \in DOMAIN all /\ all[p] = base[p]
    BY <1>1
  <2> QED
    BY <2>1, <2>2, RowIn
<1>5. ASSUME NEW m, m \in Rows(got) PROVE m \in Rows(all)
  <2>1. PICK p \in DOMAIN got : m \in got[p].rows
    BY <1>5, RowIn
  <2>2. p + Len(base) \in DOMAIN all /\ all[p + Len(base)] = got[p]
    BY <1>1
  <2> QED
    BY <2>1, <2>2, RowIn
<1>6. Reach(all) = Reach(got)
  BY <1>2 DEF Reach
<1> QED
  BY <1>1, <1>2, <1>3, <1>4, <1>5, <1>6 DEF all

PageOf(page, before, all) ==
    LET top == IF before = 0 THEN Len(all) ELSE before - 1
    IN  /\ page \in ChatPage /\ page.next <= Len(all)
        /\ \A m \in page.rows : m.id \in DOMAIN all /\ m.id <= top /\ m.gone = all[m.id].gone
        /\ \A m \in page.rows : m.id >= page.next
        /\ \A m, n \in page.rows : m.id = n.id => m = n
        /\ \A id \in DOMAIN all : id <= top /\ id >= page.next => \E m \in page.rows : m.id = id
        /\ before > 1 => page.rows # {}
        /\ before # 0 => page.next < before

(* A page of the server: a run of its messages, each as it is now, down to *)
(* where the page reaches.                                                 *)
LEMMA ListMessages ==
    ASSUME said \in SaidRows, NEW before \in 0..Len(said)
    PROVE  PageOf(list_messages(before), before, said)
<1> USE DEF SaidRows
<1> DEFINE top == IF before = 0 THEN Len(said) ELSE before - 1
           low == IF top > PageSize THEN top + 1 - PageSize ELSE 1
           page == list_messages(before)
<1>1. /\ top \in 0..Len(said) /\ low \in 1..(Len(said) + 1) /\ (low > 1 => low <= top) /\ DOMAIN said = 1..Len(said)
      /\ before > 1 => low <= top
  BY ChatAssumption
<1>2. page.rows = {Item(id) : id \in low..top} /\ page.next = Unless1(low) /\ page = [rows |-> page.rows, next |-> page.next]
  BY DEF list_messages
<1> HIDE DEF page, low, top
<1>3. /\ page.next \in {0, low} /\ (page.next = 0 => low = 1) /\ page.next <= Len(said) /\ page.next \in Nat \ {1}
      /\ before # 0 => page.next < before
  BY <1>1, <1>2 DEF top, Unless1
<1>4. \A id \in low..top : id \in DOMAIN said /\ Item(id) \in ChatRow /\ Item(id).id = id /\ Item(id).gone = said[id].gone
  <2> TAKE id \in low..top
  <2>1. id \in Nat \ {0} /\ id \in DOMAIN said
    BY <1>1
  <2>2. said[id].gone \in BOOLEAN
    <3>1. said[id] \in [mine : BOOLEAN, gone : BOOLEAN]
      BY <2>1, <1>1, ElementOfSeq
    <3> QED
      BY <3>1
  <2> QED
    BY <2>1, <2>2 DEF Item, ChatRow
<1>5. page \in ChatPage
  BY <1>2, <1>3, <1>4 DEF ChatPage
<1>6. \A m \in page.rows : m.id \in low..top /\ m = Item(m.id)
  BY <1>2, <1>4
<1>7. \A id \in DOMAIN said : id <= top /\ id >= page.next => \E m \in page.rows : m.id = id
  BY <1>1, <1>3, <1>2, <1>4
<1>8. before > 1 => page.rows # {}
  BY <1>1, <1>2
<1>9. \A m \in page.rows : m.id >= page.next /\ m.id <= top /\ m.gone = said[m.id].gone /\ m.id \in DOMAIN said
  BY <1>1, <1>3, <1>4, <1>6
<1>10. \A m, n \in page.rows : m.id = n.id => m = n
  BY <1>6
<1> QED
  BY <1>3, <1>5, <1>7, <1>8, <1>9, <1>10 DEF page, top, PageOf

(* A message put at the newest end, unless it is there.                    *)
LEMMA RowAdded ==
    ASSUME NEW data \in ChatDatas, NEW id \in Nat \ {0},
           data.loaded => data.pages # << >>
    PROVE  LET with == withMessage(data, [id |-> id, gone |-> FALSE])
           IN  /\ with \in ChatDatas /\ with.loaded = data.loaded
               /\ ~Adds(data, id) => with = data
               /\ DOMAIN with.pages = DOMAIN data.pages
               /\ \A p \in DOMAIN data.pages : with.pages[p].next = data.pages[p].next
               /\ \A p \in DOMAIN data.pages : data.pages[p].rows \subseteq with.pages[p].rows
               /\ \A p \in DOMAIN data.pages : \A m \in with.pages[p].rows :
                    m \in data.pages[p].rows \/ (Adds(data, id) /\ p = 1 /\ m = [id |-> id, gone |-> FALSE])
               /\ data.loaded => id \in Ids(with.pages)
               /\ with.pages = << >> <=> data.pages = << >>
<1> USE DEF ChatDatas
<1> DEFINE row == [id |-> id, gone |-> FALSE]
           with == withMessage(data, row)
           pages == data.pages
           first == [pages[1] EXCEPT !.rows = @ \cup {row}]
           newer == [pages EXCEPT ![1] = first]
<1>0. row \in ChatRow
  BY DEF ChatRow
<1>1. CASE ~Adds(data, id)
  BY <1>1 DEF withMessage, Adds
<1>2. CASE Adds(data, id)
  <2>1. data.loaded /\ pages # << >> /\ pages \in Seq(ChatPage) /\ data = [loaded |-> data.loaded, pages |-> data.pages]
    BY <1>2 DEF Adds
  <2>2. 1 \in DOMAIN pages /\ pages[1] \in ChatPage
    BY <2>1
  <2>3. first \in ChatPage /\ first.next = pages[1].next /\ first.rows = pages[1].rows \cup {row}
    BY <2>2, <1>0 DEF ChatPage
  <2> HIDE DEF first
  <2>4. newer \in Seq(ChatPage) /\ DOMAIN newer = DOMAIN pages /\ newer # << >>
        /\ \A p \in DOMAIN pages : newer[p] = IF p = 1 THEN first ELSE pages[p]
    BY <2>1, <2>2, <2>3
  <2>5. with = [data EXCEPT !.pages = newer]
    BY <1>2, <2>1, <2>2 DEF withMessage, first
  <2>6. with \in ChatDatas /\ with.loaded = data.loaded /\ with.pages = newer
    BY <2>5, <2>4
  <2> HIDE DEF newer, with, row, pages
  <2>7. row \in newer[1].rows /\ row.id = id
    BY <2>3, <2>4, <2>2 DEF row
  <2>8. id \in Ids(newer)
    BY <2>7, <2>4, <2>2, RowIn
  <2> QED
    BY <1>2, <2>1, <2>2, <2>3, <2>4, <2>6, <2>8 DEF row, pages, with
<1> QED
  BY <1>1, <1>2

(* A deleted message is marked wherever it is shown.                       *)
LEMMA MessageMarked ==
    ASSUME NEW data \in ChatDatas, NEW id \in Nat \ {0}
    PROVE  LET with == withDeleted(data, id)
           IN  /\ with \in ChatDatas /\ with.loaded = data.loaded
               /\ DOMAIN with.pages = DOMAIN data.pages
               /\ \A p \in DOMAIN data.pages : with.pages[p].next = data.pages[p].next
               /\ \A p \in DOMAIN data.pages : \A m \in data.pages[p].rows :
                    IF m.id = id THEN [id |-> id, gone |-> TRUE] \in with.pages[p].rows ELSE m \in with.pages[p].rows
               /\ \A p \in DOMAIN data.pages : \A m \in with.pages[p].rows :
                    \E o \in data.pages[p].rows : o.id = m.id /\ (IF m.id = id THEN m.gone ELSE m = o)
               /\ with.pages = << >> <=> data.pages = << >>
<1> USE DEF ChatDatas
<1> DEFINE pages == data.pages
           marked == [p \in DOMAIN pages |-> MarkGone(pages[p], id)]
           with == withDeleted(data, id)
<1>1. pages \in Seq(ChatPage) /\ \A p \in DOMAIN pages : pages[p] \in ChatPage
  OBVIOUS
<1>2. with = [data EXCEPT !.pages = marked]
  BY DEF withDeleted
<1>3. ASSUME NEW page \in ChatPage
      PROVE  /\ MarkGone(page, id) \in ChatPage /\ MarkGone(page, id).next = page.next
             /\ \A m \in page.rows : IF m.id = id THEN [id |-> id, gone |-> TRUE] \in MarkGone(page, id).rows
                                     ELSE m \in MarkGone(page, id).rows
             /\ \A m \in MarkGone(page, id).rows :
                  \E o \in page.rows : o.id = m.id /\ (IF m.id = id THEN m.gone ELSE m = o)
  <2> DEFINE now(m) == IF m.id = id THEN [m EXCEPT !.gone = TRUE] ELSE m
             rows == {now(m) : m \in page.rows}
  <2>1. ASSUME NEW o \in page.rows
        PROVE  now(o) \in ChatRow /\ now(o).id = o.id
               /\ (IF o.id = id THEN now(o) = [id |-> id, gone |-> TRUE] /\ now(o).gone ELSE now(o) = o)
    BY DEF ChatPage, ChatRow
  <2> HIDE DEF now
  <2>2. /\ rows \in SUBSET ChatRow
        /\ \A m \in page.rows : IF m.id = id THEN [id |-> id, gone |-> TRUE] \in rows ELSE m \in rows
        /\ \A m \in rows : \E o \in page.rows : o.id = m.id /\ (IF m.id = id THEN m.gone ELSE m = o)
    BY <2>1
  <2>3. MarkGone(page, id) = [page EXCEPT !.rows = rows]
    BY DEF MarkGone, now
  <2> HIDE DEF rows
  <2>4. MarkGone(page, id) \in ChatPage /\ MarkGone(page, id).next = page.next /\ MarkGone(page, id).rows = rows
    BY <2>2, <2>3 DEF ChatPage
  <2> QED
    BY <2>2, <2>4
<1>4. \A p \in DOMAIN pages : marked[p] = MarkGone(pages[p], id)
  OBVIOUS
<1>5. DOMAIN marked = DOMAIN pages /\ DOMAIN pages = 1..Len(pages) /\ Len(pages) \in Nat
  BY <1>1
<1>6. marked \in Seq(ChatPage) /\ (marked = << >> <=> pages = << >>)
  BY <1>1, <1>3, <1>5, IsASeq, EmptySeq
<1> HIDE DEF marked
<1>7. with.pages = marked /\ with.loaded = data.loaded /\ with \in ChatDatas
  BY <1>2, <1>6
<1> HIDE DEF with
<1>8. \A p \in DOMAIN pages : marked[p].next = pages[p].next
  BY <1>1, <1>3, <1>4
<1>9. \A p \in DOMAIN pages : \A m \in pages[p].rows :
        IF m.id = id THEN [id |-> id, gone |-> TRUE] \in marked[p].rows ELSE m \in marked[p].rows
  <2> TAKE p \in DOMAIN pages
  <2> QED
    BY <1>1, <1>3, <1>4
<1>10. \A p \in DOMAIN pages : \A m \in marked[p].rows :
         \E o \in pages[p].rows : o.id = m.id /\ (IF m.id = id THEN m.gone ELSE m = o)
  BY <1>1, <1>3, <1>4
<1> QED
  BY <1>5, <1>6, <1>7, <1>8, <1>9, <1>10, Zenon DEF with

(* What an added message changes in the rows shown.                        *)
LEMMA RowsAdded ==
    ASSUME NEW data \in ChatDatas, NEW id \in Nat \ {0}, data.loaded => data.pages # << >>
    PROVE  LET with == withMessage(data, [id |-> id, gone |-> FALSE])
           IN  /\ with \in ChatDatas /\ with.loaded = data.loaded
               /\ with.pages = << >> <=> data.pages = << >>
               /\ getNextPageParam(with.pages) = getNextPageParam(data.pages)
               /\ Reach(with.pages) = Reach(data.pages)
               /\ Rows(data.pages) \subseteq Rows(with.pages)
               /\ \A m \in Rows(with.pages) :
                    m \in Rows(data.pages) \/ (Adds(data, id) /\ m = [id |-> id, gone |-> FALSE])
               /\ Ids(data.pages) \subseteq Ids(with.pages)
               /\ data.loaded => id \in Ids(with.pages)
<1> DEFINE with == withMessage(data, [id |-> id, gone |-> FALSE])
           old == data.pages
           new == with.pages
<1>1. /\ with \in ChatDatas /\ with.loaded = data.loaded
      /\ DOMAIN new = DOMAIN old
      /\ \A p \in DOMAIN old : new[p].next = old[p].next
      /\ \A p \in DOMAIN old : old[p].rows \subseteq new[p].rows
      /\ \A p \in DOMAIN old : \A m \in new[p].rows :
           m \in old[p].rows \/ (Adds(data, id) /\ p = 1 /\ m = [id |-> id, gone |-> FALSE])
      /\ data.loaded => id \in Ids(new)
      /\ new = << >> <=> old = << >>
  BY RowAdded
<1>2. old \in Seq(ChatPage) /\ new \in Seq(ChatPage)
  BY <1>1 DEF ChatDatas
<1> HIDE DEF with, old, new
<1>3. getNextPageParam(new) = getNextPageParam(old)
  BY <1>1, <1>2 DEF getNextPageParam, Last
<1>4. Rows(old) \subseteq Rows(new)
  BY <1>1, RowIn
<1>5. \A m \in Rows(new) : m \in Rows(old) \/ (Adds(data, id) /\ m = [id |-> id, gone |-> FALSE])
  BY <1>1, RowIn
<1>6. Ids(old) \subseteq Ids(new)
  BY <1>4, RowIn
<1> QED
  BY <1>1, <1>3, <1>4, <1>5, <1>6 DEF with, old, new, Reach

(* What marking a message as deleted changes in the rows shown.            *)
LEMMA RowsMarked ==
    ASSUME NEW data \in ChatDatas, NEW id \in Nat \ {0}
    PROVE  LET with == withDeleted(data, id)
           IN  /\ with \in ChatDatas /\ with.loaded = data.loaded
               /\ with.pages = << >> <=> data.pages = << >>
               /\ getNextPageParam(with.pages) = getNextPageParam(data.pages)
               /\ Reach(with.pages) = Reach(data.pages)
               /\ \A m \in Rows(data.pages) : IF m.id = id THEN [id |-> id, gone |-> TRUE] \in Rows(with.pages)
                                              ELSE m \in Rows(with.pages)
               /\ \A m \in Rows(with.pages) :
                    \E o \in Rows(data.pages) : o.id = m.id /\ (IF m.id = id THEN m.gone ELSE m = o)
               /\ Ids(with.pages) = Ids(data.pages)
<1> DEFINE with == withDeleted(data, id)
           old == data.pages
           new == with.pages
           dead == [id |-> id, gone |-> TRUE]
<1>1. /\ with \in ChatDatas /\ with.loaded = data.loaded
      /\ DOMAIN new = DOMAIN old
      /\ \A p \in DOMAIN old : new[p].next = old[p].next
      /\ \A p \in DOMAIN old : \A m \in old[p].rows :
           IF m.id = id THEN dead \in new[p].rows ELSE m \in new[p].rows
      /\ \A p \in DOMAIN old : \A m \in new[p].rows :
           \E o \in old[p].rows : o.id = m.id /\ (IF m.id = id THEN m.gone ELSE m = o)
      /\ new = << >> <=> old = << >>
  BY MessageMarked
<1>2. old \in Seq(ChatPage) /\ new \in Seq(ChatPage) /\ dead.id = id
  BY <1>1 DEF ChatDatas
<1> HIDE DEF with, old, new, dead
<1>3. getNextPageParam(new) = getNextPageParam(old)
  BY <1>1, <1>2 DEF getNextPageParam, Last
<1>4. \A m \in Rows(old) : IF m.id = id THEN dead \in Rows(new) ELSE m \in Rows(new)
  BY RowIn, <1>1
<1>5. \A m \in Rows(new) : \E o \in Rows(old) : o.id = m.id /\ (IF m.id = id THEN m.gone ELSE m = o)
  BY <1>1, RowIn
<1>6. Ids(new) = Ids(old)
  <2>1. ASSUME NEW i \in Ids(new) PROVE i \in Ids(old)
    BY <2>1, <1>5, RowIn
  <2>2. ASSUME NEW i \in Ids(old) PROVE i \in Ids(new)
    BY <2>2, <1>4, <1>2, RowIn
  <2> QED
    BY <2>1, <2>2
<1> QED
  BY <1>1, <1>3, <1>4, <1>5, <1>6, Zenon DEF with, old, new, dead, Reach

-----------------------------------------------------------------------------
(* What the invariant says of pages, as they change.                       *)

(* Pages reach no further than the server's messages do.                   *)
LEMMA ReachReal ==
    ASSUME NEW all \in SaidRows, NEW pages \in Seq(ChatPage), Real(pages, all)
    PROVE  /\ Reach(pages) \in 1..(Len(all) + 1) /\ getNextPageParam(pages) \in 0..Len(all)
           /\ getNextPageParam(pages) # 1
           /\ \A m \in Rows(pages) : m \in ChatRow /\ m.id \in DOMAIN all /\ (m.gone => all[m.id].gone)
           /\ \A id \in Ids(pages) : id \in DOMAIN all
<1>1. Len(all) \in Nat
  BY DEF SaidRows
<1>2. pages # << >> => getNextPageParam(pages) = pages[Len(pages)].next /\ pages[Len(pages)].next \in Nat \ {1}
                       /\ pages[Len(pages)].next <= Len(all)
  BY ReachTyped DEF ChatPage, Real
<1>3. pages = << >> => getNextPageParam(pages) = 0
  BY DEF getNextPageParam
<1>4. \A m \in Rows(pages) : m \in ChatRow /\ m.id \in DOMAIN all /\ (m.gone => all[m.id].gone)
  BY ReachTyped, RowIn DEF Real
<1> QED
  BY <1>1, <1>2, <1>3, <1>4, RowIn DEF Reach

(* The server's messages and what is on its way only grow.                 *)
Onward(all, all2, creates, creates2, deletes, deletes2) ==
    /\ DOMAIN all \subseteq DOMAIN all2 /\ Len(all) <= Len(all2)
    /\ creates \subseteq creates2 /\ deletes \subseteq deletes2
    /\ \A id \in DOMAIN all : (all[id].gone => all2[id].gone) /\ (all2[id].gone => all[id].gone \/ id \in deletes2)
    /\ \A id \in DOMAIN all2 \ DOMAIN all : id \in creates2

(* Then pages are what they were.                                          *)
LEMMA OnwardKeeps ==
    ASSUME NEW all \in SaidRows, NEW all2 \in SaidRows, NEW c, NEW c2, NEW d, NEW d2, NEW pages \in Seq(ChatPage),
           Onward(all, all2, c, c2, d, d2), Real(pages, all)
    PROVE  /\ Real(pages, all2)
           /\ Right(pages, all, d) => Right(pages, all2, d2)
           /\ \A s : Whole(pages, s, all, c) => Whole(pages, s, all2, c2)
           /\ \A to \in 1..(Len(all) + 1) : Spans(pages, to, all) => Spans(pages, to, all2)
<1>1. /\ \A m \in Rows(pages) : m.id \in DOMAIN all /\ (m.gone => all[m.id].gone)
      /\ \A p \in DOMAIN pages : pages[p].next \in Nat
  BY ReachReal, ReachTyped DEF ChatPage
<1>2. Len(all) \in Nat /\ Len(all2) \in Nat /\ DOMAIN all = 1..Len(all) /\ DOMAIN all2 = 1..Len(all2)
  BY DEF SaidRows
<1>3. Real(pages, all2)
  BY <1>1, <1>2 DEF Onward, Real
<1>4. Right(pages, all, d) => Right(pages, all2, d2)
  BY <1>1 DEF Onward, Right
<1>5. \A s : Whole(pages, s, all, c) => Whole(pages, s, all2, c2)
  BY DEF Onward, Whole
<1>6. \A to \in 1..(Len(all) + 1) : Spans(pages, to, all) => Spans(pages, to, all2)
  BY <1>2 DEF Onward, Spans
<1> QED
  BY <1>3, <1>4, <1>5, <1>6

(* A message added: what the pages say stays true.                         *)
LEMMA AddedKeeps ==
    ASSUME NEW all \in SaidRows, NEW data \in ChatDatas, NEW id \in DOMAIN all, data.loaded => data.pages # << >>,
           Real(data.pages, all)
    PROVE  LET new == withMessage(data, [id |-> id, gone |-> FALSE]).pages
           IN  /\ Real(new, all)
               /\ Once(data.pages) => Once(new)
               /\ Above(data.pages) /\ (Adds(data, id) => id >= Reach(data.pages)) => Above(new)
               /\ \A d : Right(data.pages, all, d) /\ (Adds(data, id) /\ all[id].gone => id \in d) => Right(new, all, d)
               /\ \A s, c, c2 : data.loaded /\ Whole(data.pages, s, all, c) /\ c \subseteq c2 \cup {id} => Whole(new, s, all, c2)
               /\ Marked(data.pages) \subseteq Marked(new)
               /\ \A i : OnPages(data.pages, i) => OnPages(new, i)
               /\ data.loaded => OnPages(new, id)
<1> DEFINE row == [id |-> id, gone |-> FALSE]
           with == withMessage(data, row)
           old == data.pages
           new == with.pages
<1>0. id \in Nat \ {0} /\ row.id = id /\ ~row.gone
  BY DEF SaidRows
<1>1. /\ DOMAIN new = DOMAIN old
      /\ \A p \in DOMAIN old : new[p].next = old[p].next
      /\ \A p \in DOMAIN old : old[p].rows \subseteq new[p].rows
      /\ \A p \in DOMAIN old : \A m \in new[p].rows : m \in old[p].rows \/ (Adds(data, id) /\ p = 1 /\ m = row)
  BY <1>0, RowAdded
<1>2. /\ Reach(new) = Reach(old)
      /\ Rows(old) \subseteq Rows(new)
      /\ \A m \in Rows(new) : m \in Rows(old) \/ (Adds(data, id) /\ m = row)
      /\ Ids(old) \subseteq Ids(new)
      /\ data.loaded => id \in Ids(new)
  BY <1>0, RowsAdded
<1> HIDE DEF row, with, old, new
<1>3. Real(new, all)
  BY <1>0, <1>1 DEF old, Real
<1>4. Once(old) => Once(new)
  BY RowIn, <1>0, <1>1 DEF Once, Adds, old
<1>5. Above(old) /\ (Adds(data, id) => id >= Reach(old)) => Above(new)
  BY <1>0, <1>2 DEF Above
<1>6. \A d : Right(old, all, d) /\ (Adds(data, id) /\ all[id].gone => id \in d) => Right(new, all, d)
  BY <1>0, <1>2 DEF Right
<1>7. \A s, c, c2 : data.loaded /\ Whole(old, s, all, c) /\ c \subseteq c2 \cup {id} => Whole(new, s, all, c2)
  BY <1>2 DEF Whole
<1>8. Marked(old) \subseteq Marked(new)
  BY <1>2 DEF Marked
<1>9. (\A i : OnPages(old, i) => OnPages(new, i)) /\ (data.loaded => OnPages(new, id))
  BY <1>2 DEF OnPages
<1> QED
  BY <1>3, <1>4, <1>5, <1>6, <1>7, <1>8, <1>9 DEF row, with, old, new

(* A message marked as deleted: what the pages say stays true.             *)
LEMMA MarkedKeeps ==
    ASSUME NEW all \in SaidRows, NEW data \in ChatDatas, NEW id \in DOMAIN all, all[id].gone, Real(data.pages, all)
    PROVE  LET new == withDeleted(data, id).pages
           IN  /\ Real(new, all)
               /\ Once(data.pages) => Once(new)
               /\ Above(data.pages) => Above(new)
               /\ \A d, d2 : Right(data.pages, all, d) /\ d \subseteq d2 \cup {id} => Right(new, all, d2)
               /\ \A s, c : Whole(data.pages, s, all, c) => Whole(new, s, all, c)
               /\ Marked(data.pages) \subseteq Marked(new)
               /\ id \in Ids(data.pages) => id \in Marked(new)
               /\ \A i : OnPages(data.pages, i) => OnPages(new, i)
<1> DEFINE dead == [id |-> id, gone |-> TRUE]
           with == withDeleted(data, id)
           old == data.pages
           new == with.pages
<1>0. id \in Nat \ {0} /\ dead.id = id /\ dead.gone
  BY DEF SaidRows
<1>1. /\ DOMAIN new = DOMAIN old
      /\ \A p \in DOMAIN old : new[p].next = old[p].next
      /\ \A p \in DOMAIN old : \A m \in old[p].rows : IF m.id = id THEN dead \in new[p].rows ELSE m \in new[p].rows
      /\ \A p \in DOMAIN old : \A m \in new[p].rows :
           \E o \in old[p].rows : o.id = m.id /\ (IF m.id = id THEN m.gone ELSE m = o)
  BY <1>0, MessageMarked
<1>2. /\ Reach(new) = Reach(old) /\ Ids(new) = Ids(old)
      /\ \A m \in Rows(old) : IF m.id = id THEN dead \in Rows(new) ELSE m \in Rows(new)
      /\ \A m \in Rows(new) : \E o \in Rows(old) : o.id = m.id /\ (IF m.id = id THEN m.gone ELSE m = o)
      /\ \A p \in DOMAIN new : \A m \in new[p].rows : m \in ChatRow
  <2>1. with \in ChatDatas
    BY <1>0, MessageMarked
  <2>2. new \in Seq(ChatPage)
    BY <2>1 DEF ChatDatas
  <2> HIDE DEF new
  <2>3. \A p \in DOMAIN new : new[p] \in ChatPage
    BY <2>2
  <2> USE DEF new
  <2> QED
    BY <2>3, <1>0, RowsMarked DEF ChatPage
<1> HIDE DEF dead, with, old, new
<1>3. Real(new, all)
  BY <1>1 DEF old, Real
<1>4. Once(old) => Once(new)
  BY <1>1, <1>2 DEF Once, ChatRow
<1>5. Above(old) => Above(new)
  BY <1>2 DEF Above
<1>6. \A d, d2 : Right(old, all, d) /\ d \subseteq d2 \cup {id} => Right(new, all, d2)
  BY <1>2 DEF Right
<1>7. \A s, c : Whole(old, s, all, c) => Whole(new, s, all, c)
  BY <1>2 DEF Whole
<1>8. Marked(old) \subseteq Marked(new) /\ (id \in Ids(old) => id \in Marked(new))
  BY <1>2, RowIn DEF Marked, dead
<1>9. \A i : OnPages(old, i) => OnPages(new, i)
  BY <1>2 DEF OnPages
<1> QED
  BY <1>3, <1>4, <1>5, <1>6, <1>7, <1>8, <1>9 DEF dead, with, old, new

(* A page read after others.                                               *)
LEMMA PageRead ==
    ASSUME NEW all \in SaidRows, NEW pages \in Seq(ChatPage), NEW page, NEW before \in 0..Len(all),
           PageOf(page, before, all), Real(pages, all), Once(pages), Above(pages), before # 1,
           pages # << >> => before = getNextPageParam(pages) /\ before # 0
    PROVE  LET more == Append(pages, page)
           IN  /\ more \in Seq(ChatPage) /\ more # << >>
               /\ Real(more, all) /\ Once(more) /\ Above(more)
               /\ \A d : Right(pages, all, d) => Right(more, all, d)
               /\ \A s, c : before = 0 \/ (pages # << >> /\ Whole(pages, s, all, c)) => Whole(more, s, all, c)
               /\ \A to \in Nat : before = 0 \/ to <= before \/ (pages # << >> /\ Spans(pages, to, all)) => Spans(more, to, all)
               /\ pages = << >> /\ before # 0 => Below(more, before) /\ Filled(more)
<1> DEFINE more == Append(pages, page)
           len == Len(pages)
           end == Len(all)
<1>1. /\ more \in Seq(ChatPage) /\ more # << >> /\ getNextPageParam(more) = page.next
      /\ \A m : m \in Rows(more) <=> m \in Rows(pages) \/ m \in page.rows
      /\ DOMAIN more = 1..(len + 1) /\ DOMAIN pages = 1..len
      /\ \A p \in DOMAIN more : more[p] = IF p = len + 1 THEN page ELSE pages[p]
  BY OnePageMore DEF PageOf
<1>2. len \in Nat /\ (pages = << >> <=> len = 0) /\ end \in Nat /\ DOMAIN all = 1..end
  BY DEF SaidRows
<1>3. page \in ChatPage /\ page.next \in Nat \ {1} /\ \A m \in page.rows : m \in ChatRow /\ m.id \in Nat \ {0}
  BY DEF PageOf, ChatPage, ChatRow
<1>4. pages # << >> => Reach(pages) = before
  BY ReachTyped
<1>5. \A m \in Rows(pages) : m \in ChatRow /\ m.id \in DOMAIN all /\ m.id \in Nat \ {0} /\ (pages # << >> => m.id >= before)
  BY <1>4, ReachReal DEF Above, ChatRow
<1>6. pages = << >> => Rows(pages) = {}
  BY NoRows
<1>7. Reach(more) = IF page.next = 0 THEN 1 ELSE page.next
  BY <1>1 DEF Reach
<1>8. \A m \in page.rows : m.id \in DOMAIN all /\ m.gone = all[m.id].gone /\ m.id >= page.next /\ (before # 0 => m.id < before)
  BY <1>2, <1>3 DEF PageOf
<1>9. \A id : id \in Ids(more) <=> id \in Ids(pages) \/ \E m \in page.rows : m.id = id
  BY <1>1, RowIn
<1>10. page.next <= end /\ (before # 0 => page.next < before) /\ (before > 1 => page.rows # {})
  BY DEF PageOf
<1>11. \A id \in DOMAIN all : id >= page.next /\ (before = 0 \/ id < before) => \E m \in page.rows : m.id = id
  BY <1>2, <1>3 DEF PageOf
<1>12. \A m, n \in page.rows : m.id = n.id => m = n
  BY DEF PageOf
<1> HIDE DEF more, len, end
<1>13. Real(more, all)
  BY <1>1, <1>2, <1>8, <1>10 DEF Real, end
<1>14. Once(more)
  BY RowIn, <1>3, <1>5, <1>6, <1>8, <1>1, <1>12, <1>2 DEF Once
<1>15. Above(more)
  BY <1>1, <1>3, <1>5, <1>6, <1>7, <1>8, <1>10 DEF Above
<1>16. \A d : Right(pages, all, d) => Right(more, all, d)
  BY <1>1, <1>8 DEF Right
<1>17. \A s, c : before = 0 \/ (pages # << >> /\ Whole(pages, s, all, c)) => Whole(more, s, all, c)
  BY <1>2, <1>3, <1>4, <1>7, <1>9, <1>11 DEF Whole
<1>18. \A to \in Nat : before = 0 \/ to <= before \/ (pages # << >> /\ Spans(pages, to, all)) => Spans(more, to, all)
  BY <1>2, <1>3, <1>4, <1>7, <1>9, <1>11 DEF Spans
<1>19. pages = << >> /\ before # 0 => Below(more, before) /\ Filled(more)
  BY <1>1, <1>6, <1>8, <1>2, <1>10 DEF Below, Filled
<1> QED
  BY <1>1, <1>13, <1>14, <1>15, <1>16, <1>17, <1>18, <1>19 DEF more

(* A page put under those shown when it was asked for.                     *)
LEMMA PutUnder ==
    ASSUME NEW all \in SaidRows, NEW base \in Seq(ChatPage), NEW got \in Seq(ChatPage), got # << >>, Real(got, all),
           Real(base, all), base # << >> => getNextPageParam(base) # 0 /\ Filled(got) /\ Below(got, Reach(base)),
           Above(got), Once(got)
    PROVE  LET under == base \o got
           IN  /\ under \in Seq(ChatPage) /\ under # << >> /\ Reach(under) = Reach(got)
               /\ base # << >> => Reach(under) < Reach(base)
               /\ Real(under, all)
               /\ Once(base) /\ Above(base) => Once(under) /\ Above(under)
               /\ \A m : m \in Rows(under) <=> m \in Rows(base) \/ m \in Rows(got)
               /\ \A id : id \in Ids(under) <=> id \in Ids(base) \/ id \in Ids(got)
<1> DEFINE under == base \o got
           len == Len(base)
           end == Len(all)
<1>1. /\ under \in Seq(ChatPage) /\ under # << >> /\ Reach(under) = Reach(got)
      /\ \A m : m \in Rows(under) <=> m \in Rows(base) \/ m \in Rows(got)
      /\ DOMAIN under = 1..(len + Len(got)) /\ DOMAIN base = 1..len /\ DOMAIN got = 1..Len(got)
      /\ \A p \in DOMAIN under : under[p] = IF p <= len THEN base[p] ELSE got[p - len]
  BY PagesUnder
<1>2. len \in Nat /\ (base = << >> <=> len = 0) /\ Len(got) \in Nat \ {0} /\ end \in Nat /\ DOMAIN all = 1..end
  BY DEF SaidRows
<1>3. \A id : id \in Ids(under) <=> id \in Ids(base) \/ id \in Ids(got)
  BY <1>1, RowIn
<1>4. base = << >> => Rows(base) = {}
  BY NoRows
<1>5. Reach(base) \in Nat /\ Reach(got) \in Nat /\ (\A m \in Rows(base) : m.id \in Nat) /\ (\A m \in Rows(got) : m.id \in Nat)
  BY ReachTyped DEF ChatRow
<1>6. base # << >> => Reach(got) < Reach(base)
  <2> SUFFICES ASSUME base # << >> PROVE Reach(got) < Reach(base)
    OBVIOUS
  <2>1. 1 \in DOMAIN got
    BY <1>1, <1>2
  <2>2. PICK m : m \in got[1].rows
    BY <2>1 DEF Filled
  <2>3. m \in Rows(got)
    BY <2>1, <2>2, RowIn
  <2> QED
    BY <2>3, <1>5 DEF Above, Below
<1> HIDE DEF under, len, end
<1>7. \A p \in DOMAIN under : \/ p \in DOMAIN base /\ under[p] = base[p]
                              \/ p > len /\ p - len \in DOMAIN got /\ under[p] = got[p - len]
  BY <1>1, <1>2
<1>8. Real(under, all)
  BY <1>2, <1>1, <1>7 DEF Real, end, Filled
<1>9. ASSUME Once(base), Above(base) PROVE Once(under) /\ Above(under)
  <2>1. \A x \in Rows(base), y \in Rows(got) : x.id # y.id
    BY <1>4, <1>5, <1>9 DEF Above, Below
  <2>2. Above(under)
    BY <1>9, <1>1, <1>4, <1>5, <1>6 DEF Above
  <2>3. Once(under)
    <3> SUFFICES ASSUME NEW p \in DOMAIN under, NEW q \in DOMAIN under, NEW m \in under[p].rows, NEW n \in under[q].rows,
                        m.id = n.id
                 PROVE  p = q /\ m = n
      BY DEF Once
    <3>1. \A r \in DOMAIN base : \A x \in base[r].rows : x \in Rows(base)
      BY RowIn
    <3>2. \A r \in DOMAIN got : \A x \in got[r].rows : x \in Rows(got)
      BY RowIn
    <3>3. CASE p \in DOMAIN base /\ under[p] = base[p] /\ q \in DOMAIN base /\ under[q] = base[q]
      BY <3>3, <1>9 DEF Once
    <3>4. CASE p > len /\ p - len \in DOMAIN got /\ under[p] = got[p - len] /\ q > len /\ q - len \in DOMAIN got /\ under[q] = got[q - len]
      BY <3>4, <1>1, <1>2 DEF Once
    <3> QED
      BY <3>1, <3>2, <3>3, <3>4, <2>1, <1>7
  <2> QED
    BY <2>2, <2>3
<1> QED
  BY <1>1, <1>3, <1>6, <1>8, <1>9 DEF under

-----------------------------------------------------------------------------
(* The channel.                                                            *)

(* Announcements of two messages, or of two kinds, differ.                 *)
LEMMA EventsDiffer ==
    /\ \A i, j : Created(i) # Deleted(j) /\ (Created(i) = Created(j) => i = j) /\ (Deleted(i) = Deleted(j) => i = j)
    /\ \A i : Created(i) # Opened /\ Deleted(i) # Opened
    /\ \A i : Created(i).type = "chat.message_created" /\ Created(i).id = i
              /\ Deleted(i).type = "chat.message_deleted" /\ Deleted(i).id = i
    /\ Opened.type = "open" /\ Opened \in ChatFrame
    /\ \A i \in Nat : Created(i) \in ChatFrame /\ Deleted(i) \in ChatFrame
BY DEF Created, Event, Deleted, Opened, ChatFrame

(* What is on its way stays so, unless it is handled.                      *)
LEMMA OnItsWay ==
    ASSUME NEW s, NEW waits, NEW all, NEW s2, NEW waits2, NEW all2, DOMAIN all \subseteq DOMAIN all2,
           Reopens(s) => Reopens(s2),
           \A f : f \in waits \/ f \in ToSet(s.queue) => f \in waits2 \/ f \in ToSet(s2.queue)
    PROVE  CreatesOf(s, waits, all) \subseteq CreatesOf(s2, waits2, all2) /\ DeletesOf(s, waits, all) \subseteq DeletesOf(s2, waits2, all2)
BY DEF CreatesOf, DeletesOf

(* The messages after one more.                                            *)
LEMMA Speaks ==
    ASSUME said \in SaidRows, NEW mine \in BOOLEAN, create_message(mine)
    PROVE  /\ said' \in SaidRows /\ Len(said') = Len(said) + 1
           /\ DOMAIN said = 1..Len(said) /\ DOMAIN said' = 1..(Len(said) + 1) /\ Len(said) \in Nat
           /\ \A i \in DOMAIN said : said'[i] = said[i]
           /\ said'[Len(said) + 1] = [mine |-> mine, gone |-> FALSE]
           /\ outbox' = outbox \cup {Created(Len(said) + 1)}
BY DEF create_message, SaidRows, schedule_project_event, Created

(* The messages after a deletion.                                          *)
LEMMA Removes ==
    ASSUME said \in SaidRows, NEW id \in DOMAIN said, delete_message(id)
    PROVE  /\ said' \in SaidRows /\ Len(said') = Len(said) /\ DOMAIN said' = DOMAIN said
           /\ DOMAIN said = 1..Len(said) /\ Len(said) \in Nat
           /\ \A i \in DOMAIN said : said'[i].mine = said[i].mine /\ said'[i].gone = (said[i].gone \/ i = id)
           /\ outbox' = outbox \cup {Deleted(id)}
<1> DEFINE row == [said[id] EXCEPT !.gone = TRUE]
<1>1. \A i \in DOMAIN said : said[i] \in [mine : BOOLEAN, gone : BOOLEAN]
  <2>1. DOMAIN said = 1..Len(said)
    BY DEF SaidRows
  <2> QED
    BY <2>1, ElementOfSeq DEF SaidRows
<1>2. row \in [mine : BOOLEAN, gone : BOOLEAN] /\ row.mine = said[id].mine /\ row.gone = TRUE
  BY <1>1
<1>3. said' = [said EXCEPT ![id] = row] /\ outbox' = outbox \cup {Deleted(id)}
  BY DEF delete_message, schedule_project_event, Deleted
<1> HIDE DEF row
<1>4. /\ said' \in SaidRows /\ Len(said') = Len(said) /\ DOMAIN said' = DOMAIN said
      /\ DOMAIN said = 1..Len(said) /\ Len(said) \in Nat
      /\ \A i \in DOMAIN said : said'[i] = IF i = id THEN row ELSE said[i]
  BY <1>2, <1>3 DEF SaidRows
<1> QED
  BY <1>1, <1>2, <1>3, <1>4

(* A message more: it is announced, and all else stays.                    *)
LEMMA SpeaksChannel ==
    ASSUME RoomTyped, ChannelInv, NEW mine \in BOOLEAN, create_message(mine), UNCHANGED stream
    PROVE  /\ ChannelInv'
           /\ InOrder => InOrder'
           /\ Onward(said, said', Creates, Creates', Deletes, Deletes')
<1> DEFINE new == Len(said) + 1
<1>0. said \in SaidRows
  BY DEF RoomTyped
<1>1. /\ DOMAIN said = 1..Len(said) /\ DOMAIN said' = 1..new /\ Len(said') = new /\ Len(said) \in Nat
      /\ \A i \in DOMAIN said : said'[i] = said[i]
      /\ said'[new].gone = FALSE
      /\ outbox' = outbox \cup {Created(new)} /\ said' \in SaidRows
  <2>1. said'[new] = [mine |-> mine, gone |-> FALSE]
    BY <1>0, Speaks
  <2>2. said'[new].gone = FALSE
    BY <2>1
  <2> HIDE DEF new
  <2>3. /\ said' \in SaidRows /\ Len(said') = new
        /\ DOMAIN said = 1..Len(said) /\ DOMAIN said' = 1..new /\ Len(said) \in Nat
        /\ \A i \in DOMAIN said : said'[i] = said[i]
        /\ outbox' = outbox \cup {Created(new)}
    BY <1>0, Speaks, Zenon DEF new
  <2> QED
    BY <2>2, <2>3
<1>2. DOMAIN said \subseteq DOMAIN said' /\ new \in DOMAIN said' /\ new \in Nat /\ new \notin DOMAIN said
      /\ \A i \in DOMAIN said' : i = new \/ i \in DOMAIN said
  BY <1>1
<1> HIDE DEF new
<1>3. \A e : IsEvent(e, said) => IsEvent(e, said')
  BY <1>1, <1>2 DEF IsEvent
<1>4. IsEvent(Created(new), said') /\ Created(new) \in ChatFrame
  BY <1>2, EventsDiffer DEF IsEvent
<1>5. ChannelInv'
  BY <1>1, <1>3, <1>4 DEF ChannelInv, Channel
<1>6. ASSUME InOrder PROVE InOrder'
  BY <1>1, <1>2, EventsDiffer, <1>6 DEF InOrder, Orderly
<1>7. Onward(said, said', Creates, Creates', Deletes, Deletes')
  BY <1>1, <1>2, OnItsWay DEF Reopens, Creates, Deletes, CreatesOf, new, Onward
<1> QED
  BY <1>5, <1>6, <1>7

(* A deletion: it is announced, and all else stays.                        *)
LEMMA RemovesChannel ==
    ASSUME RoomTyped, ChannelInv, NEW id \in DOMAIN said, delete_message(id), UNCHANGED stream
    PROVE  /\ ChannelInv'
           /\ InOrder => InOrder'
           /\ Onward(said, said', Creates, Creates', Deletes, Deletes')
<1>0. said \in SaidRows
  BY DEF RoomTyped
<1>1. /\ said' \in SaidRows /\ Len(said') = Len(said) /\ DOMAIN said' = DOMAIN said
      /\ DOMAIN said = 1..Len(said) /\ Len(said) \in Nat
      /\ \A i \in DOMAIN said : said'[i].gone = (said[i].gone \/ i = id)
      /\ outbox' = outbox \cup {Deleted(id)}
  BY <1>0, Removes
<1>2. id \in Nat
  BY <1>1
<1>3. \A e : IsEvent(e, said) => IsEvent(e, said')
  BY <1>1 DEF IsEvent
<1>4. IsEvent(Deleted(id), said') /\ Deleted(id) \in ChatFrame
  BY <1>1, <1>2, EventsDiffer DEF IsEvent
<1>5. ChannelInv'
  BY <1>1, <1>3, <1>4 DEF ChannelInv, Channel
<1>6. ASSUME InOrder PROVE InOrder'
  BY <1>1, <1>6, EventsDiffer DEF InOrder, Orderly
<1>7. Onward(said, said', Creates, Creates', Deletes, Deletes')
  <2>1. Creates \subseteq Creates' /\ Deletes \subseteq Deletes'
    BY <1>1, OnItsWay DEF Reopens, Creates, Deletes
  <2>2. id \in Deletes'
    BY <1>1 DEF Deletes, DeletesOf
  <2>3. \A i \in DOMAIN said : (said[i].gone => said'[i].gone) /\ (said'[i].gone => said[i].gone \/ i \in Deletes')
    BY <1>1, <2>2
  <2>4. DOMAIN said \subseteq DOMAIN said' /\ Len(said) <= Len(said') /\ DOMAIN said' \ DOMAIN said = {}
    BY <1>1
  <2> QED
    BY <2>1, <2>3, <2>4, Zenon DEF Onward
<1> QED
  BY <1>5, <1>6, <1>7

(* An announcement goes out to the subscribers there are.                  *)
LEMMA PublishesChannel ==
    ASSUME RoomTyped, ChannelInv, NEW e \in outbox, publish_project_event(e), UNCHANGED said
    PROVE  /\ ChannelInv'
           /\ InOrder /\ ~Overtakes(e) => InOrder'
           /\ Onward(said, said', Creates, Creates', Deletes, Deletes')
<1>1. /\ stream \in Events /\ outbox' = outbox \ {e} /\ stream.queue \in Seq(ChatFrame) /\ e \in ChatFrame
      /\ IsEvent(e, said) /\ stream' = IF stream.at = "open" THEN [stream EXCEPT !.queue = Append(@, e)] ELSE stream
  BY DEF publish_project_event, ChannelInv, Channel, Events
<1>2. CASE stream.at # "open"
  BY <1>1, <1>2, EventsDiffer DEF ChannelInv, Channel, Reopens, InOrder, Orderly, Overtakes, Created,
     IsEvent, Onward, Creates, Deletes, CreatesOf, DeletesOf, RoomTyped, SaidRows
<1>3. CASE stream.at = "open"
  <2> DEFINE old == stream.queue
             new == stream'.queue
             len == Len(old)
  <2>1. /\ stream' \in Events /\ stream'.at = "open" /\ new = Append(old, e)
    BY <1>1, <1>3 DEF Events
  <2>2. /\ DOMAIN old = 1..len /\ DOMAIN new = 1..(len + 1) /\ len \in Nat
        /\ \A i \in 1..len : new[i] = old[i]
        /\ new[len + 1] = e
    BY <2>1, <1>1
  <2>3. \A f : f \in ToSet(new) <=> f \in ToSet(old) \/ f = e
    BY <2>2 DEF ToSet
  <2> HIDE DEF old, new, len
  <2>4. ChannelInv'
    BY <2>2, <1>1, <2>1 DEF ChannelInv, Channel, old, new
  <2>5. ASSUME InOrder, ~Overtakes(e) PROVE InOrder'
    BY <2>5, EventsDiffer, <1>1, <2>2 DEF InOrder, Orderly, new, old, Overtakes, Created
  <2>6. Onward(said, said', Creates, Creates', Deletes, Deletes')
    BY <1>3, <2>1, <2>3, <1>1 DEF Reopens, old, new, Creates, Deletes, CreatesOf, DeletesOf, Onward,
       RoomTyped, SaidRows
  <2> QED
    BY <2>4, <2>5, <2>6
<1> QED
  BY <1>2, <1>3

(* A stream that breaks or is set up anew brings a refetch.                *)
LEMMA ReopensChannel ==
    ASSUME RoomTyped, ChannelInv, streamError \/ project_events_stream \/ scheduleReconnect, UNCHANGED said
    PROVE  /\ ChannelInv'
           /\ InOrder => InOrder'
           /\ Onward(said, said', Creates, Creates', Deletes, Deletes')
<1>1. /\ outbox' = outbox /\ Reopens(stream')
      /\ \/ stream' \in Events /\ stream'.queue = << >>
         \/ stream' \in Events /\ stream'.queue = <<Opened>> /\ stream'.at = "open"
  <2>1. CASE streamError \/ scheduleReconnect
    <3>1. outbox' = outbox /\ (stream' = [at |-> "waiting", queue |-> << >>] \/ stream' = [at |-> "connecting", queue |-> << >>])
      BY <2>1 DEF streamError, scheduleReconnect, Closed
    <3>2. << >> \in Seq(ChatFrame)
      OBVIOUS
    <3>3. stream' \in Events /\ stream'.queue = << >> /\ stream'.at # "open"
      <4>1. CASE stream' = [at |-> "waiting", queue |-> << >>]
        BY <4>1, <3>2 DEF Events
      <4>2. CASE stream' = [at |-> "connecting", queue |-> << >>]
        BY <4>2, <3>2 DEF Events
      <4> QED
        BY <3>1, <4>1, <4>2
    <3> QED
      BY <3>1, <3>3 DEF Reopens
  <2>2. CASE project_events_stream
    BY <2>2, EventsDiffer DEF project_events_stream, Events, Reopens, ToSet
  <2> QED
    BY <2>1, <2>2
<1>2. \A i \in DOMAIN stream'.queue : stream'.queue[i] = Opened
  BY <1>1
<1>3. ChannelInv'
  BY <1>1, <1>2 DEF ChannelInv, Channel
<1>4. ASSUME InOrder PROVE InOrder'
  BY <1>1, <1>2, <1>4, EventsDiffer DEF InOrder, Orderly
<1>5. Onward(said, said', Creates, Creates', Deletes, Deletes')
  BY <1>1 DEF Onward, Creates, Deletes, CreatesOf, DeletesOf, RoomTyped, SaidRows
<1> QED
  BY <1>3, <1>4, <1>5

(* The next frame is handled.                                              *)
LEMMA DeliversChannel ==
    ASSUME RoomTyped, ChannelInv, deliver, UNCHANGED said
    PROVE  /\ ChannelInv' /\ outbox' = outbox /\ stream.at = "open"
           /\ InOrder => InOrder'
           /\ \/ NextFrame = Opened
              \/ \E id \in DOMAIN said : /\ NextFrame = Created(id) /\ Creates \subseteq Creates' \cup {id} /\ Deletes \subseteq Deletes'
                                         /\ InOrder /\ said[id].gone => id \in Deletes'
              \/ \E id \in DOMAIN said : /\ NextFrame = Deleted(id) /\ said[id].gone
                                         /\ Creates \subseteq Creates' /\ Deletes \subseteq Deletes' \cup {id}
<1> DEFINE old == stream.queue
           new == stream'.queue
           len == Len(old)
<1>1. /\ stream \in Events /\ old \in Seq(ChatFrame) /\ old # << >> /\ outbox' = outbox /\ stream.at = "open"
      /\ stream' = [stream EXCEPT !.queue = Tail(old)]
  BY DEF deliver, ChannelInv, Channel, Events
<1>2. stream' \in Events /\ new = Tail(old) /\ stream'.at = "open"
  BY <1>1 DEF Events
<1>3. /\ DOMAIN old = 1..len /\ len \in Nat \ {0} /\ DOMAIN new = 1..(len - 1)
      /\ \A i \in 1..(len - 1) : new[i] = old[i + 1]
      /\ NextFrame = old[1]
  BY <1>1, <1>2 DEF NextFrame
<1>4. \A f : f \in ToSet(old) <=> f = old[1] \/ f \in ToSet(new)
  <2>1. \A i \in 1..len : i = 1 \/ (i - 1 \in 1..(len - 1) /\ old[i] = new[i - 1])
    BY <1>3
  <2>2. \A i \in 1..(len - 1) : i + 1 \in 1..len /\ new[i] = old[i + 1]
    BY <1>3
  <2> HIDE DEF old, new, len
  <2>3. ASSUME NEW f, f \in ToSet(old) PROVE f = old[1] \/ f \in ToSet(new)
    <3>1. PICK i \in DOMAIN old : f = old[i]
      BY <2>3 DEF ToSet
    <3> QED
      BY <3>1, <2>1, <1>3 DEF ToSet
  <2>4. ASSUME NEW f, f \in ToSet(new) PROVE f \in ToSet(old)
    BY <2>4, <2>2, <1>3 DEF ToSet
  <2>5. old[1] \in ToSet(old)
    BY <1>3 DEF ToSet
  <2> QED
    BY <2>3, <2>4, <2>5
<1> HIDE DEF old, new, len
<1>5. old[1] = Opened \/ IsEvent(old[1], said)
  BY <1>3 DEF ChannelInv, Channel, old
<1>6. ChannelInv'
  <2>1. \A i \in DOMAIN new : new[i] = Opened \/ IsEvent(new[i], said)
    <3> TAKE i \in DOMAIN new
    <3>1. i + 1 \in DOMAIN old /\ new[i] = old[i + 1]
      BY <1>3
    <3> QED
      BY <3>1 DEF ChannelInv, Channel, old
  <2> QED
    BY <2>1, <1>1, <1>2 DEF ChannelInv, Channel, new
<1>7. ASSUME InOrder PROVE InOrder'
  <2> SUFFICES ASSUME NEW id \in DOMAIN said, said[id].gone
               PROVE  /\ Created(id) \in outbox => Deleted(id) \in outbox
                      /\ \A i \in DOMAIN new : new[i] = Created(id) =>
                           Deleted(id) \in outbox \/ \E j \in DOMAIN new : j > i /\ new[j] = Deleted(id)
    BY <1>1 DEF InOrder, Orderly, new
  <2>1. /\ Created(id) \in outbox => Deleted(id) \in outbox
        /\ \A i \in DOMAIN old : old[i] = Created(id) =>
             Deleted(id) \in outbox \/ \E j \in DOMAIN old : j > i /\ old[j] = Deleted(id)
    BY <1>7 DEF InOrder, Orderly, old
  <2>2. ASSUME NEW i \in DOMAIN new, new[i] = Created(id), Deleted(id) \notin outbox
        PROVE  \E j \in DOMAIN new : j > i /\ new[j] = Deleted(id)
    <3>1. i + 1 \in DOMAIN old /\ old[i + 1] = Created(id) /\ i \in Nat
      BY <2>2, <1>3
    <3>2. PICK j \in DOMAIN old : j > i + 1 /\ old[j] = Deleted(id)
      BY <3>1, <2>1, <2>2
    <3>3. j - 1 \in DOMAIN new /\ j - 1 > i /\ new[j - 1] = Deleted(id)
      BY <3>1, <3>2, <1>3
    <3> QED
      BY <3>3
  <2> QED
    BY <2>1, <2>2
<1>8. CASE old[1] = Opened
  BY <1>1, <1>3, <1>6, <1>7, <1>8
<1>9. CASE IsEvent(old[1], said)
  <2>1. PICK id \in DOMAIN said : old[1] = Created(id) \/ (old[1] = Deleted(id) /\ said[id].gone)
    BY <1>9 DEF IsEvent
  <2>2. Reopens(stream) => Reopens(stream')
    BY <2>1, <1>1, <1>4, EventsDiffer DEF Reopens, old, new
  <2>3. CASE old[1] = Created(id)
    <3>1. Creates \subseteq Creates' \cup {id} /\ Deletes \subseteq Deletes'
      BY <2>2, <2>3, <1>1, <1>4, EventsDiffer DEF Creates, CreatesOf, old, new, Deletes, DeletesOf
    <3>2. ASSUME InOrder, said[id].gone PROVE id \in Deletes'
      <4>1. Deleted(id) \in outbox \/ \E j \in DOMAIN old : j > 1 /\ old[j] = Deleted(id)
        BY <3>2, <2>3, <1>3 DEF InOrder, Orderly, old
      <4>2. Deleted(id) \in outbox \/ Deleted(id) \in ToSet(old)
        BY <4>1 DEF ToSet
      <4>3. Deleted(id) \in outbox' \/ Deleted(id) \in ToSet(new)
        BY <4>2, <1>1, <1>4, <2>3, EventsDiffer
      <4> QED
        BY <4>3 DEF Deletes, DeletesOf, new
    <3> QED
      BY <3>1, <3>2, <2>3, <1>1, <1>3, <1>6, <1>7
  <2>4. CASE old[1] = Deleted(id) /\ said[id].gone
    <3>1. Creates \subseteq Creates' /\ Deletes \subseteq Deletes' \cup {id}
      <4>1. \A i \in Creates : i \in Creates'
        BY <2>2, <2>4, <1>1, <1>4, EventsDiffer DEF Creates, CreatesOf, old, new
      <4>2. \A i \in Deletes : i \in Deletes' \/ i = id
        BY <2>2, <2>4, <1>1, <1>4, EventsDiffer DEF Deletes, DeletesOf, old, new
      <4> QED
        BY <4>1, <4>2
    <3> QED
      BY <3>1, <2>4, <1>1, <1>3, <1>6, <1>7
  <2> QED
    BY <2>1, <2>3, <2>4
<1> QED
  BY <1>5, <1>8, <1>9

-----------------------------------------------------------------------------
(* The pages shown and fetched.                                            *)

(* Nothing fetched, nothing to say of it.                                  *)
LEMMA NothingYet ==
    /\ << >> \in Seq(ChatPage)
    /\ \A all : Real(<< >>, all)
    /\ Once(<< >>) /\ Above(<< >>) /\ Filled(<< >>)
    /\ \A cursor : Below(<< >>, cursor)
    /\ \A all, d : Right(<< >>, all, d)
BY NoRows DEF Real, Once, Above, Filled, Below, Right

(* The server's messages and announcements move on, the pages stay.        *)
LEMMA PagesOnward ==
    ASSUME said \in SaidRows, said' \in SaidRows, PagesInv, UNCHANGED <<chatData, chatFetch, belated>>,
           missed => missed', Onward(said, said', Creates, Creates', Deletes, Deletes')
    PROVE  PagesInv'
<1> DEFINE shown == chatData.pages
           base == chatFetch.base
           got == chatFetch.got
<1>1. shown \in Seq(ChatPage) /\ base \in Seq(ChatPage) /\ got \in Seq(ChatPage)
  BY DEF PagesInv, PagesTyped, ChatDatas, ChatFetches
<1>2. Real(shown, said) /\ Real(base, said) /\ Real(got, said)
  BY DEF PagesInv, FetchInv
<1>3. Reach(shown) \in 1..(Len(said) + 1) /\ Reach(base) \in 1..(Len(said) + 1)
  BY <1>1, <1>2, ReachReal
<1>4. Onward(said, said', Creates, Creates', Deletes \cup Marked(shown), Deletes' \cup Marked(shown))
  BY DEF Onward
<1> HIDE DEF shown, base, got
<1>5. /\ Real(shown, said') /\ Real(base, said') /\ Real(got, said')
      /\ Right(shown, said, Deletes) => Right(shown, said', Deletes')
      /\ Right(got, said, Deletes) => Right(got, said', Deletes')
      /\ Right(base, said, Deletes \cup Marked(shown)) => Right(base, said', Deletes' \cup Marked(shown))
      /\ \A s : Whole(shown, s, said, Creates) => Whole(shown, s, said', Creates')
      /\ \A s : Whole(got, s, said, Creates) => Whole(got, s, said', Creates')
      /\ Spans(got, Reach(shown), said) => Spans(got, Reach(shown), said')
      /\ Spans(got, Reach(base), said) => Spans(got, Reach(base), said')
  BY <1>1, <1>2, OnwardKeeps, <1>4, <1>3
<1>6. PagesTyped' /\ OnceInv'
  BY DEF PagesInv, PagesTyped, OnceInv
<1>7. FetchInv'
  BY <1>5 DEF PagesInv, FetchInv, shown, base, got
<1>8. ASSUME ~missed' PROVE ShownInv' /\ GotInv' /\ BaseInv'
  BY <1>8, <1>5 DEF PagesInv, ShownInv, shown, GotInv, base, got, BaseInv
<1> QED
  BY <1>6, <1>7, <1>8 DEF PagesInv

(* The fields of the pages.                                                *)
LEMMA PageFields ==
    ASSUME PagesTyped
    PROVE  /\ chatData.loaded \in BOOLEAN /\ chatData.pages \in Seq(ChatPage)
           /\ chatData = [loaded |-> chatData.loaded, pages |-> chatData.pages]
           /\ chatFetch.kind \in {"none", "first", "again", "older"} /\ chatFetch.read \in BOOLEAN /\ chatFetch.want \in Nat
           /\ chatFetch.base \in Seq(ChatPage) /\ chatFetch.got \in Seq(ChatPage)
BY DEF PagesTyped, ChatDatas, ChatFetches

(* A page is read.                                                         *)
LEMMA PagesRead ==
    ASSUME said \in SaidRows, PagesInv, fetchMessagesPage
    PROVE  /\ PagesInv'
           /\ ~chatData.loaded => \A id \in DOMAIN said : OnPages(chatFetch'.got, id)
<1> DEFINE got == chatFetch.got
           base == chatFetch.base
           before == getNextPageParam(IF got # << >> THEN got ELSE base)
           page == list_messages(before)
           more == Append(got, page)
<1>1. PagesTyped /\ FetchInv /\ OnceInv
  BY DEF PagesInv
<1>2. /\ got \in Seq(ChatPage) /\ base \in Seq(ChatPage) /\ Real(got, said) /\ Real(base, said)
      /\ Once(got) /\ Above(got)
  BY <1>1, PageFields DEF FetchInv, OnceInv
<1>3. chatFetch.kind # "none" /\ ~chatFetch.read /\ chatFetch' = [chatFetch EXCEPT !.got = more, !.read = TRUE]
  BY DEF fetchMessagesPage
<1>4. before \in 0..Len(said) /\ before # 1
  BY <1>2, ReachReal
<1>5. /\ got # << >> => before = getNextPageParam(got) /\ before # 0 /\ chatFetch.kind = "again"
      /\ got = << >> /\ chatFetch.kind # "older" => before = 0
      /\ chatFetch.kind = "older" => got = << >> /\ before # 0 /\ Reach(base) = before
  BY <1>1, <1>3, PageFields, NoRows, <1>2, ReachTyped DEF FetchInv
<1>6. PageOf(page, before, said)
  BY <1>4, ListMessages
<1> HIDE DEF got, base, before, page, more
<1>7. /\ more \in Seq(ChatPage) /\ more # << >>
      /\ Real(more, said) /\ Once(more) /\ Above(more)
      /\ \A d : Right(got, said, d) => Right(more, said, d)
      /\ \A s, c : before = 0 \/ (got # << >> /\ Whole(got, s, said, c)) => Whole(more, s, said, c)
      /\ \A to \in Nat : before = 0 \/ to <= before \/ (got # << >> /\ Spans(got, to, said)) => Spans(more, to, said)
      /\ got = << >> /\ before # 0 => Below(more, before) /\ Filled(more)
  BY <1>2, <1>4, <1>5, <1>6, PageRead DEF more
<1>8. /\ chatFetch'.kind = chatFetch.kind /\ chatFetch'.base = base /\ chatFetch'.got = more /\ chatFetch'.read = TRUE
      /\ chatFetch' \in ChatFetches
  BY <1>1, <1>3, <1>7 DEF PagesTyped, ChatFetches, base
<1>9. /\ UNCHANGED <<chatData, said, belated, missed, stream, outbox>>
  BY DEF fetchMessagesPage, eventVars, chatRoom
<1>10. Reach(chatData.pages) \in Nat /\ Reach(base) \in Nat /\ before \in Nat
  BY <1>1, <1>2, <1>4, PageFields, ReachTyped
<1>11. FetchInv'
  BY <1>1, <1>3, <1>5, <1>7, <1>8, <1>9 DEF FetchInv, base
<1>12. OnceInv'
  BY <1>1, <1>5, <1>7, <1>8, <1>9 DEF OnceInv, base
<1>13. ASSUME ~missed' PROVE ShownInv' /\ GotInv' /\ BaseInv'
  BY <1>9, <1>13, <1>8, <1>7, <1>5, <1>10 DEF PagesInv, Creates, Deletes, ShownInv, GotInv, got,
     BaseInv, base
<1>14. ASSUME ~chatData.loaded, NEW id \in DOMAIN said PROVE OnPages(more, id)
  <2>1. chatFetch.kind = "first"
    BY <1>1, <1>14 DEF FetchInv
  <2>2. before = 0
    BY <2>1, <1>5
  <2>3. Len(said) + 1 \in Nat /\ id \in Nat /\ id < Len(said) + 1
    BY DEF SaidRows
  <2>4. Spans(more, Len(said) + 1, said)
    BY <2>2, <2>3, <1>7
  <2>5. Reach(more) \in Nat
    BY <1>7, ReachTyped
  <2> QED
    BY <2>3, <2>4, <2>5 DEF Spans, OnPages
<1>15. PagesTyped'
  BY <1>1, <1>8, <1>9 DEF PagesTyped
<1> QED
  BY <1>8, <1>11, <1>12, <1>13, <1>14, <1>15 DEF PagesInv

(* A refetch goes on, or the pages fetched are shown.                      *)
LEMMA PagesShown ==
    ASSUME said \in SaidRows, PagesInv, useInfiniteQuery
    PROVE  /\ PagesInv'
           /\ missed => missed'
           /\ \A id \in DOMAIN said : /\ ~missed' /\ chatData.loaded /\ OnPages(chatData.pages, id) => OnPages(chatData'.pages, id)
                                      /\ ~chatData.loaded /\ OnPages(chatFetch.got, id) => OnPages(chatData'.pages, id)
           /\ chatData'.loaded
<1> DEFINE got == chatFetch.got
           base == chatFetch.base
           shown == chatData.pages
           under == base \o got
<1>1. PagesTyped /\ FetchInv /\ OnceInv /\ chatFetch.read /\ got # << >>
  BY DEF PagesInv, useInfiniteQuery, FetchInv
<1>2. /\ got \in Seq(ChatPage) /\ base \in Seq(ChatPage) /\ shown \in Seq(ChatPage)
      /\ Real(got, said) /\ Real(base, said) /\ Real(shown, said) /\ Once(got) /\ Above(got)
  BY <1>1, PageFields DEF FetchInv, OnceInv
<1>3. UNCHANGED <<said, belated, stream, outbox>> /\ Creates' = Creates /\ Deletes' = Deletes
  BY DEF useInfiniteQuery, eventVars, chatRoom, Creates, Deletes
<1>4. CASE FetchMore
  <2>1. /\ UNCHANGED <<chatData, missed>> /\ chatFetch' = [chatFetch EXCEPT !.read = FALSE]
        /\ chatFetch.kind = "again" /\ getNextPageParam(got) # 0
    BY <1>4 DEF useInfiniteQuery, FetchMore
  <2>2. /\ chatFetch'.kind = "again" /\ chatFetch'.base = base /\ chatFetch'.got = got /\ chatFetch'.read = FALSE
        /\ chatFetch' \in ChatFetches
    BY <1>1, <2>1 DEF PagesTyped, ChatFetches
  <2> HIDE DEF got, base, shown, under
  <2>3. FetchInv'
    BY <1>1, <1>3, <2>1, <2>2 DEF FetchInv, got, base
  <2>4. OnceInv'
    BY <1>1, <1>3, <2>1, <2>2 DEF OnceInv, got, base
  <2>5. PagesTyped'
    BY <1>1, <2>1, <2>2 DEF PagesTyped
  <2>6. ASSUME ~missed' PROVE ShownInv' /\ GotInv' /\ BaseInv'
    BY <2>1, <2>6, <2>2, <1>3 DEF PagesInv, ShownInv, GotInv, got, BaseInv, base
  <2>7. chatData.loaded
    BY <1>1, <2>1 DEF FetchInv
  <2> QED
    BY <2>1, <2>3, <2>4, <2>5, <2>6, <2>7 DEF PagesInv
<1>5. CASE ~FetchMore
  <2>1. chatFetch' = Idle /\ chatData' = Fetched /\ missed' = (missed \/ Overwrites(Fetched.pages))
    BY <1>5 DEF useInfiniteQuery, ShowChat
  <2>2. chatData' = [loaded |-> TRUE, pages |-> under] /\ chatData'.loaded = TRUE /\ chatData'.pages = under
        /\ missed' = (missed \/ Overwrites(under))
    BY <2>1 DEF Fetched
  <2>3. /\ chatFetch'.kind = "none" /\ chatFetch'.base = << >> /\ chatFetch'.got = << >> /\ chatFetch'.read = FALSE
        /\ chatFetch' \in ChatFetches
    BY <2>1, NothingYet DEF Idle, ChatFetches
  <2>4. /\ chatFetch.kind # "older" => base = << >>
        /\ chatFetch.kind = "older" => /\ base # << >> /\ getNextPageParam(base) # 0 /\ Filled(got)
                                       /\ Below(got, Reach(base)) /\ Reach(base) = Reach(shown)
        /\ chatFetch.kind # "none"
        /\ chatData.loaded <=> chatFetch.kind # "first"
    BY <1>1 DEF FetchInv, OnceInv
  <2> HIDE DEF got, base, shown, under
  <2>5. /\ under \in Seq(ChatPage) /\ under # << >> /\ Reach(under) = Reach(got)
        /\ base # << >> => Reach(under) < Reach(base)
        /\ Real(under, said)
        /\ Once(base) /\ Above(base) => Once(under) /\ Above(under)
        /\ \A m : m \in Rows(under) <=> m \in Rows(base) \/ m \in Rows(got)
        /\ \A id : id \in Ids(under) <=> id \in Ids(base) \/ id \in Ids(got)
    BY <1>1, <1>2, <2>4, PutUnder DEF under
  <2>6. FetchInv'
    BY <2>2, <2>3, <2>5, <1>3, NothingYet DEF FetchInv
  <2>7. OnceInv'
    BY <1>1, <1>3, <2>2, <2>3, <2>5, NothingYet DEF OnceInv, base
  <2>8. PagesTyped'
    BY <2>2, <2>3, <2>5 DEF PagesTyped, ChatDatas
  <2>9. ASSUME ~missed' PROVE \A m \in Rows(shown) : /\ m.gone /\ m.id \in Nat \ {0} => [id |-> m.id, gone |-> FALSE] \notin Rows(under)
                                                     /\ m.id >= Reach(under) => m.id \in Ids(under)
    <3> TAKE m \in Rows(shown)
    <3>1. /\ m.gone => [m EXCEPT !.gone = FALSE] \notin Rows(under)
          /\ m.id >= Reach(under) => m.id \in Ids(under)
      BY <2>2, <2>9 DEF Overwrites, shown
    <3>2. m \in ChatRow
      BY <1>2, ReachTyped
    <3>3. [m EXCEPT !.gone = FALSE] = [id |-> m.id, gone |-> FALSE]
      <4> DEFINE row == [m EXCEPT !.gone = FALSE]
      <4>1. row \in ChatRow /\ row.id = m.id /\ row.gone = FALSE
        BY <3>2 DEF ChatRow
      <4> HIDE DEF row
      <4>2. row = [id |-> m.id, gone |-> FALSE]
        BY <4>1 DEF ChatRow
      <4> QED
        BY <4>2 DEF row
    <3> QED
      BY <3>1, <3>3
  <2>10. ASSUME ~missed', NEW id, id \in Ids(shown), id >= Reach(under) PROVE id \in Ids(under)
    <3>1. PICK m \in Rows(shown) : m.id = id
      BY <2>10, RowIn
    <3> QED
      BY <3>1, <2>9, <2>10
  <2>11. Reach(got) \in Nat /\ Reach(base) \in Nat /\ Reach(shown) \in Nat
    BY <1>2, ReachTyped
  <2>12. ASSUME ~missed' PROVE ShownInv' /\ GotInv' /\ BaseInv'
    <3>1. ShownInv /\ GotInv /\ BaseInv
      BY <2>2, <2>12 DEF PagesInv
    <3>2. ASSUME ~belated PROVE Right(under, said, Deletes)
      <4> SUFFICES ASSUME NEW m \in Rows(under), said[m.id].gone PROVE m.gone \/ m.id \in Deletes
        BY DEF Right
      <4>1. CASE m \in Rows(got)
        BY <4>1, <3>1 DEF GotInv, Right, got
      <4>2. CASE m \in Rows(base)
        BY <4>2, <3>1, <3>2, <2>5, ReachTyped, <2>9, <2>12 DEF BaseInv, Right, base, shown, ChatRow,
           Marked
      <4> QED
        BY <4>1, <4>2, <2>5
    <3>3. Whole(under, {}, said, Creates)
      BY <3>1, <1>1, <2>5, <2>10, <2>12, <2>4, <2>11, PageFields DEF Whole, SaidRows, GotInv, got,
         shown, Spans, base, ShownInv
    <3>4. ShownInv'
      BY <3>2, <3>3, <1>3, <2>2 DEF ShownInv
    <3>5. GotInv' /\ BaseInv'
      BY <2>3, NothingYet DEF GotInv, BaseInv
    <3> QED
      BY <3>4, <3>5
  <2>13. ASSUME NEW id \in DOMAIN said, ~missed', chatData.loaded, OnPages(shown, id) PROVE OnPages(under, id)
    <3>0. id \in Nat
      BY DEF SaidRows
    <3>1. GotInv /\ chatFetch.kind \in {"again", "older"}
      BY <2>2, <2>4, <2>13, <1>1, PageFields DEF PagesInv
    <3>2. CASE id \in Ids(shown)
      BY <3>0, <3>2, <2>5, <2>10, <2>11, <2>13 DEF OnPages
    <3>3. CASE id < Reach(shown)
      BY <2>5, <3>1, <3>3, <1>1, <2>4, <3>0, <2>11 DEF OnPages, GotInv, Spans, got, base, shown
    <3> QED
      BY <3>2, <3>3, <2>13 DEF OnPages
  <2>14. ASSUME NEW id \in DOMAIN said, OnPages(got, id) PROVE OnPages(under, id)
    BY <2>5, <2>14 DEF OnPages
  <2> QED
    BY <2>2, <2>6, <2>7, <2>8, <2>12, <2>13, <2>14 DEF PagesInv, got, shown
<1> QED
  BY <1>4, <1>5

(* An older page is asked for.                                             *)
LEMMA PagesOlder ==
    ASSUME said \in SaidRows, PagesInv, loadOlder
    PROVE  PagesInv' /\ (missed => missed') /\ ~chatFetch'.read
<1> DEFINE shown == chatData.pages
<1>1. PagesTyped /\ FetchInv /\ OnceInv
  BY DEF PagesInv
<1>2. UNCHANGED <<said, belated, stream, outbox, chatData>> /\ Creates' = Creates /\ Deletes' = Deletes
  BY DEF loadOlder, eventVars, chatRoom, Creates, Deletes
<1>3. /\ chatData.loaded /\ getNextPageParam(shown) # 0 /\ chatFetch.kind # "older"
      /\ chatFetch' = [NewestPage("older", 1) EXCEPT !.base = shown] /\ missed' = (missed \/ chatFetch.kind = "again")
  BY DEF loadOlder, hasNextPage
<1>4. /\ chatFetch'.kind = "older" /\ chatFetch'.base = shown /\ chatFetch'.got = << >> /\ chatFetch'.read = FALSE
      /\ chatFetch' \in ChatFetches
  BY <1>1, <1>3, PageFields, NothingYet DEF NewestPage, Idle, ChatFetches
<1> HIDE DEF shown
<1>5. FetchInv'
  BY <1>1, <1>2, <1>3, <1>4, NothingYet DEF FetchInv, shown
<1>6. OnceInv'
  BY <1>1, <1>2, <1>4, NothingYet DEF OnceInv, shown
<1>7. PagesTyped'
  BY <1>1, <1>2, <1>4 DEF PagesTyped
<1>8. ASSUME ~missed' PROVE ShownInv' /\ GotInv' /\ BaseInv'
  BY <1>1, <1>3, <1>8, PageFields, <1>2, <1>4, NothingYet DEF PagesInv, FetchInv, ShownInv, GotInv,
     BaseInv, Right, shown
<1> QED
  BY <1>3, <1>4, <1>5, <1>6, <1>7, <1>8 DEF PagesInv

(* The stream is open: what is shown is fetched again.                     *)
LEMMA PagesAgain ==
    ASSUME said \in SaidRows, PagesInv, UNCHANGED <<said, chatData, belated>>, chatFetch' = invalidateMessages,
           ~missed' => ~missed /\ (chatData.loaded \/ ~chatFetch.read)
    PROVE  PagesInv' /\ (chatData.loaded \/ chatFetch' = chatFetch)
<1>1. PagesTyped /\ FetchInv /\ OnceInv
  BY DEF PagesInv
<1>2. CASE chatData.loaded
  <2>1. /\ chatFetch'.kind = "again" /\ chatFetch'.base = << >> /\ chatFetch'.got = << >> /\ chatFetch'.read = FALSE
        /\ chatFetch' \in ChatFetches
    <3>1. Len(chatData.pages) \in Nat
      BY <1>1, PageFields
    <3> QED
      BY <3>1, <1>2, NothingYet DEF invalidateMessages, NewestPage, Idle, ChatFetches
  <2>2. FetchInv' /\ OnceInv' /\ PagesTyped'
    BY <1>1, <1>2, <2>1, NothingYet DEF FetchInv, OnceInv, PagesTyped
  <2>3. ShownInv' /\ GotInv' /\ BaseInv'
    BY <2>1, NothingYet DEF ShownInv, GotInv, BaseInv
  <2> QED
    BY <1>2, <2>2, <2>3 DEF PagesInv
<1>3. CASE ~chatData.loaded
  BY <1>1, <1>3, NothingYet DEF invalidateMessages, FetchInv, OnceInv, PagesTyped, ShownInv, GotInv,
     BaseInv, PagesInv
<1> QED
  BY <1>2, <1>3

(* A message created, told by its event or by the answer to its sender.    *)
LEMMA PagesAdded ==
    ASSUME said \in SaidRows, PagesInv, NEW id \in DOMAIN said, UNCHANGED <<said, chatFetch>>,
           chatData' = withMessage(chatData, [id |-> id, gone |-> FALSE]), belated' = (belated \/ Belated(id)),
           ~missed' => ~missed /\ ~DropsChange(id, FALSE),
           Creates \subseteq Creates' \cup {id}, Deletes \subseteq Deletes',
           ~missed' /\ ~belated' /\ chatFetch.kind \in {"none", "older"} /\ Adds(chatData, id) /\ said[id].gone => id \in Deletes'
    PROVE  /\ PagesInv' /\ chatData'.loaded = chatData.loaded
           /\ \A i : OnPages(chatData.pages, i) => OnPages(chatData'.pages, i)
           /\ chatData.loaded => OnPages(chatData'.pages, id)
           /\ ~missed' /\ ~chatData.loaded /\ chatFetch.read => OnPages(chatFetch.got, id)
<1> DEFINE old == chatData.pages
           new == chatData'.pages
           got == chatFetch.got
           base == chatFetch.base
<1>1. PagesTyped /\ FetchInv /\ OnceInv
  BY DEF PagesInv
<1>2. chatData \in ChatDatas /\ (chatData.loaded <=> old # << >>) /\ Real(old, said) /\ id \in Nat \ {0}
  BY <1>1 DEF PagesTyped, FetchInv, SaidRows
<1>3. /\ chatData' \in ChatDatas /\ chatData'.loaded = chatData.loaded /\ (new = << >> <=> old = << >>)
      /\ Reach(new) = Reach(old) /\ Ids(old) \subseteq Ids(new) /\ (chatData.loaded => id \in Ids(new))
  BY <1>2, RowsAdded
<1>4. /\ Real(new, said)
      /\ Once(old) => Once(new)
      /\ Above(old) /\ (Adds(chatData, id) => id >= Reach(old)) => Above(new)
      /\ \A d : Right(old, said, d) /\ (Adds(chatData, id) /\ said[id].gone => id \in d) => Right(new, said, d)
      /\ \A s, c, c2 : chatData.loaded /\ Whole(old, s, said, c) /\ c \subseteq c2 \cup {id} => Whole(new, s, said, c2)
      /\ Marked(old) \subseteq Marked(new)
      /\ \A i : OnPages(old, i) => OnPages(new, i)
      /\ chatData.loaded => OnPages(new, id)
  BY <1>2, AddedKeeps
<1>5. Reach(old) \in Nat
  BY <1>2, ReachTyped DEF ChatDatas
<1> HIDE DEF old, new, got, base
<1>6. FetchInv'
  BY <1>1, <1>2, <1>3, <1>4 DEF FetchInv, old, new
<1>7. OnceInv'
  <2>1. ~belated' => ~belated /\ (Adds(chatData, id) => id >= Reach(old))
    <3>1. ~belated' => ~belated /\ ~Belated(id)
      BY Zenon
    <3>2. ~Belated(id) => (Adds(chatData, id) => id >= Reach(old))
      BY <1>2, <1>5 DEF Belated, old
    <3> QED
      BY <3>1, <3>2
  <2> QED
    BY <2>1, <1>1, <1>4 DEF OnceInv, old, new
<1>8. PagesTyped'
  BY <1>1, <1>3 DEF PagesTyped
<1>9. ASSUME ~missed', ~chatData.loaded, chatFetch.read PROVE id \in Ids(got)
  BY <1>9, RowIn DEF DropsChange, got, Item
<1>10. ASSUME ~missed' PROVE ShownInv' /\ GotInv' /\ BaseInv'
  BY <1>10, <1>1, <1>4, <1>3, <1>9 DEF PagesInv, FetchInv, ShownInv, old, Right, new, GotInv, got,
     Whole, BaseInv
<1> QED
  BY <1>3, <1>4, <1>6, <1>7, <1>8, <1>9, <1>10 DEF PagesInv, OnPages, old, new, got

(* A message deleted, told likewise.                                       *)
LEMMA PagesDeleted ==
    ASSUME said \in SaidRows, PagesInv, NEW id \in DOMAIN said, said[id].gone, UNCHANGED <<said, chatFetch, belated>>,
           chatData' = withDeleted(chatData, id), ~missed' => ~missed /\ ~DropsChange(id, TRUE),
           Creates \subseteq Creates', Deletes \subseteq Deletes' \cup {id}
    PROVE  /\ PagesInv' /\ chatData'.loaded = chatData.loaded
           /\ \A i : OnPages(chatData.pages, i) => OnPages(chatData'.pages, i)
<1> DEFINE old == chatData.pages
           new == chatData'.pages
           got == chatFetch.got
           base == chatFetch.base
<1>1. PagesTyped /\ FetchInv /\ OnceInv
  BY DEF PagesInv
<1>2. /\ chatData \in ChatDatas /\ Real(old, said) /\ id \in Nat \ {0}
      /\ got \in Seq(ChatPage) /\ base \in Seq(ChatPage)
  BY <1>1, PageFields DEF PagesTyped, FetchInv, SaidRows
<1>3. /\ chatData' \in ChatDatas /\ chatData'.loaded = chatData.loaded /\ (new = << >> <=> old = << >>)
      /\ Reach(new) = Reach(old) /\ Ids(new) = Ids(old)
  BY <1>2, RowsMarked
<1>4. /\ Real(new, said)
      /\ Once(old) => Once(new)
      /\ Above(old) => Above(new)
      /\ \A d, d2 : Right(old, said, d) /\ d \subseteq d2 \cup {id} => Right(new, said, d2)
      /\ \A s, c : Whole(old, s, said, c) => Whole(new, s, said, c)
      /\ Marked(old) \subseteq Marked(new)
      /\ id \in Ids(old) => id \in Marked(new)
      /\ \A i : OnPages(old, i) => OnPages(new, i)
  BY <1>2, MarkedKeeps
<1> HIDE DEF old, new, got, base
<1>5. FetchInv'
  BY <1>1, <1>3, <1>4 DEF FetchInv, old, new
<1>6. OnceInv'
  BY <1>1, <1>4 DEF OnceInv, old, new
<1>7. PagesTyped'
  BY <1>1, <1>3 DEF PagesTyped
<1>8. ASSUME ~missed' PROVE ShownInv' /\ GotInv' /\ BaseInv'
  <2>1. ShownInv /\ GotInv /\ BaseInv
    BY <1>8 DEF PagesInv
  <2>2. ASSUME chatFetch.kind \in {"none", "older"}
        PROVE  (belated \/ Right(new, said, Deletes')) /\ Whole(new, {}, said, Creates')
    BY <2>1, <2>2, <1>4 DEF ShownInv, old, Whole
  <2>3. ShownInv'
    BY <2>2 DEF ShownInv, new
  <2>4. Right(got, said, Deletes')
    <3> SUFFICES ASSUME NEW m \in Rows(got), said[m.id].gone PROVE m.gone \/ m.id \in Deletes'
      BY DEF Right
    <3>1. m.gone \/ m.id \in Deletes
      BY <2>1 DEF GotInv, Right, got
    <3>2. ASSUME m.id = id, ~m.gone PROVE FALSE
      BY <1>2, ReachTyped, <3>2, <1>8 DEF ChatRow, DropsChange, got
    <3> QED
      BY <3>1, <3>2
  <2>5. ASSUME NEW s, Whole(got, s, said, Creates) PROVE Whole(got, s, said, Creates')
    BY <2>5 DEF Whole
  <2>6. GotInv'
    BY <2>1, <2>4, <2>5, <1>3 DEF GotInv, got, new, old
  <2>7. ASSUME ~belated PROVE Right(base, said, Deletes' \cup Marked(new))
    BY <2>1, <2>7, NoRows, <1>1, RowIn, <1>4 DEF Right, BaseInv, base, old, FetchInv
  <2>8. BaseInv'
    BY <2>7 DEF BaseInv, base, new
  <2> QED
    BY <2>3, <2>6, <2>8
<1> QED
  BY <1>3, <1>4, <1>5, <1>6, <1>7, <1>8 DEF PagesInv, old, new

-----------------------------------------------------------------------------
(* The steps of the server and of the channel.                             *)

(* What a request or another user does to the messages.                    *)
LEMMA ServerStep ==
    ASSUME PostsInv, OthersChat \/ post_message
    PROVE  /\ UNCHANGED <<stream, lastRead, chatData, chatFetch, pending, unread, marking, chatOpen, missed, belated>>
           /\ \/ \E mine \in BOOLEAN : create_message(mine)
              \/ \E id \in DOMAIN said : delete_message(id)
              \/ UNCHANGED <<said, outbox>>
BY DEF OthersChat, post_message, PostsInv, PostTrue

(* Nothing said, nothing announced: what is on its way stays.              *)
LEMMA Standing ==
    ASSUME said \in SaidRows, UNCHANGED <<said, stream, outbox>>
    PROVE  Onward(said, said', Creates, Creates', Deletes, Deletes') /\ (ChannelInv => ChannelInv') /\ (InOrder => InOrder')
BY DEF SaidRows, Creates, Deletes, Onward, ChannelInv, InOrder

(* What is missed stays missed.                                            *)
LEMMA MissedStays ==
    ASSUME missed \in BOOLEAN, chatNext
    PROVE  missed => missed'
BY DEF chatNext, ChatStep, fetchMessagesPage, useInfiniteQuery, ChatDelivered, MessageEvent, notifyOpen, ChatConnects, chatVars,
   post_message, ChatAnswered, unread_count, fetchUnreadCount, mark_read, markRead, ChatPublished, loadOlder, ChatBreaks,
   OthersChat, send, retry, remove, openChat

(* The messages and the channel, by every step.                            *)
LEMMA ChannelStep ==
    ASSUME RoomTyped, ChannelInv, PostsInv, missed \in BOOLEAN, chatNext
    PROVE  /\ RoomTyped' /\ ChannelInv' /\ (missed => missed')
           /\ InOrder /\ ~missed' => InOrder'
           /\ \/ Onward(said, said', Creates, Creates', Deletes, Deletes')
              \/ UNCHANGED said /\ (missed' \/ ChatDelivered)
<1>0. said \in SaidRows /\ lastRead \in 0..Len(said) /\ Len(said) \in Nat
  BY DEF RoomTyped, SaidRows
<1>1. missed => missed'
  BY MissedStays
<1>2. CASE OthersChat \/ post_message
  <2>1. UNCHANGED <<stream, lastRead>>
    BY <1>2, ServerStep
  <2>2. ASSUME NEW mine \in BOOLEAN, create_message(mine)
        PROVE  /\ said' \in SaidRows /\ Len(said) <= Len(said') /\ ChannelInv' /\ (InOrder => InOrder')
               /\ Onward(said, said', Creates, Creates', Deletes, Deletes')
    BY <1>0, <2>2, Speaks, <2>1, SpeaksChannel DEF Onward
  <2>3. ASSUME NEW id \in DOMAIN said, delete_message(id)
        PROVE  /\ said' \in SaidRows /\ Len(said) <= Len(said') /\ ChannelInv' /\ (InOrder => InOrder')
               /\ Onward(said, said', Creates, Creates', Deletes, Deletes')
    BY <1>0, <2>3, Removes, <2>1, RemovesChannel DEF Onward
  <2>4. CASE UNCHANGED <<said, outbox>>
    BY <2>1, <2>4, <1>0, <1>1, Standing DEF RoomTyped
  <2>5. said' \in SaidRows => Len(said') \in Nat
    BY DEF SaidRows
  <2>6. CASE ~UNCHANGED <<said, outbox>>
    BY <1>2, <2>2, <2>3, <2>6, ServerStep, <2>1, <2>5, <1>0, <1>1 DEF RoomTyped
  <2> QED
    BY <2>4, <2>6
<1>3. CASE ChatPublished
  BY <1>3, <1>1, PublishesChannel DEF ChatPublished, chatRoom, RoomTyped, _publish_quietly,
     ChannelInv, Channel
<1>4. CASE ChatBreaks \/ ChatConnects
  BY <1>4, <1>1, ReopensChannel DEF ChatBreaks, ChatConnects, chatRoom, chatVars, RoomTyped
<1>5. CASE ChatDelivered
  BY <1>5, <1>1, DeliversChannel DEF ChatDelivered, chatRoom, RoomTyped
<1>6. CASE mark_read
  BY <1>6, <1>0, <1>1, Standing DEF mark_read, eventVars, RoomTyped
<1>7. CASE \/ fetchMessagesPage \/ useInfiniteQuery \/ ChatAnswered \/ unread_count \/ fetchUnreadCount \/ markRead
           \/ loadOlder \/ send \/ retry \/ remove \/ openChat
  <2>1. UNCHANGED <<said, stream, outbox, lastRead>>
    BY <1>7 DEF fetchMessagesPage, useInfiniteQuery, ChatAnswered, unread_count, fetchUnreadCount, markRead, loadOlder, send,
       retry, remove, openChat, eventVars, chatRoom
  <2> QED
    BY <2>1, <1>0, <1>1, Standing DEF RoomTyped
<1> QED
  BY <1>2, <1>3, <1>4, <1>5, <1>6, <1>7 DEF chatNext, ChatStep

(* What an event of a message does to the pages.                           *)
LEMMA EventRead ==
    ASSUME ChatDelivered, belated \in BOOLEAN, NEW id
    PROVE  /\ UNCHANGED <<said, pending, lastRead, posts, chatOpen, chatLeft>>
           /\ NextFrame = Created(id) =>
                /\ UNCHANGED chatFetch /\ chatData' = withMessage(chatData, [id |-> id, gone |-> FALSE])
                /\ belated' = (belated \/ Belated(id)) /\ missed' = (missed \/ DropsChange(id, FALSE) \/ CountsOld)
           /\ NextFrame = Deleted(id) =>
                /\ UNCHANGED <<chatFetch, belated>> /\ chatData' = withDeleted(chatData, id)
                /\ missed' = (missed \/ DropsChange(id, TRUE) \/ CountsOld)
           /\ NextFrame = Opened =>
                /\ UNCHANGED <<chatData, belated>> /\ chatFetch' = invalidateMessages
                /\ missed' = (missed \/ (~chatData.loaded /\ chatFetch.read) \/ CountsOld)
<1>1. UNCHANGED <<said, pending, lastRead, posts, chatOpen, chatLeft>> /\ (MessageEvent \/ notifyOpen)
  BY DEF ChatDelivered, chatRoom
<1>2. ASSUME NextFrame = Created(id)
      PROVE  /\ UNCHANGED chatFetch /\ chatData' = withMessage(chatData, [id |-> id, gone |-> FALSE])
             /\ belated' = (belated \/ Belated(id)) /\ missed' = (missed \/ DropsChange(id, FALSE) \/ CountsOld)
  BY <1>2, EventsDiffer, <1>1 DEF notifyOpen, MessageEvent, ShowChat
<1>3. ASSUME NextFrame = Deleted(id)
      PROVE  /\ UNCHANGED <<chatFetch, belated>> /\ chatData' = withDeleted(chatData, id)
             /\ missed' = (missed \/ DropsChange(id, TRUE) \/ CountsOld)
  BY <1>3, EventsDiffer, <1>1 DEF notifyOpen, MessageEvent, ShowChat
<1>4. ASSUME NextFrame = Opened
      PROVE  /\ UNCHANGED <<chatData, belated>> /\ chatFetch' = invalidateMessages
             /\ missed' = (missed \/ (~chatData.loaded /\ chatFetch.read) \/ CountsOld)
  BY <1>4, EventsDiffer, <1>1 DEF MessageEvent, notifyOpen
<1> QED
  BY <1>1, <1>2, <1>3, <1>4

(* What is not announced any more is shown.                                *)
LEMMA AnsweredLate ==
    ASSUME RoomTyped, PagesInv, InOrder, ~missed, NEW id \in DOMAIN said, Adds(chatData, id), ~Belated(id),
           chatFetch.kind \in {"none", "older"}, said[id].gone
    PROVE  id \in Deletes
<1>1. ShownInv /\ Reach(chatData.pages) \in Nat /\ id \in Nat
  BY PageFields, ReachTyped DEF PagesInv, RoomTyped, SaidRows
<1>2. id \in Creates
  BY <1>1 DEF ShownInv, Whole, Adds, Belated
<1>3. CASE Reopens(stream)
  BY <1>3 DEF Deletes, DeletesOf
<1>4. CASE Created(id) \in outbox
  BY <1>4 DEF InOrder, Orderly, Deletes, DeletesOf
<1>5. CASE Created(id) \in ToSet(stream.queue)
  BY <1>5 DEF InOrder, Orderly, Deletes, DeletesOf, ToSet
<1> QED
  BY <1>2, <1>3, <1>4, <1>5 DEF Creates, CreatesOf

(* The steps that leave the pages alone.                                   *)
LEMMA PagesStay ==
    ASSUME RoomTyped, ChannelInv, PostsInv, PagesInv, missed \in BOOLEAN, chatNext, ~ChatDelivered,
           UNCHANGED <<chatData, chatFetch, belated>>
    PROVE  PagesInv'
BY ChannelStep, PagesOnward DEF RoomTyped, PagesInv, PagesTyped, FetchInv, OnceInv

(* A message that was sent stays shown while the pages are what they are.  *)
LEMMA OwnStays ==
    ASSUME OwnInv,
           \A n \in DOMAIN pending' : pending'[n] \in {Sending, Failed} \/ (n \in DOMAIN pending /\ pending'[n] = pending[n]),
           \A i : OnPages(chatData.pages, i) => OnPages(chatData'.pages, i), chatData'.loaded = chatData.loaded,
           ~chatData.loaded => chatFetch'.got = chatFetch.got /\ (chatFetch'.read => chatFetch.read)
    PROVE  OwnInv'
BY DEF OwnInv

(* An event is handled.                                                    *)
LEMMA DeliveredPages ==
    ASSUME RoomTyped, ChannelInv, PagesInv, missed \in BOOLEAN, belated \in BOOLEAN, ~missed => InOrder, ChatDelivered
    PROVE  PagesInv' /\ (OwnInv /\ ~missed' => OwnInv')
BY EventRead, PagesAgain, PagesAdded, OwnStays, PagesDeleted, DeliversChannel DEF RoomTyped,
   ChatDelivered, chatRoom, OwnInv

(* An answer is handled.                                                   *)
LEMMA AnsweredPages ==
    ASSUME RoomTyped, SendsTyped, PostsInv, PagesInv, missed \in BOOLEAN, belated \in BOOLEAN, ~missed => InOrder, ChatAnswered
    PROVE  PagesInv' /\ (OwnInv /\ ~missed' => OwnInv')
<1>0. said \in SaidRows /\ UNCHANGED <<said, stream, outbox, chatFetch>> /\ Creates' = Creates /\ Deletes' = Deletes
  BY DEF RoomTyped, ChatAnswered, chatRoom, eventVars, Creates, Deletes
<1>1. PICK r \in posts :
        \/ /\ r.kind = "post" /\ r.at # Failed /\ r.at # Sending /\ chatData' = Confirm(chatData, r.at)
           /\ pending' = [pending EXCEPT ![r.n] = r.at]
           /\ missed' = (missed \/ DropsChange(r.at, FALSE)) /\ belated' = (belated \/ Belated(r.at))
        \/ /\ r.kind = "post" /\ pending' = [pending EXCEPT ![r.n] = Failed] /\ UNCHANGED <<chatData, belated, missed>>
        \/ /\ r.kind = "delete" /\ UNCHANGED <<pending, belated>> /\ r.at # Failed /\ r.at # Sending
           /\ chatData' = withDeleted(chatData, r.at) /\ missed' = (missed \/ DropsChange(r.at, TRUE))
        \/ /\ r.kind = "delete" /\ UNCHANGED <<pending, belated>> /\ chatData' = chatData /\ missed' = missed
  BY DEF ChatAnswered, ShowChat
<1>2. \A n \in DOMAIN pending : pending[n] \in Int
  BY ElementOfSeq DEF SendsTyped
<1>3. CASE /\ r.kind = "post" /\ r.at # Failed /\ r.at # Sending /\ chatData' = Confirm(chatData, r.at)
           /\ pending' = [pending EXCEPT ![r.n] = r.at]
           /\ missed' = (missed \/ DropsChange(r.at, FALSE)) /\ belated' = (belated \/ Belated(r.at))
  BY <1>3, <1>0, AnsweredLate, PagesAdded DEF PostsInv, PostTrue, Confirm, OwnInv
<1>4. CASE r.kind = "post" /\ pending' = [pending EXCEPT ![r.n] = Failed] /\ UNCHANGED <<chatData, belated, missed>>
  BY <1>0, <1>4, Standing, PagesOnward, OwnStays
<1>5. CASE /\ r.kind = "delete" /\ UNCHANGED <<pending, belated>> /\ r.at # Failed /\ r.at # Sending
           /\ chatData' = withDeleted(chatData, r.at) /\ missed' = (missed \/ DropsChange(r.at, TRUE))
  BY <1>5, <1>0, PagesDeleted, OwnStays DEF PostsInv, PostTrue
<1>6. CASE r.kind = "delete" /\ UNCHANGED <<pending, belated>> /\ chatData' = chatData /\ missed' = missed
  BY <1>0, <1>6, Standing, PagesOnward, OwnStays
<1> QED
  BY <1>1, <1>3, <1>4, <1>5, <1>6

(* The pages, by every step.                                               *)
LEMMA PagesStep ==
    ASSUME RoomTyped, SendsTyped, ChannelInv, PostsInv, PagesInv, missed \in BOOLEAN, belated \in BOOLEAN,
           ~missed => InOrder, chatNext
    PROVE  PagesInv' /\ (OwnInv /\ ~missed' => OwnInv')
<1>0. said \in SaidRows /\ (missed => missed')
  BY MissedStays DEF RoomTyped
<1>1. CASE fetchMessagesPage
  BY <1>0, <1>1, PagesRead DEF fetchMessagesPage, OwnInv, SendsTyped
<1>2. CASE useInfiniteQuery
  BY <1>0, <1>2, PagesShown DEF useInfiniteQuery, OwnInv, SendsTyped
<1>3. CASE loadOlder
  BY <1>0, <1>3, PagesOlder DEF loadOlder, OwnInv
<1>4. CASE ChatDelivered
  BY <1>4, DeliveredPages
<1>5. CASE ChatAnswered
  BY <1>5, AnsweredPages
<1>6. CASE \/ ChatConnects \/ post_message \/ unread_count \/ fetchUnreadCount \/ mark_read \/ markRead
           \/ ChatPublished \/ ChatBreaks \/ OthersChat \/ remove \/ openChat
  BY <1>6, PagesStay, <1>4 DEF ChatConnects, post_message, unread_count, fetchUnreadCount, mark_read,
     markRead, ChatPublished, ChatBreaks, OthersChat, remove, openChat, chatVars, OwnInv
<1>7. CASE send \/ retry
  <2>1. UNCHANGED <<chatData, chatFetch, belated>>
    BY <1>7 DEF send, retry
  <2>2. \A n \in DOMAIN pending' : pending'[n] \in {Sending, Failed} \/ (n \in DOMAIN pending /\ pending'[n] = pending[n])
    BY <1>7 DEF send, SendsTyped, Sending, retry
  <2>3. OwnInv => OwnInv'
    BY <2>1, <2>2, OwnStays
  <2>4. CASE ~ChatDelivered
    BY <2>1, <2>3, <2>4, PagesStay
  <2> QED
    BY <2>4, <1>4
<1> QED
  BY <1>1, <1>2, <1>3, <1>4, <1>5, <1>6, <1>7 DEF chatNext, ChatStep

-----------------------------------------------------------------------------
(* What is sent and counted.                                               *)

Grows(all, all2) ==
    DOMAIN all \subseteq DOMAIN all2 /\ Len(all) <= Len(all2) /\ \A i \in DOMAIN all : all[i].gone => all2[i].gone

(* The messages only grow.                                                 *)
LEMMA SaidGrows ==
    ASSUME RoomTyped, ChannelInv, PostsInv, missed \in BOOLEAN, chatNext
    PROVE  Grows(said, said') /\ Len(said) \in Nat /\ Len(said') \in Nat
BY ChannelStep DEF RoomTyped, SaidRows, Grows, Onward

(* A request that is true stays so.                                        *)
LEMMA PostStays ==
    ASSUME NEW texts, NEW texts2, NEW all, NEW all2, DOMAIN texts \subseteq DOMAIN texts2, Grows(all, all2),
           NEW r, PostTrue(r, texts, all)
    PROVE  PostTrue(r, texts2, all2)
BY DEF PostTrue, Grows

(* What is sent, by every step.                                            *)
LEMMA SendsStep ==
    ASSUME RoomTyped, SendsTyped, ChannelInv, PostsInv, PagesInv, missed \in BOOLEAN, chatNext
    PROVE  SendsTyped' /\ PostsInv'
<1>0. /\ Grows(said, said') /\ Len(said) \in Nat /\ DOMAIN said = 1..Len(said) /\ DOMAIN said' = 1..Len(said')
      /\ Sending = -1 /\ Failed = 0
  BY ChannelStep, SaidGrows DEF RoomTyped, SaidRows, Sending, Failed
<1>1. /\ pending \in Seq(Int) /\ DOMAIN pending = 1..Len(pending) /\ Len(pending) \in Nat /\ posts \subseteq Requests
      /\ \A n \in DOMAIN pending : pending[n] \in {Sending, Failed} \cup DOMAIN said
  BY DEF SendsTyped
<1>2. \A n \in DOMAIN pending : pending[n] \in {Sending, Failed} \cup DOMAIN said'
  BY <1>0, <1>1 DEF Grows
<1>3. ASSUME DOMAIN pending \subseteq DOMAIN pending' PROVE \A r \in posts : PostTrue(r, pending', said')
  BY <1>0, <1>3, PostStays DEF PostsInv
<1>4. CASE send
  BY <1>4, <1>0, <1>1, <1>2, <1>3 DEF send, attempt, Asked, Requests, PostTrue, SendsTyped, PostsInv
<1>5. CASE retry
  BY <1>5, <1>0, <1>1, <1>2, <1>3 DEF retry, attempt, Asked, Requests, PostTrue, SendsTyped, PostsInv
<1>6. CASE remove
  <2>1. PICK m \in Rows(chatData.pages) : posts' = posts \cup {Asked("delete", m.id)}
    BY <1>6 DEF remove
  <2>2. UNCHANGED <<pending, said>>
    BY <1>6 DEF remove, chatRoom
  <2>3. m.id \in DOMAIN said
    BY PageFields, ReachReal DEF PagesInv, FetchInv, RoomTyped
  <2>4. Asked("delete", m.id) \in Requests /\ PostTrue(Asked("delete", m.id), pending, said)
    BY <1>0, <2>3 DEF Asked, Requests, PostTrue
  <2>5. SendsTyped'
    BY <1>1, <2>1, <2>2, <2>4 DEF SendsTyped
  <2> QED
    BY <2>1, <2>2, <2>4, <2>5 DEF PostsInv
<1>7. CASE post_message
  <2>1. UNCHANGED pending
    BY <1>7 DEF post_message
  <2>2. PICK r \in posts, at \in Int :
          /\ posts' = (posts \ {r}) \cup {[r EXCEPT !.at = at]}
          /\ \/ r.kind = "post" /\ at = Len(said) + 1 /\ create_message(TRUE)
             \/ at = Failed
             \/ r.kind = "delete" /\ at = r.n /\ (IF said[r.n].gone THEN UNCHANGED <<said, outbox>> ELSE delete_message(r.n))
    <3>1. PICK r \in posts :
            \/ /\ r.kind = "post" /\ create_message(TRUE) /\ posts' = (posts \ {r}) \cup {[r EXCEPT !.at = Len(said) + 1]}
            \/ posts' = (posts \ {r}) \cup {[r EXCEPT !.at = Failed]}
            \/ /\ r.kind = "delete" /\ (IF said[r.n].gone THEN UNCHANGED <<said, outbox>> ELSE delete_message(r.n))
               /\ posts' = (posts \ {r}) \cup {[r EXCEPT !.at = r.n]}
      BY <1>7 DEF post_message
    <3>2. Len(said) + 1 \in Int /\ Failed \in Int /\ r.n \in Int
      BY <1>0, <1>1 DEF Requests
    <3> QED
      BY <3>1, <3>2
  <2> DEFINE new == [r EXCEPT !.at = at]
  <2>3. new \in Requests /\ new.kind = r.kind /\ new.n = r.n /\ new.at = at /\ r \in Requests /\ r.kind \in {"post", "delete"}
    BY <1>1, <2>2 DEF Requests
  <2> HIDE DEF new
  <2>4. PostTrue(r, pending', said')
    BY <1>3, <2>1, <2>2
  <2>5. PostTrue(new, pending', said')
    <3>1. CASE at = Failed
      BY <1>0, <2>4, <2>3, <3>1 DEF PostTrue
    <3>2. CASE r.kind = "post" /\ at = Len(said) + 1 /\ create_message(TRUE)
      <4>1. Len(said) + 1 \in DOMAIN said'
        <5>1. said \in SaidRows
          BY DEF RoomTyped
        <5>2. DOMAIN said' = 1..(Len(said) + 1)
          BY <3>2, <5>1, Speaks
        <5> QED
          BY <5>2, <1>0
      <4> QED
        BY <2>3, <2>4, <3>2, <4>1 DEF PostTrue
    <3>3. CASE r.kind = "delete" /\ at = r.n /\ (IF said[r.n].gone THEN UNCHANGED <<said, outbox>> ELSE delete_message(r.n))
      BY <2>2, <3>3, Removes, <2>3, <2>4 DEF PostsInv, PostTrue, RoomTyped
    <3> QED
      BY <2>2, <3>1, <3>2, <3>3
  <2>6. SendsTyped'
    BY <1>1, <1>2, <2>1, <2>2, <2>3 DEF SendsTyped, new
  <2>7. \A x \in posts' : x \in posts \/ x = new
    BY <2>2 DEF new
  <2> QED
    BY <1>3, <2>1, <2>5, <2>6, <2>7 DEF PostsInv
<1>8. CASE ChatAnswered
  <2>1. UNCHANGED said
    BY <1>8 DEF ChatAnswered, chatRoom
  <2>2. PICK r \in posts :
          /\ posts' = posts \ {r}
          /\ \/ r.kind = "post" /\ r.at # Sending /\ pending' = [pending EXCEPT ![r.n] = r.at]
             \/ UNCHANGED pending
    BY <1>8 DEF ChatAnswered
  <2>3. CASE r.kind = "post" /\ r.at # Sending /\ pending' = [pending EXCEPT ![r.n] = r.at]
    BY <1>1, <2>2, <2>3, <2>1, <1>3 DEF PostsInv, PostTrue, Requests, SendsTyped
  <2>4. CASE UNCHANGED pending
    BY <1>1, <1>3, <2>1, <2>2, <2>4 DEF SendsTyped, PostsInv
  <2> QED
    BY <2>2, <2>3, <2>4
<1>9. CASE UNCHANGED <<pending, posts>>
  BY <1>1, <1>2, <1>3, <1>9 DEF SendsTyped, PostsInv
<1>10. CASE \/ fetchMessagesPage \/ useInfiniteQuery \/ ChatDelivered \/ ChatConnects \/ unread_count \/ fetchUnreadCount
            \/ mark_read \/ markRead \/ ChatPublished \/ loadOlder \/ ChatBreaks \/ OthersChat \/ openChat
  BY <1>9, <1>10 DEF fetchMessagesPage, useInfiniteQuery, ChatDelivered, ChatConnects, unread_count, fetchUnreadCount,
     mark_read, markRead, ChatPublished, loadOlder, ChatBreaks, OthersChat, openChat, chatVars
<1> QED
  BY <1>4, <1>5, <1>6, <1>7, <1>8, <1>10 DEF chatNext, ChatStep

(* The unread are among the messages.                                      *)
LEMMA UnreadTyped ==
    ASSUME NEW all \in SaidRows, NEW from
    PROVE  UnreadFrom(all, from) \in 0..Len(all)
<1> DEFINE unseen == {i \in DOMAIN all : i > from /\ ~all[i].mine /\ ~all[i].gone}
<1>1. Len(all) \in Nat /\ DOMAIN all = 1..Len(all)
  BY DEF SaidRows
<1>2. IsFiniteSet(1..Len(all)) /\ Cardinality(1..Len(all)) = Len(all)
  <2> DEFINE n == Len(all)
  <2>1. n \in Nat
    BY <1>1
  <2> HIDE DEF n
  <2>2. IsFiniteSet(1..n) /\ Cardinality(1..n) = IF 1 > n THEN 0 ELSE n - 1 + 1
    BY <2>1, FS_Interval
  <2> QED
    BY <2>1, <2>2 DEF n
<1>3. unseen \subseteq 1..Len(all)
  BY <1>1
<1> HIDE DEF unseen
<1>4. IsFiniteSet(unseen) /\ Cardinality(unseen) <= Len(all)
  BY <1>2, <1>3, FS_Subset
<1>5. Cardinality(unseen) \in Nat
  BY <1>4, FS_CardinalityType
<1> QED
  BY <1>1, <1>4, <1>5 DEF unseen, UnreadFrom

(* Marking the chat read asks for it, no more.                             *)
LEMMA MarksRead ==
    ASSUME marking \in [asked : Nat, done : Nat], NEW data, NEW open, MarkRead(data, open)
    PROVE  marking' \in [asked : Nat, done : Nat] /\ marking'.done = marking.done
BY DEF MarkRead

(* The counts keep their types.                                            *)
LEMMA CountStep ==
    ASSUME RoomTyped, CountTyped, ChannelInv, PostsInv, missed \in BOOLEAN, chatNext
    PROVE  CountTyped'
<1> DEFINE Marks == [asked : Nat, done : Nat]
           Counts(n) == [loaded : BOOLEAN, count : 0..n, fetch : {"none", "asked", "read"}, got : 0..n]
           len == Len(said)
           len2 == Len(said')
<1>1. len \in Nat /\ len2 \in Nat /\ len <= len2 /\ said \in SaidRows
  BY SaidGrows DEF Grows, RoomTyped
<1>2. unread \in Counts(len) /\ marking \in Marks
  BY DEF CountTyped
<1> HIDE DEF len, len2
<1>3. unread \in Counts(len2)
  BY <1>1, <1>2
<1>4. refreshUnread \in Counts(len2)
  BY <1>3 DEF refreshUnread
<1>5. SUFFICES unread' \in Counts(len2) /\ marking' \in Marks
  BY DEF CountTyped, len2
<1> HIDE DEF Marks
<1>6. CASE ChatDelivered
  BY <1>6, <1>2, <1>4, MarksRead DEF ChatDelivered, MessageEvent, notifyOpen, ShowChat, Marks
<1>7. CASE useInfiniteQuery \/ ChatAnswered \/ openChat
  BY <1>7, <1>2, <1>3, MarksRead DEF useInfiniteQuery, ChatAnswered, openChat, ShowChat, Marks
<1>8. CASE unread_count
  <2>1. unread' = [unread EXCEPT !.fetch = "read", !.got = UnreadFrom(said, lastRead)] /\ UNCHANGED marking
    BY <1>8 DEF unread_count
  <2>2. UnreadFrom(said, lastRead) \in 0..len2
    BY <1>1, UnreadTyped DEF len
  <2> QED
    BY <2>1, <2>2, <1>2, <1>3
<1>9. CASE fetchUnreadCount
  BY <1>9, <1>1, <1>2, <1>3 DEF fetchUnreadCount
<1>10. CASE mark_read
  BY <1>10, <1>2, <1>3 DEF mark_read, Marks
<1>11. CASE markRead
  BY <1>11, <1>2, <1>4 DEF markRead, Marks
<1>12. CASE \/ fetchMessagesPage \/ ChatConnects \/ post_message \/ ChatPublished \/ loadOlder \/ ChatBreaks \/ OthersChat
            \/ send \/ retry \/ remove
  BY <1>12, <1>2, <1>3 DEF fetchMessagesPage, ChatConnects, post_message, ChatPublished, loadOlder,
     ChatBreaks, OthersChat, send, retry, remove, chatVars
<1> QED
  BY <1>6, <1>7, <1>8, <1>9, <1>10, <1>11, <1>12 DEF chatNext, ChatStep

(* The rest of the types.                                                  *)
LEMMA RestStep ==
    ASSUME RestTyped, chatNext
    PROVE  RestTyped'
<1>1. ASSUME NEW what \in {"sends", "others", "deletes", "turns", "olders", "breaks", "faults"}, ChatSpend(what)
      PROVE  chatLeft' \in ChatBudgets
  BY <1>1 DEF ChatSpend, RestTyped, ChatBudgets
<1>2. chatLeft' \in ChatBudgets
  <2>1. CASE UNCHANGED chatLeft
    BY <2>1 DEF RestTyped
  <2>2. UNCHANGED chatLeft \/ \E what \in {"sends", "others", "deletes", "turns", "olders", "breaks", "faults"} : ChatSpend(what)
    BY DEF chatNext, ChatStep, fetchMessagesPage, useInfiniteQuery, ChatDelivered, ChatConnects, chatVars, post_message,
       ChatAnswered, unread_count, fetchUnreadCount, mark_read, markRead, ChatPublished, loadOlder, ChatBreaks, OthersChat,
       send, retry, remove, openChat
  <2> QED
    BY <1>1, <2>1, <2>2
<1>3. chatOpen' \in BOOLEAN
  BY DEF RestTyped, chatNext, ChatStep, fetchMessagesPage, useInfiniteQuery, ChatDelivered, ChatConnects, chatVars, post_message,
     ChatAnswered, unread_count, fetchUnreadCount, mark_read, markRead, ChatPublished, loadOlder, ChatBreaks, OthersChat,
     send, retry, remove, openChat
<1>4. missed' \in BOOLEAN
  BY DEF RestTyped, chatNext, ChatStep, fetchMessagesPage, useInfiniteQuery, ChatDelivered, ChatConnects, chatVars, post_message,
     ChatAnswered, unread_count, fetchUnreadCount, mark_read, markRead, ChatPublished, loadOlder, ChatBreaks, OthersChat,
     send, retry, remove, openChat, MessageEvent, notifyOpen
<1>5. belated' \in BOOLEAN
  BY DEF RestTyped, chatNext, ChatStep, fetchMessagesPage, useInfiniteQuery, ChatDelivered, ChatConnects, chatVars, post_message,
     ChatAnswered, unread_count, fetchUnreadCount, mark_read, markRead, ChatPublished, loadOlder, ChatBreaks, OthersChat,
     send, retry, remove, openChat, MessageEvent, notifyOpen
<1> QED
  BY <1>2, <1>3, <1>4, <1>5 DEF RestTyped

(* A count kept stays true while what it counts and what is owed stay.     *)
LEMMA BadgeStays ==
    ASSUME BadgeInv, UNCHANGED unread, CountOwed => CountOwed',
           UnreadFrom(said', lastRead') = UnreadFrom(said, lastRead) \/ CountOwed'
    PROVE  BadgeInv'
BY DEF BadgeInv

(* A count asked for anew owes nothing yet.                                *)
LEMMA BadgeAsked ==
    ASSUME CountTyped, unread' = refreshUnread, ~CountsOld
    PROVE  BadgeInv'
BY DEF CountTyped, refreshUnread, CountsOld, BadgeInv

(* The badge, by every step.                                               *)
LEMMA BadgeStep ==
    ASSUME RoomTyped, CountTyped, ChannelInv, PostsInv, missed \in BOOLEAN, BadgeInv, ~missed', chatNext
    PROVE  BadgeInv'
<1> DEFINE Marks == [asked : Nat, done : Nat]
<1>0. marking \in Marks
  BY DEF CountTyped
<1>1. CASE ChatDelivered \/ markRead
  BY <1>1, BadgeAsked DEF ChatDelivered, MessageEvent, notifyOpen, markRead
<1>2. CASE unread_count
  BY <1>2 DEF unread_count, chatRoom, CountTyped, BadgeInv
<1>3. CASE fetchUnreadCount
  BY <1>3 DEF fetchUnreadCount, eventVars, chatRoom, BadgeInv, CountOwed
<1>4. CASE mark_read
  BY <1>4, <1>0, BadgeStays DEF mark_read, CountOwed
<1>5. CASE OthersChat \/ post_message
  BY <1>5, ServerStep, BadgeStays DEF create_message, delete_message, schedule_project_event,
     CountOwed
<1>6. CASE ChatPublished
  BY <1>6, BadgeStays DEF ChatPublished, chatRoom, ChannelInv, Channel, publish_project_event, Events,
     Closed, CountOwed
<1>7. CASE ChatBreaks \/ ChatConnects
  BY <1>7, BadgeStays DEF ChatBreaks, ChatConnects, chatVars, Closed, streamError, scheduleReconnect,
     project_events_stream, CountOwed
<1>8. CASE useInfiniteQuery \/ ChatAnswered \/ openChat
  BY <1>8, <1>0, MarksRead, BadgeStays DEF useInfiniteQuery, ChatAnswered, openChat, ShowChat,
     eventVars, chatRoom, CountOwed
<1>9. CASE fetchMessagesPage \/ loadOlder \/ send \/ retry \/ remove
  BY <1>9, BadgeStays DEF fetchMessagesPage, loadOlder, send, retry, remove, eventVars, chatRoom,
     CountOwed
<1> QED
  BY <1>1, <1>2, <1>3, <1>4, <1>5, <1>6, <1>7, <1>8, <1>9 DEF chatNext, ChatStep

(* The invariant, by every step of the chat, and by none.                  *)
LEMMA ChatKept == ChatInv /\ [chatNext]_<<eventVars, chatVars>> => ChatInv'
<1>1. ASSUME ChatInv, chatNext PROVE ChatInv'
  BY <1>1, ChannelStep, PagesStep, SendsStep, CountStep, RestStep, BadgeStep DEF ChatInv, RestTyped
<1>2. ASSUME ChatInv, UNCHANGED <<eventVars, chatVars>> PROVE ChatInv'
  <2>1. /\ UNCHANGED <<stream, outbox, said, lastRead, chatData, chatFetch, pending, posts, unread, marking, chatOpen>>
        /\ UNCHANGED <<chatLeft, missed, belated>>
    BY <1>2 DEF eventVars, chatVars, chatRoom
  <2> QED
    BY <1>2, <2>1 DEF ChatInv, RoomTyped, SendsTyped, CountTyped, RestTyped, ChannelInv, PostsInv, PagesInv, InOrder, OwnInv,
       BadgeInv, CountOwed, PagesTyped, FetchInv, OnceInv, ShownInv, GotInv, BaseInv, Creates, Deletes, UnreadFrom
<1> QED
  BY <1>1, <1>2

(* The conversation the project is opened with.                            *)
LEMMA SaidFirst ==
    ASSUME said = [i \in 1..Before |-> [mine |-> FALSE, gone |-> FALSE]]
    PROVE  said \in SaidRows /\ Len(said) = Before /\ DOMAIN said = 1..Before /\ \A id \in DOMAIN said : ~said[id].gone
BY ChatAssumption DEF SaidRows

(* Nobody has read it, or the user has.                                    *)
LEMMA UnreadFirst ==
    ASSUME said = [i \in 1..Before |-> [mine |-> FALSE, gone |-> FALSE]]
    PROVE  UnreadFrom(said, 0) = Before /\ UnreadFrom(said, Before) = 0
<1> DEFINE unseen(from) == {i \in DOMAIN said : i > from /\ ~said[i].mine /\ ~said[i].gone}
<1>1. Before \in Nat
  BY ChatAssumption
<1>2. unseen(0) = 1..Before
  BY <1>1
<1>3. unseen(Before) = {}
  BY <1>1
<1>4. Cardinality({}) = 0
  BY FS_EmptySet
<1>5. Cardinality(1..Before) = Before
  BY <1>1, FS_Interval
<1>6. UnreadFrom(said, 0) = Cardinality(unseen(0)) /\ UnreadFrom(said, Before) = Cardinality(unseen(Before))
  BY DEF UnreadFrom
<1> HIDE DEF unseen
<1> QED
  BY <1>2, <1>3, <1>4, <1>5, <1>6

(* The pages a project is opened with.                                     *)
LEMMA PagesFirst ==
    ASSUME said \in SaidRows
    PROVE  LET pages == <<list_messages(0)>>
           IN  /\ pages \in Seq(ChatPage) /\ pages # << >> /\ Real(pages, said) /\ Once(pages) /\ Above(pages)
               /\ \A d : Right(pages, said, d)
               /\ \A c : Whole(pages, {}, said, c)
<1> DEFINE page == list_messages(0)
<1>1. PageOf(page, 0, said)
  BY ListMessages DEF SaidRows
<1>2. <<page>> = Append(<< >>, page)
  OBVIOUS
<1>3. 0 \in 0..Len(said)
  BY DEF SaidRows
<1> DEFINE nil == << >>
<1>4. /\ nil \in Seq(ChatPage) /\ Real(nil, said) /\ Once(nil) /\ Above(nil) /\ \A d : Right(nil, said, d)
      /\ nil # << >> => 0 = getNextPageParam(nil) /\ 0 # 0
  BY NothingYet
<1> DEFINE more == Append(nil, page)
           none == 0
<1>5. none \in 0..Len(said) /\ PageOf(page, none, said) /\ none # 1 /\ none = 0
      /\ (nil # << >> => none = getNextPageParam(nil) /\ none # 0)
  BY <1>1, <1>3
<1> HIDE DEF page, nil, none
<1>6. /\ more \in Seq(ChatPage) /\ more # << >>
      /\ Real(more, said) /\ Once(more) /\ Above(more)
      /\ \A d : Right(nil, said, d) => Right(more, said, d)
      /\ \A s, c : none = 0 \/ (nil # << >> /\ Whole(nil, s, said, c)) => Whole(more, s, said, c)
  BY <1>4, <1>5, PageRead
<1>7. more = <<page>>
  BY <1>2 DEF nil
<1> QED
  BY <1>4, <1>5, <1>6, <1>7 DEF page

(* The invariant holds when the project is opened.                         *)
LEMMA ChatBegins == chatInit => ChatInv
<1> SUFFICES ASSUME chatInit PROVE ChatInv
  OBVIOUS
<1>1. chatLeft \in ChatBudgets /\ Before \in Nat
  BY ChatAssumption DEF chatInit, ChatBudgets
<1>2. /\ chatOpen = (chatLeft.settled /\ chatLeft.sends > 0) /\ lastRead = (IF chatOpen THEN Before ELSE 0)
      /\ outbox = {} /\ pending = << >> /\ posts = {} /\ marking = [asked |-> 0, done |-> 0] /\ missed = FALSE /\ belated = FALSE
  BY DEF chatInit
<1>3. /\ said \in SaidRows /\ Len(said) = Before /\ DOMAIN said = 1..Before /\ \A id \in DOMAIN said : ~said[id].gone
      /\ UnreadFrom(said, 0) = Before /\ UnreadFrom(said, Before) = 0
  BY SaidFirst, UnreadFirst DEF chatInit
<1>4. lastRead \in {0, Before} /\ UnreadFrom(said, lastRead) = Before - lastRead /\ chatOpen \in BOOLEAN
  BY <1>1, <1>2, <1>3
<1>5. RoomTyped /\ SendsTyped /\ PostsInv /\ OwnInv
  BY <1>1, <1>2, <1>3, <1>4 DEF RoomTyped, SendsTyped, PostsInv, OwnInv
<1>6. RestTyped
  BY <1>1, <1>2, <1>4 DEF RestTyped
<1>7. stream = Closed(stream.at) /\ stream.queue = << >> /\ stream.at \in {"connecting", "open"}
  BY DEF chatInit, Closed
<1>8. ChannelInv /\ InOrder
  <2>1. stream \in Events
    <3>1. << >> \in Seq(ChatFrame)
      OBVIOUS
    <3> QED
      BY <1>7, <3>1 DEF Events, Closed
  <2>2. DOMAIN stream.queue = {}
    BY <1>7
  <2> QED
    BY <1>2, <1>3, <1>7, <2>1, <2>2 DEF ChannelInv, Channel, InOrder, Orderly
<1>9. CASE chatLeft.settled
  <2>1. /\ chatData.loaded /\ chatData.pages = <<list_messages(0)>> /\ chatData \in [loaded : BOOLEAN, pages : {<<list_messages(0)>>}]
        /\ chatFetch = Idle /\ unread = [loaded |-> TRUE, count |-> Before - lastRead, fetch |-> "none", got |-> 0]
    <3>1. /\ chatData = [loaded |-> TRUE, pages |-> <<list_messages(0)>>] /\ chatFetch = Idle
          /\ unread = [loaded |-> TRUE, count |-> Before - lastRead, fetch |-> "none", got |-> 0]
      BY <1>9, Zenon DEF chatInit
    <3> QED
      BY <3>1
  <2> DEFINE shown == <<list_messages(0)>>
  <2>2. /\ shown \in Seq(ChatPage) /\ shown # << >> /\ Real(shown, said) /\ Once(shown) /\ Above(shown)
        /\ \A d : Right(shown, said, d)
        /\ \A c : Whole(shown, {}, said, c)
    BY <1>3, PagesFirst
  <2> HIDE DEF shown
  <2>3. chatData.pages = shown
    BY <2>1 DEF shown
  <2>4. chatFetch \in ChatFetches /\ chatFetch.kind = "none" /\ chatFetch.base = << >> /\ chatFetch.got = << >> /\ ~chatFetch.read
    BY <2>1, NothingYet DEF Idle, ChatFetches
  <2>5. PagesTyped
    BY <2>1, <2>2, <2>4 DEF PagesTyped, ChatDatas, shown
  <2>6. FetchInv
    BY <2>1, <2>2, <2>3, <2>4, NothingYet DEF FetchInv
  <2>7. OnceInv /\ ShownInv /\ GotInv /\ BaseInv
    BY <2>2, <2>3, <2>4, NothingYet DEF OnceInv, ShownInv, GotInv, BaseInv
  <2>8. CountTyped /\ BadgeInv
    BY <1>1, <1>2, <1>3, <1>4, <2>1 DEF CountTyped, BadgeInv
  <2> QED
    BY <1>5, <1>6, <1>8, <2>5, <2>6, <2>7, <2>8 DEF ChatInv, PagesInv
<1>10. CASE ~chatLeft.settled
  <2>1. /\ ~chatData.loaded /\ chatData.pages = << >> /\ chatData \in [loaded : BOOLEAN, pages : {<< >>}]
        /\ chatFetch = NewestPage("first", 1) /\ unread = [loaded |-> FALSE, count |-> 0, fetch |-> "asked", got |-> 0]
    <3>1. /\ chatData = [loaded |-> FALSE, pages |-> << >>] /\ chatFetch = NewestPage("first", 1)
          /\ unread = [loaded |-> FALSE, count |-> 0, fetch |-> "asked", got |-> 0]
      BY <1>10, Zenon DEF chatInit
    <3> QED
      BY <3>1
  <2>2. chatFetch \in ChatFetches /\ chatFetch.kind = "first" /\ chatFetch.base = << >> /\ chatFetch.got = << >> /\ ~chatFetch.read
    BY <2>1, NothingYet DEF Idle, NewestPage, ChatFetches
  <2>3. PagesTyped
    BY <2>1, <2>2, NothingYet DEF PagesTyped, ChatDatas
  <2>4. FetchInv
    BY <2>1, <2>2, NothingYet DEF FetchInv
  <2>5. OnceInv /\ ShownInv /\ GotInv /\ BaseInv
    BY <2>1, <2>2, NothingYet DEF OnceInv, ShownInv, GotInv, BaseInv
  <2>6. CountTyped /\ BadgeInv
    BY <1>1, <1>2, <1>3, <2>1 DEF CountTyped, BadgeInv
  <2> QED
    BY <1>5, <1>6, <1>8, <2>3, <2>4, <2>5, <2>6 DEF ChatInv, PagesInv
<1> QED
  BY <1>9, <1>10


(* The invariant gives each value its type.                                *)
LEMMA ChatTyped == ChatInv => chatTypeOK
<1> SUFFICES ASSUME ChatInv PROVE chatTypeOK
  OBVIOUS
<1>1. RoomTyped /\ SendsTyped /\ CountTyped /\ ChannelInv /\ PagesTyped /\ FetchInv
  BY DEF ChatInv, PagesInv
<1>2. stream.at \in {"connecting", "open", "waiting"} /\ \A e \in outbox : e.type \in PROJECT_EVENT_TYPES
  BY <1>1 DEF ChannelInv, Channel, Events, IsEvent, Created, Deleted, Event, PROJECT_EVENT_TYPES
<1>3. \A p \in DOMAIN chatData.pages : p > 1 => chatData.pages[p].rows # {}
  BY <1>1 DEF FetchInv, Real
<1>4. \A m \in Rows(chatData.pages) : m.id \in DOMAIN said
  BY <1>1, RowIn DEF FetchInv, Real
<1>5. unread.count \in 0..Len(said) /\ lastRead \in 0..Len(said) /\ chatFetch.kind \in {"none", "first", "again", "older"}
  BY <1>1, PageFields DEF CountTyped, RoomTyped
<1> QED
  BY <1>1, <1>2, <1>3, <1>4, <1>5 DEF chatTypeOK, SendsTyped

(* With nothing on its way, the rows shown are the messages.               *)
LEMMA ChatShown == ChatInv => ChatConverges
<1> SUFFICES ASSUME ChatInv, ChatAtRest, ~missed, ~belated
             PROVE  Rows(chatData.pages) = {Item(id) : id \in Reach(chatData.pages)..Len(said)}
  BY DEF ChatConverges
<1> DEFINE shown == chatData.pages
           reach == Reach(shown)
<1>1. /\ said \in SaidRows /\ DOMAIN said = 1..Len(said) /\ Len(said) \in Nat
      /\ \A id \in DOMAIN said : said[id].gone \in BOOLEAN
  <2>1. said \in SaidRows
    BY DEF ChatInv, RoomTyped
  <2>2. said \in Seq([mine : BOOLEAN, gone : BOOLEAN])
    BY <2>1 DEF SaidRows
  <2>3. DOMAIN said = 1..Len(said) /\ Len(said) \in Nat
    BY <2>2
  <2>4. ASSUME NEW id \in DOMAIN said PROVE said[id].gone \in BOOLEAN
    <3>1. said[id] \in [mine : BOOLEAN, gone : BOOLEAN]
      BY <2>2, <2>3, ElementOfSeq
    <3> QED
      BY <3>1
  <2> QED
    BY <2>1, <2>3, <2>4
<1>2. shown \in Seq(ChatPage) /\ Real(shown, said) /\ Above(shown) /\ reach \in Nat \ {0}
  BY PageFields, ReachTyped DEF ChatInv, PagesInv, FetchInv, OnceInv
<1>3. Creates = {} /\ Deletes = {}
  BY DEF ChatAtRest, ChannelQuiet, Closed, ToSet, Creates, Deletes, CreatesOf, DeletesOf, Reopens
<1>4. Right(shown, said, {}) /\ Whole(shown, {}, said, {})
  BY <1>3 DEF ChatAtRest, Idle, ChatInv, PagesInv, ShownInv
<1> HIDE DEF shown, reach
<1>5. ASSUME NEW m \in Rows(shown)
      PROVE  m.id \in DOMAIN said /\ m.id >= reach /\ m = Item(m.id)
  <2>1. PICK p \in DOMAIN shown : m \in shown[p].rows
    BY RowIn
  <2>2. m \in ChatRow
    <3>1. shown[p] \in ChatPage
      BY <1>2
    <3> QED
      BY <2>1, <3>1 DEF ChatPage
  <2>3. m.id \in DOMAIN said /\ (m.gone => said[m.id].gone)
    BY <1>2, <2>1 DEF Real
  <2>4. said[m.id].gone => m.gone
    BY <1>4 DEF Right
  <2>5. m.gone = said[m.id].gone
    BY <1>1, <2>2, <2>3, <2>4 DEF ChatRow
  <2>6. m = [id |-> m.id, gone |-> m.gone]
    BY <2>2 DEF ChatRow
  <2>7. m.id >= reach
    BY <1>2 DEF Above, reach
  <2> QED
    BY <2>3, <2>5, <2>6, <2>7 DEF Item
<1>6. ASSUME NEW id \in reach..Len(said)
      PROVE  Item(id) \in Rows(shown)
  BY <1>1, <1>2, <1>4, RowIn, <1>5 DEF Whole, reach
<1>7. \A m \in Rows(shown) : m.id \in reach..Len(said) /\ m = Item(m.id)
  BY <1>1, <1>2, <1>5
<1>8. Rows(shown) = {Item(id) : id \in reach..Len(said)}
  BY <1>6, <1>7
<1> QED
  BY <1>8 DEF shown, reach

(* A row is shown in one place.                                            *)
LEMMA ChatOnce == ChatInv => OnceEach
BY DEF OnceEach, ChatInv, PagesInv, OnceInv, messages, Once

(* What is shown of the user's own messages, and what the badge counts.    *)
LEMMA ChatCounts == ChatInv => OwnMessageShown /\ BadgeTrue
BY DEF ChatInv, OwnInv, OnPages, OwnMessageShown, CountOwed, ChatAtRest, ChannelQuiet, BadgeInv,
   BadgeTrue

(* The invariant of the chat, in every state it reaches.                   *)
THEOREM ChatHolds == chatSpec => []ChatInv
<1>1. chatInit => ChatInv
  BY ChatBegins
<1>2. ChatInv /\ [chatNext]_<<eventVars, chatVars>> => ChatInv'
  BY ChatKept
<1> QED
  BY <1>1, <1>2, PTL DEF chatSpec

(* In every state the chat reaches.                                        *)
THEOREM ChatIsTrue ==
    chatSpec => [](chatTypeOK /\ ChatConverges /\ OnceEach /\ OwnMessageShown /\ BadgeTrue)
<1>1. ChatInv => chatTypeOK /\ ChatConverges /\ OnceEach /\ OwnMessageShown /\ BadgeTrue
  BY ChatTyped, ChatShown, ChatOnce, ChatCounts
<1> QED
  BY <1>1, ChatHolds, PTL

-----------------------------------------------------------------------------
(* The workspace: the chat and the comments use one channel of events, and  *)
(* while one of them is the panel in focus the other stays as it was.       *)
CommentsIdle ==
    /\ AnchorInv /\ AllOlder /\ ThreadsTyped /\ CommentsTyped /\ commentTypeOK /\ NothingTypedLost
    /\ comments.loaded /\ comments.fetch = "none" => comments.list = threads
CommentsAny == IF focus = "chat" THEN CommentsIdle ELSE CommentInv

\* As long as nothing happens to the threads, nothing untrue is shown of them.
LEMMA IdleComments ==
    ASSUME CommentsIdle, UNCHANGED commentVars
    PROVE  CommentsIdle'
  BY DEF commentVars, panelVars, CommentsIdle, AnchorInv, Anchored, Held, AllOlder, commentTypeOK,
     Present, ThreadsTyped, CommentsTyped, NothingTypedLost

\* In the workspace the panel of the comments keeps what it promises, whichever panels are in use.
THEOREM WorkspaceComments == WorkspaceSpec => CommentsKept
<1>1. WorkspaceInit => CommentsAny
  <2> SUFFICES ASSUME WorkspaceInit PROVE CommentsAny
    OBVIOUS
  <2>1. commentInit /\ CommentInv /\ CommentsTrue
    BY CommentStart, CommentTruths DEF WorkspaceInit
  <2>2. comments.loaded /\ comments.fetch = "none" => comments.list = threads
    BY <2>1 DEF commentInit
  <2> QED
    BY <2>1, <2>2 DEF CommentsAny, CommentsIdle, CommentsTrue, CommentInv, CommentTyped
<1>2. CommentsAny /\ [WorkspaceNext]_allVars =>
        \/ focus # "chat" /\ CommentInv /\ [commentNext]_<<eventVars, commentVars>> /\ UNCHANGED focus
        \/ focus = "chat" /\ CommentsIdle /\ UNCHANGED <<focus, commentVars>>
  BY Zenon DEF CommentsAny, WorkspaceNext, allVars, Agent, Chat, Comments, Tree
<1>3. CommentsAny /\ [WorkspaceNext]_allVars => CommentsAny'
  BY <1>2, CommentSteps, IdleComments DEF CommentsAny
<1>4. CommentsAny => CommentsTrue
  BY CommentTruths, ShownAnchors DEF CommentsAny, CommentsIdle, CommentsTrue, ListConverges
<1>5. CommentsAny /\ [WorkspaceNext]_allVars =>
        [\A w \in writes : w.kind = "edit" /\ w.at = "asked" /\ w.known /\ w \notin writes' =>
           \A n \in DOMAIN threads : \A m \in DOMAIN threads[n].msgs :
               threads[n].msgs[m].mentions \subseteq threads'[n].msgs[m].mentions]_commentVars
  BY <1>2, MentionsStay
<1>6. CommentsAny /\ [WorkspaceNext]_allVars =>
        [\A w \in writes : w.kind = "resolve" /\ w.at = "asked" /\ w \notin writes' =>
           \/ threads'[w.thread].resolved = w.to \/ threads'[w.thread] = threads[w.thread]]_commentVars
  BY <1>2, PressesHold
<1> QED
  BY <1>1, <1>3, <1>4, <1>5, <1>6, PTL DEF WorkspaceSpec, CommentsKept, CommentsTrue, MentionsKept, PressHolds

(* While the chat is not the panel in focus it stays as it was.            *)
ChatIdle ==
    /\ OnceEach /\ OwnMessageShown
    /\ chatData.loaded => /\ Rows(chatData.pages) = {Item(id) : id \in Reach(chatData.pages)..Len(said)}
                          /\ unread.count = UnreadFrom(said, lastRead)
ChatAny == IF focus = "chat" THEN ChatInv ELSE ChatIdle

\* As long as nothing happens to the chat, what it shows stays true.
LEMMA IdleChat ==
    ASSUME ChatIdle, UNCHANGED chatVars
    PROVE  ChatIdle'
<1>1. UNCHANGED <<said, lastRead, chatData, pending, unread, missed, belated>>
  BY DEF chatVars, chatRoom
<1> QED
  BY <1>1 DEF ChatIdle, OnceEach, OwnMessageShown, messages, Rows, Ids, Reach, getNextPageParam, Item, UnreadFrom

\* In the workspace, too, the chat shows the conversation, each message once and the user's own at all
\* times, and the badge counts what is unread, whichever panels are in use.
THEOREM WorkspaceChat == WorkspaceSpec => []ChatTrue
<1>1. WorkspaceInit => ChatAny
  <2> SUFFICES ASSUME WorkspaceInit PROVE ChatAny
    OBVIOUS
  <2>1. chatInit /\ ChatInv
    BY ChatBegins DEF WorkspaceInit
  <2>2. ChatConverges /\ OnceEach /\ OwnMessageShown /\ BadgeTrue
    BY <2>1, ChatShown, ChatOnce, ChatCounts
  <2>3. ASSUME chatData.loaded PROVE ChatAtRest /\ ~missed /\ ~belated
    <3>1. /\ outbox = {} /\ posts = {} /\ marking = [asked |-> 0, done |-> 0] /\ missed = FALSE /\ belated = FALSE
      BY <2>1, Zenon DEF chatInit
    <3>2. /\ chatLeft.settled => /\ stream = Closed("open") /\ chatFetch = Idle
                                 /\ unread = [loaded |-> TRUE, count |-> Before - lastRead, fetch |-> "none", got |-> 0]
          /\ ~chatLeft.settled => chatData = [loaded |-> FALSE, pages |-> << >>]
      BY <2>1, Zenon DEF chatInit
    <3>3. chatLeft.settled
      BY <2>3, <3>2
    <3> QED
      BY <2>3, <3>1, <3>2, <3>3 DEF ChatAtRest, ChannelQuiet
  <2>4. ChatIdle
    BY <2>2, <2>3 DEF ChatIdle, ChatConverges, BadgeTrue
  <2> QED
    BY <2>1, <2>4 DEF ChatAny
<1>2. [WorkspaceNext]_allVars =>
        \/ focus = "chat" /\ [chatNext]_<<eventVars, chatVars>> /\ UNCHANGED focus
        \/ focus # "chat" /\ UNCHANGED <<focus, chatVars>>
  BY Zenon DEF WorkspaceNext, allVars, Agent, Chat, Comments, Tree
<1>3. ChatAny /\ [WorkspaceNext]_allVars => ChatAny'
  BY <1>2, ChatKept, IdleChat DEF ChatAny
<1>4. ChatAny => ChatTrue
  <2>1. ChatInv => ChatConverges /\ OnceEach /\ OwnMessageShown /\ BadgeTrue
    BY ChatShown, ChatOnce, ChatCounts
  <2>2. ChatAtRest => chatData.loaded
    BY DEF ChatAtRest
  <2>3. ChatIdle => ChatConverges /\ OnceEach /\ OwnMessageShown /\ BadgeTrue
    BY <2>2, Zenon DEF ChatIdle, ChatConverges, BadgeTrue
  <2> QED
    BY <2>1, <2>3 DEF ChatAny, ChatTrue
<1> QED
  BY <1>1, <1>3, <1>4, PTL DEF WorkspaceSpec

\* The discussions of a project keep what they promise, whichever panels are in use.
THEOREM WorkspaceDiscussion == WorkspaceSpec => DiscussionKept
  BY WorkspaceComments, WorkspaceChat, PTL DEF DiscussionKept
=============================================================================
