------------------------- MODULE MCDocumentStories -------------------------
(***************************************************************************)
(* Two stories of DocumentManager in one run.  In the first, connections    *)
(* and a forced flush meet evictions, which swap the lock under tasks that  *)
(* wait for it; in the second, one connection and a server-side writer meet *)
(* a failing write and a crash.                                             *)
(***************************************************************************)
EXTENDS MCDocumentManager

\* A story: the tasks that take no part in it, and the faults that may happen.
Swap == [out |-> Servers, faults |-> 0, crashes |-> 0]
Faulty(c) == [out |-> Flushers \cup {c}, faults |-> 1, crashes |-> 1]
Stories == {Swap} \cup {Faulty(c) : c \in Conns}

\* The states of the run belong to a story (a constraint).
InStory ==
    \E story \in Stories :
      /\ \A t \in story.out : pc[t] = "idle"
      /\ faults <= story.faults /\ crashes <= story.crashes
=============================================================================
