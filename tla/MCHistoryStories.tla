-------------------------- MODULE MCHistoryStories --------------------------
(***************************************************************************)
(* Two stories of HistoryCapture in one run.  In the first, connections and *)
(* the debounce timer resend, fill buffers and roll chunks over; in the     *)
(* second, a restore runs next to an editing connection, with a failing     *)
(* write and a crash.                                                       *)
(***************************************************************************)
EXTENDS MCHistoryCapture

\* A story: the tasks that take no part in it, and the bounds it keeps to.
Captured == [out |-> Restorers, sent |-> 3, faults |-> 0, crashes |-> 0]
Restored(c) == [out |-> Flushers \cup {c}, sent |-> MaxUpdates, faults |-> 1, crashes |-> 1]
Stories == {Captured} \cup {Restored(c) : c \in Conns}

\* The states of the run belong to a story (a constraint).
InStory ==
    \E story \in Stories :
      /\ \A t \in story.out : pc[t] = "out" /\ t \notin room
      /\ sent <= story.sent /\ faults <= story.faults /\ crashes <= story.crashes
=============================================================================
