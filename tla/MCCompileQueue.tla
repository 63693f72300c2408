--------------------------- MODULE MCCompileQueue ---------------------------
(***************************************************************************)
(* Two stories of CompileQueue in one run.  In the first, two requests of   *)
(* two users for two projects meet the caps; in the second, one request, a  *)
(* cancel, a stream and the retention sweep meet one fault.                 *)
(***************************************************************************)
EXTENDS CompileQueue, TLC

CONSTANTS r1, r2, k1, w1, p1, p2, u1, u2    \* model values

Caps ==
    /\ \A t \in Cancels : cancel[t].at = "idle"
    /\ \A w \in Watchers : watch[w].at = "idle"
    /\ flag \cup tripped \cup sweep \cup pruned = {} /\ faults = 0
Whole ==
    /\ \A t \in Requests \ {r1} : req[t].at = "idle"
    /\ created <= 1 /\ (created = 1 => req[r1].at \in {"idle", "commit"})
    /\ \A owned \in {req[r1]} \cup {owner[c] : c \in Compiles} :
         owned.project \in {p1, "-"} /\ owned.user \in {u1, "-"}

\* The states of the run belong to a story (a constraint).  It cuts off only what
\* nobody has to do: to ask, to cancel, to watch, to sweep, to fail.
InStory == Caps \/ Whole

\* Nobody asks when there is no compile left to make (a bound on actions).
AskInBounds ==
    \A t \in Requests : req[t].at = "idle" /\ req'[t].at # "idle" => created < MaxCompiles
=============================================================================
