---------------------------- MODULE VersionHistory ----------------------------
(***************************************************************************)
(* What the version history of a document promises its readers: versions   *)
(* are numbered one after the other, each contains the ones before it, and *)
(* what a version shows never changes; compaction may withdraw a version,  *)
(* never the latest.  HistoryCapture implements this.                      *)
(***************************************************************************)
EXTENDS Naturals

VARIABLE shown      \* the versions on record: number -> set of updates

\* The latest version; 0, which is on no record, before there is any.
Latest ==
    IF DOMAIN shown = {} THEN 0
    ELSE CHOOSE n \in DOMAIN shown : \A m \in DOMAIN shown : m <= n

Init == shown = [n \in {} |-> {}]

Add ==
    /\ DOMAIN shown' = DOMAIN shown \cup {Latest + 1}
    /\ \A n \in DOMAIN shown :
         shown'[n] = shown[n] /\ shown[n] \subseteq shown'[Latest + 1]

Withdraw ==
    /\ DOMAIN shown' \subseteq DOMAIN shown
    /\ Latest \in DOMAIN shown'
    /\ \A n \in DOMAIN shown' : shown'[n] = shown[n]

Next == Add \/ Withdraw
Spec == Init /\ [][Next]_shown
=============================================================================
