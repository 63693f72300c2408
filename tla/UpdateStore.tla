----------------------------- MODULE UpdateStore -----------------------------
(***************************************************************************)
(* What the persistence of collaborative edits promises: the set of        *)
(* operations the database can give back only grows, and an operation is   *)
(* acknowledged, that is handed on to the other clients, only once it is   *)
(* in that set.  DocumentManager implements this.                          *)
(***************************************************************************)
VARIABLES
    stored,     \* operations the database can give back after a crash
    acked       \* operations relayed to the other clients

Init == stored = {} /\ acked = {}

\* Some operations become durable, none ceases to be.
Persist == stored \subseteq stored' /\ acked' = acked

\* One durable operation is acknowledged, perhaps the very moment it is stored.
Acknowledge ==
    /\ stored \subseteq stored'
    /\ \E u \in stored' : acked' = acked \cup {u}

Next == Persist \/ Acknowledge
Spec == Init /\ [][Next]_<<stored, acked>>
=============================================================================
