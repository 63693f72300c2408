--------------------------- MODULE MCCollabClient ---------------------------
(* An editor whose link may fail once, and a viewer who stays.             *)
EXTENDS CollabClient
CONSTANTS a, b
MCClient == {a, b}
MCWriter == {a}
MCConn == [c \in MCClient |-> IF c = a THEN 2 ELSE 1]
MCScripts == {[edits |-> 1, present |-> {}], [edits |-> 0, present |-> {a}]}
=============================================================================
