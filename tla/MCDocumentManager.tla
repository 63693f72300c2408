------------------------- MODULE MCDocumentManager -------------------------
(***************************************************************************)
(* Small instances of DocumentManager for TLC.                             *)
(***************************************************************************)
EXTENDS DocumentManager, TLC

CONSTANTS c1, c2, s1, f1, t1, t2   \* model values

\* The tasks of one kind are interchangeable.
Symmetry == Permutations(Conns) \cup Permutations(Timers)
=============================================================================
