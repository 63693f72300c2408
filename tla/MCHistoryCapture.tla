--------------------------- MODULE MCHistoryCapture ---------------------------
(***************************************************************************)
(* Small instances of HistoryCapture for TLC.                              *)
(***************************************************************************)
EXTENDS HistoryCapture, TLC

CONSTANTS c1, c2, r1, f1, f2    \* model values

\* The tasks of one kind are interchangeable.
Symmetry == Permutations(Conns) \cup Permutations(Flushers)
=============================================================================
