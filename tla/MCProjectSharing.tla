-------------------------- MODULE MCProjectSharing --------------------------
(***************************************************************************)
(* ProjectSharing alone: an owner hands the project over while the member   *)
(* who becomes its owner leaves it.                                         *)
(***************************************************************************)
EXTENDS ProjectSharing

Peace == [may |-> {}, own |-> 0, theirs |-> {}, others |-> 0, faults |-> 0, hand |-> {},
          handRole |-> "editor", linked |-> {}, on |-> NoUser]
MCLeaving ==
    {[Peace EXCEPT !.hand = {"bia"}, !.may = {"transfer"}, !.own = 1, !.theirs = {"leave"}, !.others = 1]}

Spec == shareInit /\ [][shareNext]_shareVars /\ WF_shareVars(ShareStep)
=============================================================================
