---------------------------- MODULE MCTutorScreens ----------------------------
(* Two changes under way at once, interchangeable.                           *)
EXTENDS TutorScreens, TLC

TwoSlots == Permutations(Slots)
=============================================================================
