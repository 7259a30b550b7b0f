------------------------------- MODULE MCGate -------------------------------
(***************************************************************************)
(* Values for checking Gate.                                               *)
(***************************************************************************)
EXTENDS Gate, TLC

AllKinds == {"message", "story", "via", "press", "outside"}
AllFaults == {"read", "write", "telegram"}

Symmetry == Permutations(Messages)
=============================================================================
