--------------------------- MODULE MCMessageStore ---------------------------
(***************************************************************************)
(* Values for checking MessageStore.                                       *)
(***************************************************************************)
EXTENDS MessageStore, TLC

Symmetry == Permutations(Users) \cup Permutations(Workers)
=============================================================================
