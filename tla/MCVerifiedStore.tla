-------------------------- MODULE MCVerifiedStore --------------------------
(***************************************************************************)
(* Values for checking VerifiedStore.  Users and goroutines are model      *)
(* values and interchangeable in the safety runs.                          *)
(***************************************************************************)
EXTENDS VerifiedStore, TLC

(* What the program calls today: BanUser is only called in code that is    *)
(* commented out, and without bans IsBannedUser never writes.              *)
Production == {"IsVerifiedUser", "VerifyUser", "VerifyUsers"}

Bot == {"IsVerifiedUser", "VerifyUser"}

Api == {"IsVerifiedUser", "VerifyUsers"}

Symmetry == Permutations(Users) \cup Permutations(Callers)
=============================================================================
