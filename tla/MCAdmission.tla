---------------------------- MODULE MCAdmission ----------------------------
(***************************************************************************)
(* Values for checking Admission: the methods the program calls today, and *)
(* every handler one of the goroutines that may be inside Storage.         *)
(***************************************************************************)
EXTENDS Admission

Production == {"IsVerifiedUser", "VerifyUser", "VerifyUsers", "IsBannedUser"}

AllCallers == Messages \cup Presses
=============================================================================
