------------------------------- MODULE Tables -------------------------------
(***************************************************************************)
(* What the methods of Storage about verified and banned users promise     *)
(* their callers: each changes both tables at once or leaves them alone.   *)
(***************************************************************************)
CONSTANTS
  Users    \* Telegram users

VARIABLES
  verified,   \* users in the table verified
  banned      \* the user's row in the table banned

BanStates == {"none", "active", "expired"}

Init ==
  /\ verified \in SUBSET Users
  /\ banned \in [Users -> BanStates]
  /\ \A u \in verified : banned[u] = "none"

(* VerifyUser and VerifyUsers.                                             *)
Verify(ids) ==
  /\ verified' = verified \cup ids
  /\ banned' = [u \in Users |-> IF u \in ids THEN "none" ELSE banned[u]]

(* BanUser.                                                                *)
Ban(ids) ==
  /\ verified' = verified \ ids
  /\ banned' = [u \in Users |-> IF u \in ids THEN "active" ELSE banned[u]]

(* IsBannedUser deletes the row of a ban that has run out.                 *)
Forget(u) ==
  /\ banned' = [banned EXCEPT ![u] = "none"]
  /\ UNCHANGED verified

Expire(u) ==
  /\ banned[u] = "active"
  /\ banned' = [banned EXCEPT ![u] = "expired"]
  /\ UNCHANGED verified

Next ==
  \/ \E ids \in SUBSET Users : Verify(ids) \/ Ban(ids)
  \/ \E u \in Users : Forget(u) \/ Expire(u)

Spec == Init /\ [][Next]_<<verified, banned>>
=============================================================================
