----------------------------- MODULE MCService -----------------------------
(***************************************************************************)
(* Values for checking Service.                                            *)
(***************************************************************************)
EXTENDS Service, FiniteSets, TLC

AllFaults == {"storage", "telegram", "upsert", "listen", "hang", "late_event"}

Kind(route, auth, body, ids, upgrade) ==
  [route |-> route, auth |-> auth, body |-> body, ids |-> ids, upgrade |-> upgrade]

CONSTANTS r1, r2

Verify(auth, upgrade) == Kind("verify", auth, "json", Users, upgrade)

(* One request is of any kind the API treats differently, the other        *)
(* verifies.                                                               *)
MixedKinds ==
  r1 :> {Verify("wrong", FALSE), Verify("right", FALSE),
         Kind("verify", "right", "garbage", {}, FALSE),
         Kind("files", "right", "none", {}, FALSE),
         Kind("health", "missing", "none", {}, FALSE),
         Kind("echo", "missing", "garbage", {}, FALSE)}
  @@ r2 :> {Verify("right", FALSE)}

RightKinds == [r \in Requests |-> {Verify("right", FALSE)}]

UpgradeKinds == [r \in Requests |-> {Verify("right", TRUE)}]
=============================================================================
