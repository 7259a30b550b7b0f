------------------------------ MODULE Service ------------------------------
(***************************************************************************)
(* The process and the HTTP API it serves: Lifecycle says when requests    *)
(* are accepted and when the process is gone, AdminAPI what becomes of a   *)
(* request while the process runs.  A process that ends takes the requests *)
(* it is serving with it: they stay where they are, and their clients see  *)
(* nothing.                                                                *)
(***************************************************************************)
EXTENDS Lifecycle

CONSTANTS
  Users,      \* Telegram users
  Kinds,      \* what every request may be
  NoKind      \* the kind of a request not sent yet

VARIABLES
  request,    \* how far every request has come
  verified,   \* users in the table verified
  banned      \* the user's row in the table banned

API == INSTANCE AdminAPI

apiVars == <<request, verified, banned>>
serviceVars == <<vars, apiVars>>

ASSUME ServiceAssumption ==
  /\ Kinds \in [Requests -> SUBSET API!AllKinds]
  /\ NoKind \notin API!AllKinds

ServiceInit == Init /\ API!Init

(* The listener accepts a request only while the process serves,           *)
Accept(r, k) == API!Arrive(r, k) /\ Request(r)

(* its goroutine runs while the process does,                              *)
HandleRequest(r) == Running /\ API!Handle(r) /\ UNCHANGED vars

(* Mutant: the connection counts as idle before the answer is written.     *)
AnswerAfterDone(r) == Respond(r) /\ UNCHANGED apiVars

(* and the server waits for it until it has answered.                      *)
Answer(r) ==
  /\ \E late, mute \in BOOLEAN : API!Leave(r, late, mute)
  /\ Respond(r)

ServiceNext ==
  \/ Process /\ UNCHANGED apiVars
  \/ \E r \in Requests :
       \/ \E k \in Kinds[r] : Accept(r, k)
       \/ HandleRequest(r) \/ Answer(r)

ServiceSpec == ServiceInit /\ [][ServiceNext]_serviceVars

(* The fairness of Lifecycle: requests may take forever.                   *)
FairServiceSpec ==
  /\ ServiceSpec
  /\ WF_serviceVars(Main /\ UNCHANGED apiVars)
  /\ WF_serviceVars(Http /\ UNCHANGED apiVars)
  /\ WF_serviceVars(Bot /\ UNCHANGED apiVars)
  /\ WF_serviceVars(Serve /\ UNCHANGED apiVars)
  /\ WF_serviceVars(StopPolling /\ UNCHANGED apiVars)
-----------------------------------------------------------------------------
(* Every variable has its type, and the server's count of requests is of   *)
(* those under way.                                                        *)
ServiceTypeOK ==
  /\ TypeOK /\ API!TypeOK
  /\ requests = {r \in Requests : API!Serving(r)}

AnswerTellsOutcome == API!AnswerTellsOutcome
PanicIsAnError == API!PanicIsAnError
OnlyAuthorisedVerify == API!OnlyAuthorisedVerify

(* "Shutdown gracefully shuts down the server without interrupting any     *)
(* active connections" (server.go:200): if the process ends well, within   *)
(* the ten seconds, the client of every request that changed the database  *)
(* has been answered, unless its connection or the handler broke.          *)
StoredIsAnswered ==
  exit = "ok" /\ http = "done" =>
    \A r \in Requests :
      request[r].stored /\ ~request[r].mute => request[r].seen.code # 0
=============================================================================
