------------------------------ MODULE AdminAPI ------------------------------
(***************************************************************************)
(* The HTTP API: what its middlewares and handlers do with a request,      *)
(* what the client gets to see of it, and what it does to the tables of    *)
(* verified and banned users.  A request is served by a goroutine of its   *)
(* own; a client that has no answer may send the same request again, which *)
(* is another request here.                                                *)
(***************************************************************************)
EXTENDS Naturals

CONSTANTS
  Users,      \* Telegram users
  Requests,   \* requests, each sent at most once
  Kinds,      \* what every request may be
  NoKind      \* the kind of a request not sent yet

(* A request, as far as the program tells one from another: where it goes, *)
(* its Authorization header, its body, the ids in it, and whether it has   *)
(* the header "Connection: Upgrade".                                       *)
AllKinds ==
  [route   : {"verify", "files", "health", "echo", "ping", "unknown"},
   auth    : {"missing", "not_bearer", "wrong", "right"},
   body    : {"none", "garbage", "json"},
   ids     : SUBSET Users,
   upgrade : BOOLEAN]

VARIABLES
  request,    \* how far every request has come
  verified,   \* users in the table verified
  banned      \* the user's row in the table banned

vars == <<request, verified, banned>>

T == INSTANCE Tables

-----------------------------------------------------------------------------
(* The answers of response.go: a status code and a JSON document whose     *)
(* field status is "ok" or "error".                                        *)
Response(status, error) == [status |-> status, error |-> error]

(* SetData and SetError replace both fields.                               *)
NewResponse == Response("ok", "none")
SetData == Response("ok", "none")
SetError(error) == Response("error", error)

(* No document: the answers of the router and of the file server.          *)
NoBody == Response("none", "none")

Ok(rsp) == [code |-> 200, body |-> Response("ok", rsp.error)]

DefaultError ==
  [code \in {400, 401, 403, 404, 405, 500} |->
     CASE code = 400 -> "bad_request"
       [] code = 401 -> "unauthorized"
       [] code = 403 -> "forbidden"
       [] code = 404 -> "not_found"
       [] code = 405 -> "method_not_allowed"
       [] code = 500 -> "internal_server_error"]

(* BadRequest, Unauthorized, InternalServerError and their like.           *)
Failure(code, rsp) ==
  [code |-> code,
   body |-> Response("error", IF rsp.error = "none" THEN DefaultError[code] ELSE rsp.error)]

Plain(code) == [code |-> code, body |-> NoBody]

Nothing == Plain(0)
-----------------------------------------------------------------------------
(* pc is where the request is: in middlewareAuthorization, in its handler, *)
(* in the transaction of VerifyUsers, on its way back out of the           *)
(* middlewares with an answer, or there with a panic.  written is what the *)
(* handler gave to the connection and seen what the client got; mute is    *)
(* that the connection was no good any more by then.                       *)
Unsent ==
  [pc |-> "none", kind |-> NoKind, written |-> Nothing, seen |-> Nothing,
   panic |-> FALSE, stored |-> FALSE, mute |-> FALSE]

Init ==
  /\ request = [r \in Requests |-> Unsent]
  /\ T!Init

Admin == {"verify", "files"}

Arrive(r, k) ==
  /\ request[r].pc = "none"
  /\ request' = [request EXCEPT
       ![r].pc = IF k.route \in Admin THEN "auth" ELSE "handler",
       ![r].kind = k]
  /\ UNCHANGED <<verified, banned>>

(* What is written first stands.                                           *)
Write(q, answer) ==
  [q EXCEPT !.pc = "leave", !.written = IF q.written = Nothing THEN answer ELSE @]

Answers(r, answer) == request' = [request EXCEPT ![r] = Write(@, answer)]

(* Mutant: any bearer token will do.                                       *)
AuthorizeAnyBearer(r) ==
  LET q == request[r]
  IN  /\ q.pc = "auth"
      /\ IF q.kind.auth \in {"wrong", "right"}
         THEN request' = [request EXCEPT ![r].pc = "handler"]
         ELSE Answers(r, Failure(401, SetError("unauthorized")))
      /\ UNCHANGED <<verified, banned>>

(* middlewareAuthorization: no header, no "Bearer " before it and another  *)
(* token are all answered alike.                                           *)
Authorize(r) ==
  LET q == request[r]
  IN  /\ q.pc = "auth"
      /\ IF q.kind.auth = "right"
         THEN request' = [request EXCEPT ![r].pc = "handler"]
         ELSE Answers(r, Failure(401, SetError("unauthorized")))
      /\ UNCHANGED <<verified, banned>>

(* Whatever panics in a handler leaves it; a transaction it was in is      *)
(* rolled back.  (Nothing here panics with http.ErrAbortHandler, which     *)
(* would go through to net/http.)                                          *)
Panics(r) == request' = [request EXCEPT ![r].pc = "leave", ![r].panic = TRUE]

(* AddVerifyUsers: the body is decoded and looked at before the database   *)
(* is asked.                                                               *)
DecodeVerify(r) ==
  LET q == request[r]
  IN  /\ q.pc = "handler" /\ q.kind.route = "verify"
      /\ IF q.kind.body = "json" /\ q.kind.ids # {}
         THEN request' = [request EXCEPT ![r].pc = "store"]
         ELSE Answers(r, Failure(400, SetError("bad_request")))
      /\ UNCHANGED <<verified, banned>>

StoredThen(r, answer) ==
  /\ T!Verify(request[r].kind.ids)
  /\ request' = [request EXCEPT ![r] = [Write(@, answer) EXCEPT !.stored = TRUE]]

(* VerifyUsers commits, fails, or commits without being told so by the     *)
(* database.                                                               *)
VerifyUsers(r) ==
  LET failed == Failure(500, SetError("internal_server_error"))
  IN  /\ request[r].pc = "store"
      /\ \/ StoredThen(r, Ok(NewResponse))
         \/ StoredThen(r, failed)
         \/ Answers(r, failed) /\ UNCHANGED <<verified, banned>>
         \/ Panics(r) /\ UNCHANGED <<verified, banned>>

(* AddHealthCheck: healthy if the database answers; the server and the bot *)
(* always do.  The deferred LogEvent runs after the answer is written, and *)
(* may panic then.                                                         *)
HealthCheck(r) ==
  LET healthy == Ok(SetData)
      ill == Failure(500, SetError("status_error"))
      PanicsAfter(answer) ==
        request' = [request EXCEPT ![r] = [Write(@, answer) EXCEPT !.panic = TRUE]]
  IN  /\ request[r].pc = "handler" /\ request[r].kind.route = "health"
      /\ \/ Answers(r, healthy) \/ Answers(r, ill)
         \/ Panics(r)
         \/ PanicsAfter(healthy) \/ PanicsAfter(ill)
      /\ UNCHANGED <<verified, banned>>

(* echoRoute: a body must be JSON and is sent back.                        *)
Echo(r) ==
  LET q == request[r]
  IN  /\ q.pc = "handler" /\ q.kind.route = "echo"
      /\ Answers(r, IF q.kind.body = "garbage"
                    THEN Failure(400, SetError("bad_request"))
                    ELSE Ok(SetData))
      /\ UNCHANGED <<verified, banned>>

(* The answers of the libraries: the file server under /admin/files, the   *)
(* heartbeat at /ping, and the router for what it has no route to.         *)
Library(r) ==
  LET q == request[r]
      codes == CASE q.kind.route = "files" -> {200, 404}
                 [] q.kind.route = "ping" -> {200}
                 [] q.kind.route = "unknown" -> {404, 405}
                 [] OTHER -> {}
  IN  /\ q.pc = "handler"
      /\ \E code \in codes : Answers(r, Plain(code))
      /\ UNCHANGED <<verified, banned>>

Serving(r) == request[r].pc \notin {"none", "done"}

(* On the way out middleware.Timeout writes 504 if API_TIMEOUT has passed  *)
(* by then: the handlers do not look at the context it cancels.            *)
PastTimeout(q, late) == IF late THEN Write(q, Plain(504)) ELSE q

(* Mutant: the panic ends here, and nothing is written.                    *)
RecoveredSilently(q) == q

(* Then middlewareErrorRecoverer writes 500, but not to a connection that  *)
(* was to be upgraded.  A status that was written stands, and so does a    *)
(* document: the error is appended to it.                                  *)
Recovered(q) ==
  LET failed == Failure(500, SetError("internal_server_error"))
  IN  IF ~q.panic \/ q.kind.upgrade THEN q
      ELSE [Write(q, failed) EXCEPT
              !.written.body = IF @ = NoBody THEN failed.body ELSE @]

(* And net/http sends what there is, 200 if no status has been written;    *)
(* it does not arrive if API_WRITE_TIMEOUT has passed or the client has    *)
(* gone.                                                                   *)
Reply(q, mute) ==
  IF mute THEN Nothing
  ELSE IF q.written.code = 0 THEN Plain(200) ELSE q.written

Leave(r, late, mute) ==
  LET q == Recovered(PastTimeout(request[r], late))
  IN  /\ request[r].pc = "leave"
      /\ request' = [request EXCEPT
           ![r] = [q EXCEPT !.pc = "done", !.written = Nothing,
                         !.seen = Reply(q, mute), !.mute = mute]]
      /\ UNCHANGED <<verified, banned>>

Handle(r) ==
  \/ Authorize(r) \/ DecodeVerify(r) \/ VerifyUsers(r)
  \/ HealthCheck(r) \/ Echo(r) \/ Library(r)

Next ==
  \E r \in Requests :
    \/ \E k \in Kinds[r] : Arrive(r, k)
    \/ Handle(r)
    \/ \E late, mute \in BOOLEAN : Leave(r, late, mute)

Spec == Init /\ [][Next]_vars
-----------------------------------------------------------------------------
Bodies == {NoBody} \cup [status : {"ok"}, error : {"none"}]
                   \cup [status : {"error"}, error : {"bad_request", "unauthorized",
                                  "internal_server_error", "status_error"}]

AnswerType == [code : {0, 200, 400, 401, 404, 405, 500, 504}, body : Bodies]

RequestType ==
  [pc : {"none", "auth", "handler", "store", "leave", "done"},
   kind : AllKinds \cup {NoKind}, written : AnswerType, seen : AnswerType,
   panic : BOOLEAN, stored : BOOLEAN, mute : BOOLEAN]

(* Every variable has its type.                                            *)
TypeOK ==
  /\ request \in [Requests -> RequestType]
  /\ verified \subseteq Users
  /\ banned \in [Users -> T!BanStates]

(* What an answer says of a request to verify users is so, however late it *)
(* is, whatever panicked and whatever the connection did: 200 means that   *)
(* the users are verified and free of bans, any answer but 200 and 500     *)
(* that nothing was stored.  The exception is a request that asks for an   *)
(* upgrade of its connection (see PanicIsAnError).                         *)
AnswerTellsOutcome ==
  \A r \in Requests :
    LET q == request[r]
    IN  q.pc = "done" /\ q.kind.route = "verify" =>
          /\ q.seen.code = 200 /\ ~q.kind.upgrade =>
               /\ q.stored /\ q.seen.body.status = "ok"
               /\ \A u \in q.kind.ids : u \in verified /\ banned[u] = "none"
          /\ q.seen.code \in {400, 401, 404, 405, 504} => ~q.stored

(* "recovers from panics and returns an error response" (server.go:244).   *)
PanicIsAnError ==
  \A r \in Requests : request[r].panic => request[r].seen.code # 200

(* Only a request with the secret verifies anybody, and only the users it  *)
(* names.                                                                  *)
OnlyAuthorisedVerify ==
  [][\A u \in verified' \ verified :
       \E r \in Requests : /\ request'[r].stored /\ ~request[r].stored
                           /\ request[r].kind.auth = "right"
                           /\ u \in request[r].kind.ids]_vars
=============================================================================
