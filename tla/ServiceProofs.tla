--------------------------- MODULE ServiceProofs ---------------------------
(***************************************************************************)
(* Proofs about Service and the Lifecycle and AdminAPI it is composed of:  *)
(* how the process ends, and what its answers are worth.                   *)
(***************************************************************************)
EXTENDS Service, TLAPS

-----------------------------------------------------------------------------
(* Lifecycle.                                                              *)

(* The types hold at the start, and every step keeps them.                 *)
LEMMA TypeInit == Init => TypeOK
BY LifecycleAssumption DEF LifecycleAssumption, Init, TypeOK

LEMMA TypeStep == TypeOK /\ [Next]_vars => TypeOK'
<1> SUFFICES ASSUME TypeOK, [Next]_vars PROVE TypeOK'
  OBVIOUS
<1> USE DEF TypeOK, Workers, Running, End, May, Goto, Receive
<1>1. CASE Main
  BY <1>1 DEF Main, InitStorage, InitTelegram, UpsertUser, InitServer, Notify, Wait,
     CloseMetrics, CloseSignals, Exit
<1>2. CASE Http
  BY <1>2 DEF Http, ShutdownServer, ServerIsDown, ShutdownTimeout
<1>3. CASE Bot
  BY <1>3 DEF Bot, StopBot, BotIsStopped, StopTimeout
<1>4. CASE Serve
  BY <1>4 DEF Serve, ListenAndServe, ServerFails
<1>5. CASE StopPolling
  BY <1>5 DEF StopPolling
<1>6. CASE Signal
  BY <1>6, LifecycleAssumption DEF LifecycleAssumption, Signal
<1>7. CASE HandleUpdate \/ Handled
  BY <1>7, LifecycleAssumption DEF LifecycleAssumption, HandleUpdate, Handled
<1>8. CASE LateEvent
  BY <1>8 DEF LateEvent
<1>9. ASSUME NEW r \in Requests, Request(r) \/ Respond(r) PROVE TypeOK'
  BY <1>9 DEF Request, Respond
<1>10. CASE UNCHANGED vars
  BY <1>10 DEF vars
<1> QED
  BY <1>1, <1>2, <1>3, <1>4, <1>5, <1>6, <1>7, <1>8, <1>9, <1>10 DEF Next, Process

(* Every variable of every reachable state of the process has its type.    *)
THEOREM TypeCorrect == Spec => []TypeOK
BY TypeInit, TypeStep, PTL DEF Spec

(* Every step keeps ExitInv: the listener is closed for good before the    *)
(* requests are waited for, and main goes on only when both goroutines are *)
(* through.                                                                *)
LEMMA ExitStep == TypeOK /\ ExitInv /\ [Next]_vars => ExitInv'
<1> SUFFICES ASSUME TypeOK, ExitInv, [Next]_vars PROVE ExitInv'
  OBVIOUS
<1> USE DEF TypeOK, ExitInv, Workers, Running, End, May, Goto, Receive
<1>1. CASE Main
  <2>1. CASE InitStorage \/ InitTelegram \/ UpsertUser \/ InitServer
    BY <2>1 DEF InitStorage, InitTelegram, UpsertUser, InitServer
  <2>2. CASE Notify \/ Wait
    BY <2>2 DEF Notify, Wait
  <2>3. CASE CloseMetrics \/ CloseSignals \/ Exit
    BY <2>3 DEF CloseMetrics, CloseSignals, Exit
  <2> QED BY <1>1, <2>1, <2>2, <2>3 DEF Main
<1>2. CASE Http
  BY <1>2 DEF Http, ShutdownServer, ServerIsDown, ShutdownTimeout
<1>3. CASE Bot
  BY <1>3 DEF Bot, StopBot, BotIsStopped, StopTimeout
<1>4. CASE Serve
  BY <1>4 DEF Serve, ListenAndServe, ServerFails
<1>5. CASE StopPolling
  BY <1>5 DEF StopPolling
<1>6. CASE Signal
  BY <1>6 DEF Signal
<1>7. CASE HandleUpdate \/ Handled
  BY <1>7 DEF HandleUpdate, Handled
<1>8. CASE LateEvent
  BY <1>8 DEF LateEvent
<1>9. ASSUME NEW r \in Requests, Request(r) \/ Respond(r) PROVE ExitInv'
  BY <1>9 DEF Request, Respond
<1>10. CASE UNCHANGED vars
  BY <1>10 DEF vars
<1> QED
  BY <1>1, <1>2, <1>3, <1>4, <1>5, <1>6, <1>7, <1>8, <1>9, <1>10 DEF Next, Process

(* A process that ends well has closed its listener, finished its requests *)
(* and stopped polling, but for what ten seconds were not enough for.      *)
THEOREM ExitIsGraceful == Spec => []GracefulExit
<1>1. Init => ExitInv
  BY DEF Init, ExitInv
<1>2. TypeOK /\ ExitInv => GracefulExit
  BY DEF TypeOK, ExitInv, GracefulExit
<1> QED
  BY <1>1, <1>2, ExitStep, TypeCorrect, PTL DEF Spec

-----------------------------------------------------------------------------
(* The composition keeps what Lifecycle promises: its steps are steps of   *)
(* Lifecycle, and the handlers' steps leave the process alone.             *)
THEOREM ServiceImplementsLifecycle == ServiceSpec => Spec
<1>1. ServiceInit => Init
  BY DEF ServiceInit
<1>2. [ServiceNext]_serviceVars => [Next]_vars
  BY DEF ServiceNext, serviceVars, Accept, Answer, HandleRequest, Next
<1> QED
  BY <1>1, <1>2, PTL DEF ServiceSpec, Spec

(* So a service that ends well ends gracefully, whatever its clients send  *)
(* and however its handlers fail.                                          *)
THEOREM ServiceExitIsGraceful == ServiceSpec => []GracefulExit
BY ServiceImplementsLifecycle, ExitIsGraceful, PTL

-----------------------------------------------------------------------------
(* The answers of the API, one by one.                                     *)
LEMMA OkAnswer ==
  /\ API!Ok(API!NewResponse) = [code |-> 200, body |-> API!Response("ok", "none")]
  /\ API!Ok(API!SetData) = [code |-> 200, body |-> API!Response("ok", "none")]
BY DEF API!Ok, API!SetData, API!NewResponse, API!Response

LEMMA FailureAnswer ==
  ASSUME NEW code, NEW error, error # "none"
  PROVE  API!Failure(code, API!SetError(error)) =
           [code |-> code, body |-> API!Response("error", error)]
BY DEF API!Failure, API!SetError, API!Response

LEMMA AnswerTypes ==
  /\ API!Nothing \in API!AnswerType
  /\ API!Ok(API!NewResponse) \in API!AnswerType
  /\ API!Ok(API!SetData) \in API!AnswerType
  /\ \A code \in {200, 404, 405, 504} : API!Plain(code) \in API!AnswerType
  /\ \A code \in {400, 401, 500} :
       \A error \in {"bad_request", "unauthorized", "internal_server_error", "status_error"} :
         API!Failure(code, API!SetError(error)) \in API!AnswerType
BY OkAnswer, FailureAnswer
   DEF API!AnswerType, API!Bodies, API!Nothing, API!Plain, API!NoBody, API!Response

(* What holds of a request q all along: what it has stored is in the       *)
(* tables, nothing is written before a handler is done, no handler of the  *)
(* administration runs without the secret, and what is written, and then   *)
(* seen, tells what was stored.                                            *)
Tells(q, answer) ==
  /\ answer.code = 200 => q.stored /\ answer.body.status = "ok"
  /\ answer.code \in {400, 401, 404, 405, 504} => ~q.stored

(* Only a handler without a transaction panics after it has answered.      *)
Unwritten(q) ==
  \/ q.written = API!Nothing
  \/ q.kind.route # "verify" /\ q.written.code \notin {0, 504}

Told(q, yes, bans) ==
  /\ q.stored => \A u \in q.kind.ids : u \in yes /\ bans[u] = "none"
  /\ q.pc \in {"none", "auth", "handler", "store"} =>
       q.written = API!Nothing /\ ~q.panic /\ ~q.stored
  /\ q.pc # "none" => q.kind \in API!AllKinds
  /\ q.pc = "store" => q.kind.route = "verify"
  /\ q.pc \in {"handler", "store"} /\ q.kind.route \in API!Admin => q.kind.auth = "right"
  /\ q.pc = "leave" /\ q.panic => ~q.stored /\ Unwritten(q)
  /\ q.pc = "leave" /\ ~q.panic => q.written.code \notin {0, 504}
  /\ q.pc = "leave" /\ q.kind.route = "verify" => Tells(q, q.written)
  /\ q.pc = "done" /\ q.kind.route = "verify" =>
       (q.kind.upgrade /\ ~q.stored) \/ Tells(q, q.seen)
  /\ q.pc = "done" /\ ~q.mute => q.seen.code # 0

AnswerInv == \A r \in Requests : Told(request[r], verified, banned)

(* A step of one request that takes nothing from the tables keeps the      *)
(* others.                                                                 *)
LEMMA OneRequest ==
  ASSUME API!TypeOK, AnswerInv,
         NEW r \in Requests, NEW q \in API!RequestType,
         request' = [request EXCEPT ![r] = q],
         verified \subseteq verified', verified' \subseteq Users,
         banned' \in [Users -> API!T!BanStates],
         \A u \in Users : banned[u] = "none" => banned'[u] = "none",
         Told(q, verified', banned')
  PROVE  API!TypeOK' /\ AnswerInv'
<1>1. API!TypeOK'
  BY DEF API!TypeOK
<1>2. ASSUME NEW s \in Requests PROVE Told(request'[s], verified', banned')
  <2>1. CASE s = r
    BY <2>1 DEF API!TypeOK
  <2>2. CASE s # r
    <3>1. request'[s] = request[s] /\ Told(request[s], verified, banned)
      BY <2>2 DEF API!TypeOK, AnswerInv
    <3>2. request[s].stored => request[s].kind \in API!AllKinds
      BY <3>1 DEF Told, API!TypeOK, API!RequestType
    <3>3. request[s].stored => request[s].kind.ids \subseteq Users
      BY <3>2 DEF API!AllKinds
    <3> QED BY <3>1, <3>3 DEF Told, Tells
  <2> QED BY <2>1, <2>2
<1> QED BY <1>1, <1>2 DEF AnswerInv

(* Most steps leave the tables as they are.                                *)
LEMMA NoRows ==
  ASSUME API!TypeOK, AnswerInv,
         NEW r \in Requests, NEW q \in API!RequestType,
         request' = [request EXCEPT ![r] = q],
         UNCHANGED <<verified, banned>>,
         Told(q, verified', banned')
  PROVE  API!TypeOK' /\ AnswerInv'
BY OneRequest DEF API!TypeOK

(* What is written to a request nothing has been written to stands.        *)
LEMMA Written ==
  ASSUME NEW q \in API!RequestType, NEW answer \in API!AnswerType,
         q.written = API!Nothing
  PROVE  LET w == API!Write(q, answer)
         IN  /\ w \in API!RequestType
             /\ w.pc = "leave" /\ w.written = answer
             /\ w.kind = q.kind /\ w.stored = q.stored /\ w.panic = q.panic
BY DEF API!Write, API!RequestType

(* The handlers answer what they have done.                                *)
IsPlain(r, answer) ==
  /\ request[r].pc \in {"auth", "handler", "store"}
  /\ answer.code \notin {0, 504}
  /\ request[r].kind.route = "verify" => answer.code \in {400, 401, 500}

LEMMA PlainAnswers ==
  ASSUME API!TypeOK, AnswerInv, NEW r \in Requests, NEW answer \in API!AnswerType,
         IsPlain(r, answer), API!Answers(r, answer), UNCHANGED <<verified, banned>>
  PROVE  API!TypeOK' /\ AnswerInv'
<1> DEFINE q == request[r]
           w == API!Write(q, answer)
<1>1. q \in API!RequestType /\ Told(q, verified, banned)
  BY DEF API!TypeOK, AnswerInv
<1>2. q.written = API!Nothing /\ ~q.panic /\ ~q.stored /\ q.kind \in API!AllKinds
  BY <1>1 DEF IsPlain, Told
<1>3. /\ w \in API!RequestType
      /\ w.pc = "leave" /\ w.written = answer
      /\ w.kind = q.kind /\ w.stored = q.stored /\ w.panic = q.panic
  BY <1>1, <1>2, Written
<1>4. Told(w, verified', banned')
  BY <1>2, <1>3 DEF IsPlain, Told, Tells
<1>5. request' = [request EXCEPT ![r] = w]
  BY DEF API!Answers
<1>6. w \in API!RequestType
  BY <1>3
<1> QED BY <1>4, <1>5, <1>6, NoRows

(* A request on its way in moves on.                                       *)
LEMMA MovesOn ==
  ASSUME API!TypeOK, AnswerInv, NEW r \in Requests, NEW pc \in {"handler", "store"},
         request[r].pc \in {"auth", "handler"},
         pc = "store" => request[r].kind.route = "verify",
         request[r].pc = "auth" => request[r].kind.auth = "right",
         request' = [request EXCEPT ![r].pc = pc],
         UNCHANGED <<verified, banned>>
  PROVE  API!TypeOK' /\ AnswerInv'
<1> DEFINE q == request[r]
           w == [q EXCEPT !.pc = pc]
<1>1. q \in API!RequestType /\ Told(q, verified, banned)
  BY DEF API!TypeOK, AnswerInv
<1>2. /\ w \in API!RequestType
      /\ w.pc = pc /\ w.written = q.written
      /\ w.kind = q.kind /\ w.stored = q.stored /\ w.panic = q.panic
  BY <1>1 DEF API!RequestType
<1>3. Told(w, verified', banned')
  BY <1>1, <1>2 DEF Told, Tells
<1>4. request' = [request EXCEPT ![r] = w]
  OBVIOUS
<1> QED BY <1>2, <1>3, <1>4, NoRows

LEMMA PanicStep ==
  ASSUME API!TypeOK, AnswerInv, NEW r \in Requests,
         request[r].pc \in {"handler", "store"}, API!Panics(r),
         UNCHANGED <<verified, banned>>
  PROVE  API!TypeOK' /\ AnswerInv'
<1> DEFINE q == request[r]
           w == [q EXCEPT !.pc = "leave", !.panic = TRUE]
<1>1. q \in API!RequestType /\ Told(q, verified, banned)
  BY DEF API!TypeOK, AnswerInv
<1>2. /\ w \in API!RequestType
      /\ w.pc = "leave" /\ w.written = q.written
      /\ w.kind = q.kind /\ w.stored = q.stored /\ w.panic
  BY <1>1 DEF API!RequestType
<1>3. Told(w, verified', banned')
  BY <1>1, <1>2 DEF Told, Tells, Unwritten, API!Nothing, API!Plain
<1>4. request' = [request EXCEPT ![r] = w]
  BY DEF API!Panics
<1> QED BY <1>2, <1>3, <1>4, NoRows

LEMMA PanicType ==
  ASSUME NEW q \in API!RequestType
  PROVE  LET w == [q EXCEPT !.panic = TRUE]
         IN  /\ w \in API!RequestType /\ w.panic
             /\ w.pc = q.pc /\ w.written = q.written /\ w.kind = q.kind /\ w.stored = q.stored
BY DEF API!RequestType

(* The health check may panic when it has answered.                        *)
LEMMA LatePanicStep ==
  ASSUME API!TypeOK, AnswerInv, NEW r \in Requests, NEW answer \in API!AnswerType,
         request[r].pc = "handler", request[r].kind.route # "verify",
         answer.code \notin {0, 504},
         request' = [request EXCEPT ![r] = [API!Write(@, answer) EXCEPT !.panic = TRUE]],
         UNCHANGED <<verified, banned>>
  PROVE  API!TypeOK' /\ AnswerInv'
<1> DEFINE q == request[r]
           a == API!Write(q, answer)
           w == [a EXCEPT !.panic = TRUE]
<1>1. q \in API!RequestType /\ Told(q, verified, banned)
  BY DEF API!TypeOK, AnswerInv
<1>2. q.written = API!Nothing /\ ~q.stored /\ q.kind \in API!AllKinds
  BY <1>1 DEF Told
<1>3. /\ a \in API!RequestType
      /\ a.pc = "leave" /\ a.written = answer /\ a.kind = q.kind /\ a.stored = q.stored
  BY <1>1, <1>2, Written
<1>4. request' = [request EXCEPT ![r] = w]
  OBVIOUS
<1> HIDE DEF a, q
<1>5. /\ w \in API!RequestType
      /\ w.pc = "leave" /\ w.written = answer
      /\ w.kind = q.kind /\ ~w.stored /\ w.panic
  <2>1. /\ w \in API!RequestType /\ w.panic
        /\ w.pc = a.pc /\ w.written = a.written /\ w.kind = a.kind /\ w.stored = a.stored
    BY <1>3, PanicType
  <2> HIDE DEF w
  <2> QED BY <1>2, <1>3, <2>1
<1>6. q.kind.route # "verify"
  BY DEF q
<1>7. Told(w, verified', banned')
  BY <1>2, <1>5, <1>6 DEF Told, Tells, Unwritten
<1> QED BY <1>4, <1>5, <1>7, NoRows

LEMMA StoredType ==
  ASSUME NEW q \in API!RequestType
  PROVE  LET w == [q EXCEPT !.stored = TRUE]
         IN  /\ w \in API!RequestType /\ w.stored
             /\ w.pc = q.pc /\ w.written = q.written /\ w.kind = q.kind /\ w.panic = q.panic
BY DEF API!RequestType

(* What VerifyUsers stores is in the tables when it answers.               *)
LEMMA StoreStep ==
  ASSUME API!TypeOK, AnswerInv, NEW r \in Requests, NEW answer \in API!AnswerType,
         request[r].pc = "store", API!StoredThen(r, answer),
         answer.code \in {200, 500}, answer.code = 200 => answer.body.status = "ok"
  PROVE  API!TypeOK' /\ AnswerInv'
<1> DEFINE q == request[r]
           a == API!Write(q, answer)
           w == [a EXCEPT !.stored = TRUE]
<1>1. q \in API!RequestType /\ Told(q, verified, banned)
  BY DEF API!TypeOK, AnswerInv
<1>2. q.written = API!Nothing /\ ~q.panic /\ q.kind \in API!AllKinds
  BY <1>1 DEF Told
<1>3. /\ a \in API!RequestType
      /\ a.pc = "leave" /\ a.written = answer /\ a.kind = q.kind /\ a.panic = q.panic
  BY <1>1, <1>2, Written
<1>4. /\ w \in API!RequestType
      /\ w.pc = "leave" /\ w.written = answer
      /\ w.kind = q.kind /\ w.stored /\ ~w.panic
  <2> HIDE DEF a, q
  <2>1. /\ w \in API!RequestType /\ w.stored
        /\ w.pc = a.pc /\ w.written = a.written /\ w.kind = a.kind /\ w.panic = a.panic
    BY <1>3, StoredType
  <2> HIDE DEF w
  <2> QED BY <1>2, <1>3, <2>1
<1>5. q.kind.ids \subseteq Users
  BY <1>2 DEF API!AllKinds
<1>6. /\ verified' = verified \cup q.kind.ids
      /\ banned' = [u \in Users |-> IF u \in q.kind.ids THEN "none" ELSE banned[u]]
      /\ request' = [request EXCEPT ![r] = w]
  BY DEF API!StoredThen, API!T!Verify
<1>7. Told(w, verified', banned')
  BY <1>2, <1>4, <1>5, <1>6 DEF Told, Tells
<1>8. verified \subseteq verified' /\ verified' \subseteq Users
  BY <1>5, <1>6 DEF API!TypeOK
<1>9. /\ banned' \in [Users -> API!T!BanStates]
      /\ \A u \in Users : banned[u] = "none" => banned'[u] = "none"
  BY <1>6 DEF API!TypeOK, API!T!BanStates
<1> QED BY <1>4, <1>6, <1>7, <1>8, <1>9, OneRequest

LEMMA WriteType ==
  ASSUME NEW q \in API!RequestType, NEW answer \in API!AnswerType
  PROVE  LET w == API!Write(q, answer)
         IN  w \in API!RequestType /\ w.kind = q.kind /\ w.stored = q.stored /\ w.panic = q.panic
BY DEF API!Write, API!RequestType

Done(q, seen, mute) ==
  [q EXCEPT !.pc = "done", !.written = API!Nothing, !.seen = seen, !.mute = mute]

LEMMA DoneType ==
  ASSUME NEW q \in API!RequestType, NEW seen \in API!AnswerType, NEW mute \in BOOLEAN
  PROVE  LET w == Done(q, seen, mute)
         IN  /\ w \in API!RequestType
             /\ w.pc = "done" /\ w.kind = q.kind /\ w.stored = q.stored
             /\ w.seen = seen /\ w.mute = mute
<1>1. API!Nothing \in API!AnswerType
  BY AnswerTypes
<1> QED BY <1>1 DEF Done, API!RequestType

(* A handler that has not panicked has its answer sent as it is; one that  *)
(* has sends an answer, of 500 or 504 if it was to verify users, unless the*)
(* connection was to be upgraded.                                          *)
LEMMA WayOut ==
  ASSUME NEW q \in API!RequestType, NEW late \in BOOLEAN,
         q.pc = "leave", Told(q, verified, banned)
  PROVE  LET w == API!Recovered(API!PastTimeout(q, late))
         IN  /\ w \in API!RequestType
             /\ w.kind = q.kind /\ w.stored = q.stored
             /\ ~q.panic => w.written = q.written
             /\ q.panic /\ ~q.kind.upgrade => w.written.code # 0
             /\ q.panic /\ ~q.kind.upgrade /\ q.kind.route = "verify" =>
                  w.written.code \in {500, 504}
<1> DEFINE a == API!PastTimeout(q, late)
           w == API!Recovered(a)
           failed == API!Failure(500, API!SetError("internal_server_error"))
           b == API!Write(a, failed)
<1>1. a \in API!RequestType /\ a.kind = q.kind /\ a.stored = q.stored /\ a.panic = q.panic
  <2>1. API!Plain(504) \in API!AnswerType
    BY AnswerTypes
  <2> QED BY <2>1, WriteType DEF API!PastTimeout
<1>2. ~q.panic => a = q
  <2>1. ~q.panic => q.written # API!Nothing /\ q.pc = "leave"
    BY DEF Told, API!Nothing, API!Plain
  <2>2. q.written # API!Nothing => API!Write(q, API!Plain(504)) = q
    BY DEF API!Write, API!RequestType
  <2> QED BY <2>1, <2>2 DEF API!PastTimeout
<1>3. q.panic =>
        \/ a.written \in {API!Nothing, API!Plain(504)}
        \/ q.kind.route # "verify" /\ a.written = q.written /\ a.written.code \notin {0, 504}
  BY DEF Told, Unwritten, API!PastTimeout, API!Write, API!RequestType
<1>4. failed = [code |-> 500, body |-> API!Response("error", "internal_server_error")]
  BY FailureAnswer
<1>5. failed \in API!AnswerType
  BY AnswerTypes
<1>6. /\ b \in API!RequestType /\ b.kind = a.kind /\ b.stored = a.stored
      /\ a.written = API!Nothing => b.written = failed
      /\ a.written # API!Nothing => b.written = a.written
  <2> HIDE DEF a, failed
  <2>1. b \in API!RequestType /\ b.kind = a.kind /\ b.stored = a.stored
    BY <1>1, <1>5, WriteType
  <2>2. b.written = IF a.written = API!Nothing THEN failed ELSE a.written
    BY <1>1 DEF API!Write, API!RequestType
  <2> QED BY <2>1, <2>2
<1> DEFINE c == [b EXCEPT !.written.body = IF @ = API!NoBody THEN failed.body ELSE @]
<1>7. /\ c.kind = b.kind /\ c.stored = b.stored
      /\ c.written.code = b.written.code
  BY <1>6 DEF API!RequestType, API!AnswerType
<1>8. failed.body \in API!Bodies
  BY <1>5 DEF API!AnswerType
<1>9. c \in API!RequestType
  BY <1>6, <1>8 DEF API!RequestType, API!AnswerType
<1>10. /\ q.panic => c.written.code # 0
       /\ q.panic /\ q.kind.route = "verify" => c.written.code \in {500, 504}
  BY <1>3, <1>4, <1>6, <1>7 DEF API!Plain, API!Nothing
<1>11. w = IF ~a.panic \/ a.kind.upgrade THEN a ELSE c
  BY DEF API!Recovered
<1> QED
  BY <1>1, <1>2, <1>6, <1>7, <1>9, <1>10, <1>11

LEMMA LeaveStep ==
  ASSUME API!TypeOK, AnswerInv, NEW r \in Requests,
         NEW late \in BOOLEAN, NEW mute \in BOOLEAN, API!Leave(r, late, mute)
  PROVE  API!TypeOK' /\ AnswerInv'
<1> DEFINE q == request[r]
           a == API!Recovered(API!PastTimeout(q, late))
           w == Done(a, API!Reply(a, mute), mute)
<1>1. q \in API!RequestType /\ q.pc = "leave" /\ Told(q, verified, banned)
  BY DEF API!TypeOK, AnswerInv, API!Leave
<1>2. /\ a \in API!RequestType /\ a.kind = q.kind /\ a.stored = q.stored
      /\ ~q.panic => a.written = q.written
      /\ q.panic /\ ~q.kind.upgrade => a.written.code # 0
      /\ q.panic /\ ~q.kind.upgrade /\ q.kind.route = "verify" =>
           a.written.code \in {500, 504}
  BY <1>1, WayOut
<1> HIDE DEF a
<1>3. API!Reply(a, mute) \in API!AnswerType
  <2>1. a.written \in API!AnswerType
    BY <1>2 DEF API!RequestType
  <2> QED BY <2>1, AnswerTypes DEF API!Reply
<1>4. /\ w \in API!RequestType
      /\ w.pc = "done" /\ w.kind = q.kind /\ w.stored = q.stored
      /\ w.seen = API!Reply(a, mute) /\ w.mute = mute
  BY <1>2, <1>3, DoneType
<1>5. /\ mute => w.seen.code = 0
      /\ ~mute => w.seen.code # 0
      /\ ~mute /\ a.written.code # 0 => w.seen = a.written
  BY <1>2, <1>4 DEF API!Reply, API!Nothing, API!Plain
<1>6. q.kind \in API!AllKinds
  BY <1>1 DEF Told
<1>7. UNCHANGED <<verified, banned>>
  BY DEF API!Leave
<1>8. q.kind.route = "verify" => (q.kind.upgrade /\ ~w.stored) \/ Tells(w, w.seen)
  <2>1. CASE q.panic
    BY <1>1, <1>2, <1>4, <1>5, <2>1 DEF Told, Tells
  <2>2. CASE ~q.panic
    BY <1>1, <1>2, <1>4, <1>5, <2>2 DEF Told, Tells
  <2> QED BY <2>1, <2>2
<1>9. Told(w, verified', banned')
  BY <1>1, <1>4, <1>5, <1>6, <1>7, <1>8 DEF Told
<1>10. request' = [request EXCEPT ![r] = w]
  BY DEF API!Leave, Done, a
<1> QED BY <1>4, <1>7, <1>9, <1>10, OneRequest DEF API!TypeOK

LEMMA ArriveStep ==
  ASSUME API!TypeOK, AnswerInv, NEW r \in Requests, NEW k \in API!AllKinds, API!Arrive(r, k)
  PROVE  API!TypeOK' /\ AnswerInv'
<1> DEFINE q == request[r]
           pc == IF k.route \in API!Admin THEN "auth" ELSE "handler"
           w == [q EXCEPT !.pc = pc, !.kind = k]
<1>1. q \in API!RequestType /\ q.pc = "none" /\ Told(q, verified, banned)
  BY DEF API!TypeOK, AnswerInv, API!Arrive
<1>2. pc \in {"auth", "handler"}
  OBVIOUS
<1> HIDE DEF pc
<1>3. /\ w \in API!RequestType
      /\ w.pc = pc /\ w.kind = k /\ w.written = q.written
      /\ w.stored = q.stored /\ w.panic = q.panic
  BY <1>1, <1>2 DEF API!RequestType
<1>4. UNCHANGED <<verified, banned>>
  BY DEF API!Arrive
<1>5. Told(w, verified', banned')
  BY <1>1, <1>2, <1>3, <1>4 DEF Told, pc
<1>6. request' = [request EXCEPT ![r] = w]
  BY DEF API!Arrive, pc
<1> QED BY <1>3, <1>4, <1>5, <1>6, OneRequest DEF API!TypeOK

LEMMA HandleStep ==
  ASSUME API!TypeOK, AnswerInv, NEW r \in Requests, API!Handle(r)
  PROVE  API!TypeOK' /\ AnswerInv'
<1> DEFINE refused(code, error) == API!Failure(code, API!SetError(error))
<1>1. ASSUME NEW code \in {400, 401, 500},
             NEW error \in {"bad_request", "unauthorized", "internal_server_error", "status_error"}
      PROVE  refused(code, error) \in API!AnswerType /\ refused(code, error).code = code
  BY AnswerTypes, FailureAnswer
<1>2. /\ API!Ok(API!NewResponse) \in API!AnswerType
      /\ API!Ok(API!NewResponse).code = 200 /\ API!Ok(API!NewResponse).body.status = "ok"
      /\ API!Ok(API!SetData) \in API!AnswerType /\ API!Ok(API!SetData).code = 200
  BY AnswerTypes, OkAnswer DEF API!Response
<1>3. ASSUME NEW code \in {200, 404, 405, 504}
      PROVE  API!Plain(code) \in API!AnswerType /\ API!Plain(code).code = code
  BY AnswerTypes DEF API!Plain
<1> HIDE DEF refused
<1>4. CASE API!Authorize(r)
  <2>1. CASE request[r].kind.auth = "right"
    BY <1>4, <2>1, MovesOn DEF API!Authorize
  <2>2. CASE request[r].kind.auth # "right"
    <3>1. API!Answers(r, refused(401, "unauthorized"))
      BY <1>4, <2>2 DEF API!Authorize, refused
    <3> QED BY <1>1, <1>4, <3>1, PlainAnswers DEF IsPlain, API!Authorize
  <2> QED BY <2>1, <2>2
<1>5. CASE API!DecodeVerify(r)
  <2>1. CASE request' = [request EXCEPT ![r].pc = "store"]
    BY <1>5, <2>1, MovesOn DEF API!DecodeVerify
  <2>2. CASE API!Answers(r, refused(400, "bad_request"))
    BY <1>1, <1>5, <2>2, PlainAnswers DEF IsPlain, API!DecodeVerify
  <2> QED BY <1>5, <2>1, <2>2 DEF API!DecodeVerify, refused
<1>6. CASE API!VerifyUsers(r)
  <2>1. CASE API!StoredThen(r, API!Ok(API!NewResponse))
    BY <1>2, <1>6, <2>1, StoreStep DEF API!VerifyUsers
  <2>2. CASE API!StoredThen(r, refused(500, "internal_server_error"))
    BY <1>1, <1>6, <2>2, StoreStep DEF API!VerifyUsers
  <2>3. CASE API!Answers(r, refused(500, "internal_server_error")) /\ UNCHANGED <<verified, banned>>
    BY <1>1, <1>6, <2>3, PlainAnswers DEF IsPlain, API!VerifyUsers
  <2>4. CASE API!Panics(r) /\ UNCHANGED <<verified, banned>>
    BY <1>6, <2>4, PanicStep DEF API!VerifyUsers
  <2> QED BY <1>6, <2>1, <2>2, <2>3, <2>4 DEF API!VerifyUsers, refused
<1>7. CASE API!HealthCheck(r)
  <2>1. CASE API!Answers(r, API!Ok(API!SetData))
    BY <1>2, <1>7, <2>1, PlainAnswers DEF IsPlain, API!HealthCheck
  <2>2. CASE API!Answers(r, refused(500, "status_error"))
    BY <1>1, <1>7, <2>2, PlainAnswers DEF IsPlain, API!HealthCheck
  <2>3. CASE API!Panics(r)
    BY <1>7, <2>3, PanicStep DEF API!HealthCheck
  <2>4. CASE \E answer \in {API!Ok(API!SetData), refused(500, "status_error")} :
               request' = [request EXCEPT ![r] = [API!Write(@, answer) EXCEPT !.panic = TRUE]]
    <3>1. PICK answer \in {API!Ok(API!SetData), refused(500, "status_error")} :
            request' = [request EXCEPT ![r] = [API!Write(@, answer) EXCEPT !.panic = TRUE]]
      BY <2>4
    <3>2. answer \in API!AnswerType /\ answer.code \notin {0, 504}
      BY <1>1, <1>2
    <3> QED BY <1>7, <3>1, <3>2, LatePanicStep DEF API!HealthCheck
  <2> QED BY <1>7, <2>1, <2>2, <2>3, <2>4 DEF API!HealthCheck, refused
<1>8. CASE API!Echo(r)
  <2>1. CASE API!Answers(r, refused(400, "bad_request"))
    BY <1>1, <1>8, <2>1, PlainAnswers DEF IsPlain, API!Echo
  <2>2. CASE API!Answers(r, API!Ok(API!SetData))
    BY <1>2, <1>8, <2>2, PlainAnswers DEF IsPlain, API!Echo
  <2> QED BY <1>8, <2>1, <2>2 DEF API!Echo, refused
<1>9. CASE API!Library(r)
  <2>1. PICK code \in {200, 404, 405} : API!Answers(r, API!Plain(code))
    BY <1>9 DEF API!Library
  <2>2. request[r].pc = "handler" /\ request[r].kind.route # "verify"
    BY <1>9 DEF API!Library
  <2>3. API!Plain(code) \in API!AnswerType /\ API!Plain(code).code = code
    BY <1>3
  <2> QED BY <1>9, <2>1, <2>2, <2>3, PlainAnswers DEF IsPlain, API!Library
<1> QED
  BY <1>4, <1>5, <1>6, <1>7, <1>8, <1>9 DEF API!Handle

LEMMA AnswerInit ==
  ASSUME ServiceInit PROVE API!TypeOK /\ AnswerInv
<1>1. API!Unsent \in API!RequestType
  BY AnswerTypes DEF API!Unsent, API!RequestType
<1>2. API!TypeOK
  BY <1>1 DEF ServiceInit, API!Init, API!T!Init, API!TypeOK
<1>3. Told(API!Unsent, verified, banned)
  BY DEF Told, API!Unsent
<1> QED BY <1>2, <1>3 DEF ServiceInit, API!Init, AnswerInv

LEMMA AnswerStep ==
  ASSUME API!TypeOK, AnswerInv, [ServiceNext]_serviceVars
  PROVE  API!TypeOK' /\ AnswerInv'
<1>1. CASE UNCHANGED apiVars
  BY <1>1 DEF apiVars, API!TypeOK, AnswerInv
<1>2. ASSUME NEW r \in Requests, NEW k \in Kinds[r], Accept(r, k) PROVE API!TypeOK' /\ AnswerInv'
  <2>1. k \in API!AllKinds
    BY ServiceAssumption DEF ServiceAssumption
  <2> QED BY <1>2, <2>1, ArriveStep DEF Accept
<1>3. ASSUME NEW r \in Requests, HandleRequest(r) PROVE API!TypeOK' /\ AnswerInv'
  BY <1>3, HandleStep DEF HandleRequest
<1>4. ASSUME NEW r \in Requests, Answer(r) PROVE API!TypeOK' /\ AnswerInv'
  BY <1>4, LeaveStep DEF Answer
<1> QED
  BY <1>1, <1>2, <1>3, <1>4 DEF ServiceNext, serviceVars

(* An answer tells the client of a request to verify users what has become *)
(* of it.                                                                  *)
THEOREM AnswersAreTrue == ServiceSpec => []AnswerTellsOutcome
<1>1. AnswerInv => AnswerTellsOutcome
  BY DEF AnswerInv, Told, Tells, AnswerTellsOutcome, API!AnswerTellsOutcome
<1> QED
  BY <1>1, AnswerInit, AnswerStep, PTL DEF ServiceSpec

(* Only the transaction of a request that named them adds users to the     *)
(* table, and it was let through for its secret.                           *)
THEOREM OnlyTheSecretVerifies == ServiceSpec => OnlyAuthorisedVerify
<1> DEFINE Adds == \A u \in verified' \ verified :
                     \E r \in Requests : /\ request'[r].stored /\ ~request[r].stored
                                         /\ request[r].kind.auth = "right"
                                         /\ u \in request[r].kind.ids
<1>1. ASSUME API!TypeOK, AnswerInv, [ServiceNext]_serviceVars
      PROVE  Adds \/ UNCHANGED API!vars
  <2>1. CASE verified' = verified
    BY <2>1
  <2>2. CASE verified' # verified
    <3>1. PICK r \in Requests : API!VerifyUsers(r)
      <4>1. ~UNCHANGED serviceVars /\ ~UNCHANGED apiVars
        BY <2>2 DEF serviceVars, apiVars
      <4>2. ASSUME NEW r \in Requests
            PROVE  ~Answer(r) /\ \A k \in Kinds[r] : ~Accept(r, k)
        <5>1. ASSUME NEW late, NEW mute, API!Leave(r, late, mute) PROVE FALSE
          BY <2>2, <5>1 DEF API!Leave
        <5>2. ASSUME NEW k, API!Arrive(r, k) PROVE FALSE
          BY <2>2, <5>2 DEF API!Arrive
        <5> QED BY <5>1, <5>2 DEF Answer, Accept
      <4>3. PICK r \in Requests : API!Handle(r)
        BY <1>1, <4>1, <4>2 DEF ServiceNext, HandleRequest
      <4> QED BY <2>2, <4>3 DEF API!Handle, API!Authorize, API!DecodeVerify,
              API!HealthCheck, API!Echo, API!Library
    <3>2. PICK answer : API!StoredThen(r, answer)
      BY <2>2, <3>1 DEF API!VerifyUsers
    <3>3. verified' = verified \cup request[r].kind.ids
      BY <3>2 DEF API!StoredThen, API!T!Verify
    <3>4. request'[r].stored
      BY <1>1, <3>2 DEF API!StoredThen, API!Write, API!TypeOK, API!RequestType
    <3>5. request[r].pc = "store" /\ Told(request[r], verified, banned)
      BY <1>1, <3>1 DEF API!VerifyUsers, AnswerInv
    <3>6. ~request[r].stored /\ request[r].kind.auth = "right"
      BY <3>5 DEF Told, API!Admin
    <3> QED BY <3>3, <3>4, <3>6
  <2> QED BY <2>1, <2>2
<1>2. API!TypeOK /\ AnswerInv /\ [ServiceNext]_serviceVars => [Adds]_(API!vars)
  BY <1>1
<1> QED
  BY <1>2, AnswerInit, AnswerStep, PTL DEF ServiceSpec, OnlyAuthorisedVerify, API!OnlyAuthorisedVerify

-----------------------------------------------------------------------------
(* The server counts the requests the API has under way.                   *)
Counted == requests = {r \in Requests : API!Serving(r)}

LEMMA CountStep ==
  ASSUME API!TypeOK, AnswerInv, Counted, [ServiceNext]_serviceVars PROVE Counted'
<1> USE DEF Counted, API!Serving
<1>1. CASE UNCHANGED serviceVars
  BY <1>1 DEF serviceVars, vars, apiVars
<1>2. CASE Process /\ UNCHANGED apiVars
  <2>1. UNCHANGED requests
    BY <1>2 DEF Process, Workers, Main, InitStorage, InitTelegram, UpsertUser, InitServer,
       Notify, Wait, CloseMetrics, CloseSignals, Exit, Http, ShutdownServer, ServerIsDown,
       ShutdownTimeout, Bot, StopBot, BotIsStopped, StopTimeout, Serve, ListenAndServe,
       ServerFails, StopPolling, Signal, HandleUpdate, Handled, LateEvent
  <2> QED BY <1>2, <2>1 DEF apiVars
<1>3. ASSUME NEW r \in Requests, NEW k \in Kinds[r], Accept(r, k) PROVE Counted'
  <2>1. /\ request[r].pc = "none" /\ request'[r].pc \in {"auth", "handler"}
        /\ \A s \in Requests \ {r} : request'[s] = request[s]
    BY <1>3 DEF Accept, API!Arrive, API!TypeOK, API!RequestType
  <2>2. requests' = requests \cup {r}
    BY <1>3 DEF Accept, Request
  <2> QED BY <2>1, <2>2
<1>4. ASSUME NEW r \in Requests, HandleRequest(r) PROVE Counted'
  <2>1. /\ request[r].pc \in {"auth", "handler", "store"}
        /\ request'[r].pc \in {"handler", "store", "leave"}
        /\ \A s \in Requests \ {r} : request'[s] = request[s]
    <3> DEFINE Moves(pcs) ==
          request'[r].pc \in pcs /\ \A s \in Requests \ {r} : request'[s] = request[s]
    <3>1. ASSUME NEW answer, API!Answers(r, answer) PROVE Moves({"leave"})
      BY <3>1 DEF API!Answers, API!Write, API!TypeOK, API!RequestType
    <3>2. ASSUME NEW answer, API!StoredThen(r, answer) PROVE Moves({"leave"})
      BY <3>2 DEF API!StoredThen, API!Write, API!TypeOK, API!RequestType
    <3>3. API!Panics(r) => Moves({"leave"})
      BY DEF API!Panics, API!TypeOK, API!RequestType
    <3>4. ASSUME NEW pc, request' = [request EXCEPT ![r].pc = pc] PROVE Moves({pc})
      BY <3>4 DEF API!TypeOK, API!RequestType
    <3>5. CASE API!Authorize(r)
      BY <3>1, <3>4, <3>5 DEF API!Authorize
    <3>6. CASE API!DecodeVerify(r)
      BY <3>1, <3>4, <3>6 DEF API!DecodeVerify
    <3>7. CASE API!VerifyUsers(r)
      BY <3>1, <3>2, <3>3, <3>7 DEF API!VerifyUsers
    <3>11. ASSUME NEW answer,
                  request' = [request EXCEPT ![r] = [API!Write(@, answer) EXCEPT !.panic = TRUE]]
           PROVE  Moves({"leave"})
      BY <3>11 DEF API!Write, API!TypeOK, API!RequestType
    <3>8. CASE API!HealthCheck(r)
      BY <3>1, <3>3, <3>8, <3>11 DEF API!HealthCheck
    <3>9. CASE API!Echo(r)
      BY <3>1, <3>9 DEF API!Echo
    <3>10. CASE API!Library(r)
      BY <3>1, <3>10 DEF API!Library
    <3> QED
      BY <1>4, <3>5, <3>6, <3>7, <3>8, <3>9, <3>10 DEF HandleRequest, API!Handle
  <2>2. UNCHANGED requests
    BY <1>4 DEF HandleRequest, vars
  <2> QED BY <2>1, <2>2
<1>5. ASSUME NEW r \in Requests, Answer(r) PROVE Counted'
  <2>1. /\ request[r].pc = "leave" /\ request'[r].pc = "done"
        /\ \A s \in Requests \ {r} : request'[s] = request[s]
    <3>1. PICK late, mute \in BOOLEAN : API!Leave(r, late, mute)
      BY <1>5 DEF Answer
    <3>2. API!Recovered(API!PastTimeout(request[r], late)) \in API!RequestType
      BY <3>1, WayOut DEF API!Leave, API!TypeOK, AnswerInv
    <3> QED BY <3>1, <3>2 DEF API!Leave, API!TypeOK, API!RequestType
  <2>2. requests' = requests \ {r}
    BY <1>5 DEF Answer, Respond
  <2> QED BY <2>1, <2>2
<1> QED
  BY <1>1, <1>2, <1>3, <1>4, <1>5 DEF ServiceNext

LEMMA ServiceInv == ServiceSpec => [](API!TypeOK /\ AnswerInv /\ Counted)
<1>1. ServiceInit => Counted
  BY DEF ServiceInit, Init, API!Init, API!Unsent, API!Serving, Counted
<1> QED
  BY <1>1, AnswerInit, AnswerStep, CountStep, PTL DEF ServiceSpec

(* The service is made of well-typed parts that agree on the requests      *)
(* under way.                                                              *)
THEOREM ServiceTypeCorrect == ServiceSpec => []ServiceTypeOK
<1>1. TypeOK /\ API!TypeOK /\ Counted => ServiceTypeOK
  BY DEF ServiceTypeOK, Counted
<1> QED
  BY <1>1, ServiceInv, ServiceImplementsLifecycle, TypeCorrect, PTL

(* When the process has ended well and in time, whoever changed the        *)
(* database has had an answer.                                             *)
THEOREM StoredIsAnsweredAlways == ServiceSpec => []StoredIsAnswered
<1>1. ASSUME TypeOK, ExitInv, API!TypeOK, AnswerInv, Counted PROVE StoredIsAnswered
  <2> SUFFICES ASSUME http = "done", NEW r \in Requests,
                      request[r].stored, ~request[r].mute
               PROVE  request[r].seen.code # 0
    BY DEF StoredIsAnswered
  <2>1. requests = {}
    BY <1>1 DEF ExitInv
  <2>2. request[r].pc \in {"none", "done"}
    BY <1>1, <2>1 DEF Counted, API!Serving
  <2>3. Told(request[r], verified, banned)
    BY <1>1 DEF AnswerInv
  <2> QED BY <2>2, <2>3 DEF Told
<1>2. Init => ExitInv
  BY DEF Init, ExitInv
<1>3. Spec => []ExitInv
  BY <1>2, ExitStep, TypeCorrect, PTL DEF Spec
<1> QED
  BY <1>1, <1>3, ServiceInv, ServiceImplementsLifecycle, TypeCorrect, PTL

=============================================================================
