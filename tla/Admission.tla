----------------------------- MODULE Admission -----------------------------
(***************************************************************************)
(* Who gets a word in: the chain of middlewares a message goes through,    *)
(* and the callback of a captcha, on top of what Storage remembers about   *)
(* their users.  Gate has the chain with the tables asked directly; here   *)
(* every handler is one of the goroutines that interleave in VerifiedStore,*)
(* behind its cache, with the admin API, the cache's own goroutine and     *)
(* restarts of the program.                                                *)
(***************************************************************************)
EXTENDS VerifiedStore

CONSTANTS
  Messages,   \* messages of groups that are allowed, each in a goroutine
  Presses,    \* presses that complete a captcha, each in a goroutine
  Admins      \* creators and administrators of the chat

ASSUME AdmissionAssumption ==
  /\ Callers = Messages \cup Presses
  /\ Messages \cap Presses = {}
  /\ Admins \subseteq Users

VARIABLES
  handler,   \* how far the handler of every message and press has come
  asked,     \* users who have a captcha to solve
  entitled,  \* history: users anybody was right to verify
  firm       \* history: users verified since the process started

storeVars == <<cache, verified, banned, call, revoked>>
admissionVars == <<storeVars, handler, asked, entitled, firm>>

Handlers == Messages \cup Presses

NoHandler == [pc |-> "none", user |-> NoUser, verified |-> FALSE, deleted |-> FALSE]

(* In "asking", "promoting" and "dropping" the handler is inside a call of *)
(* Storage.                                                                *)
Steps == {"verify", "asking", "member", "promote", "promoting", "delete", "check",
          "dropping", "captcha", "store", "close"}
Decided == {"stored", "done", "lost"}

HandlerStates ==
  {NoHandler} \cup [pc : Steps \cup Decided, user : Users,
                    verified : BOOLEAN, deleted : BOOLEAN]

At(h, pc) == handler[h].pc = pc
User(h) == handler[h].user
Goto(h, pc) == handler' = [handler EXCEPT ![h].pc = pc]
Stay == UNCHANGED handler

Receive(h, u, pc) ==
  /\ handler[h] = NoHandler
  /\ handler' = [handler EXCEPT ![h] = [pc |-> pc, user |-> u, deleted |-> FALSE,
                                        verified |-> u \in verified]]

-----------------------------------------------------------------------------
AdmissionInit ==
  /\ Init
  /\ handler = [h \in Handlers |-> NoHandler]
  /\ asked = {}
  /\ entitled = verified /\ firm = verified

MessageArrives(m, u) ==
  /\ Receive(m, u, "verify")
  /\ UNCHANGED <<storeVars, asked, entitled, firm>>

AfterAnswer(m, answer) == Goto(m, IF answer = "yes" THEN "store" ELSE "member")

(* verifyUserMiddleware asks IsVerifiedUser, which has the answer cached   *)
CachedAnswer(m) ==
  /\ At(m, "verify") /\ Hit(cache[User(m)])
  /\ AfterAnswer(m, cache[User(m)].val)
  /\ UNCHANGED <<storeVars, asked, entitled, firm>>

(* or asks the database.  If the query fails the message stays, unstored.  *)
Asks(m) ==
  /\ At(m, "verify") /\ IsVerifiedUser(m, User(m))
  /\ Goto(m, "asking")
  /\ UNCHANGED <<asked, entitled, firm>>

Reads(m) ==
  /\ At(m, "asking") /\ ReadVerified(m)
  /\ IF call'[m] = Idle THEN Goto(m, "done") ELSE Stay
  /\ UNCHANGED <<asked, entitled, firm>>

Fills(m) ==
  /\ At(m, "asking") /\ FillVerified(m)
  /\ AfterAnswer(m, call[m].answer)
  /\ UNCHANGED <<asked, entitled, firm>>

(* Mutant: when Telegram does not answer the chain starts again.           *)
AskRoleAgain(m) ==
  /\ At(m, "member")
  /\ \/ Goto(m, IF User(m) \in Admins THEN "promote" ELSE "delete")
     \/ Goto(m, "verify")
  /\ UNCHANGED <<storeVars, asked, entitled, firm>>

AskRole(m) ==
  /\ At(m, "member")
  /\ \/ Goto(m, IF User(m) \in Admins THEN "promote" ELSE "delete")
     \/ Goto(m, "done")
  /\ UNCHANGED <<storeVars, asked, entitled, firm>>

(* VerifyUser, for an administrator or for the user who solved a captcha.  *)
(* Neither handler minds if it fails.                                      *)
Promote(m) ==
  /\ At(m, "promote") /\ VerifyUser(m, User(m))
  /\ Goto(m, "promoting")
  /\ entitled' = entitled \cup {User(m)}
  /\ UNCHANGED <<asked, firm>>

Solve(p, u) ==
  /\ u \in asked
  /\ Receive(p, u, "promoting") /\ VerifyUser(p, u)
  /\ entitled' = entitled \cup {u}
  /\ UNCHANGED <<asked, firm>>

AfterPromotion(h) == Goto(h, IF h \in Presses THEN "close" ELSE "store")

Promoting(h) ==
  /\ At(h, "promoting")
  /\ \/ CommitVerifyUser(h) /\ AfterPromotion(h)
     \/ FailVerifyUser(h) /\ Stay
  /\ UNCHANGED <<asked, entitled, firm>>

Undoing(h) ==
  /\ At(h, "promoting") /\ UndoVerifyUser(h)
  /\ AfterPromotion(h)
  /\ UNCHANGED <<asked, entitled, firm>>

(* The captcha's row goes, or stays if the DELETE fails.                   *)
CloseCaptcha(p) ==
  /\ At(p, "close")
  /\ asked' \in {asked, asked \ {User(p)}}
  /\ Goto(p, "done")
  /\ UNCHANGED <<storeVars, entitled, firm>>

DeleteMessage(m) ==
  /\ At(m, "delete")
  /\ handler' \in {[handler EXCEPT ![m].pc = "check", ![m].deleted = deleted] :
                     deleted \in BOOLEAN}
  /\ UNCHANGED <<storeVars, asked, entitled, firm>>

(* verifyUserWithLocalDB: a ban in force and a failed query end the chain, *)
(* a ban that has run out is deleted first.                                *)
CheckBan(m) ==
  /\ At(m, "check")
  /\ \/ banned[User(m)] = "none" /\ Goto(m, "captcha")
     \/ Goto(m, "done")
  /\ UNCHANGED <<storeVars, asked, entitled, firm>>

FindsOldBan(m) ==
  /\ At(m, "check") /\ IsBannedUser(m, User(m))
  /\ Goto(m, "dropping")
  /\ UNCHANGED <<asked, entitled, firm>>

DropsOldBan(m) ==
  /\ At(m, "dropping") /\ DropBan(m)
  /\ \/ banned'[User(m)] = "none" /\ Goto(m, "captcha")
     \/ UNCHANGED banned /\ Goto(m, "done")
  /\ UNCHANGED <<asked, entitled, firm>>

AskToSolve(m) ==
  /\ At(m, "captcha")
  /\ asked' \in {asked, asked \cup {User(m)}}
  /\ Goto(m, "done")
  /\ UNCHANGED <<storeVars, entitled, firm>>

Store(m) ==
  /\ At(m, "store")
  /\ Goto(m, "stored")
  /\ UNCHANGED <<storeVars, asked, entitled, firm>>

(* The admin API, the time, the cache's goroutine.                         *)
ApiVerifies(ids) ==
  /\ \E c \in Callers : VerifyUsers(c, ids)
  /\ entitled' = entitled \cup ids
  /\ UNCHANGED <<handler, asked, firm>>

Background ==
  /\ \E u \in Users : BanExpires(u) \/ Drain(u) \/ Evict(u)
  /\ UNCHANGED <<handler, asked, entitled, firm>>

(* The process dies and comes back: handlers are lost, tables stay.        *)
ProcessRestarts ==
  /\ Restart
  /\ handler' = [h \in Handlers |->
                   IF handler[h].pc \in Steps THEN [handler[h] EXCEPT !.pc = "lost"]
                                              ELSE handler[h]]
  /\ firm' = verified
  /\ UNCHANGED <<asked, entitled>>

Handle(h) ==
  \/ CachedAnswer(h) \/ Asks(h) \/ Reads(h) \/ Fills(h) \/ AskRole(h)
  \/ Promote(h) \/ Promoting(h) \/ Undoing(h) \/ CloseCaptcha(h)
  \/ DeleteMessage(h) \/ CheckBan(h) \/ FindsOldBan(h) \/ DropsOldBan(h) \/ AskToSolve(h) \/ Store(h)

AdmissionNext ==
  \/ \E m \in Messages, u \in Users : MessageArrives(m, u)
  \/ \E p \in Presses, u \in Users : Solve(p, u)
  \/ \E h \in Handlers : Handle(h)
  \/ \E ids \in SUBSET Users \ {{}} : ApiVerifies(ids)
  \/ Background \/ ProcessRestarts

AdmissionSpec == AdmissionInit /\ [][AdmissionNext]_admissionVars

(* Handlers go on; the one step that can block, a Del on a full buffer of  *)
(* the cache, gets its turn as the cache's goroutine drains it (a sender   *)
(* blocked on a Go channel is served before later senders).                *)
AdmissionFairness ==
  /\ \A h \in Handlers : WF_admissionVars(Handle(h)) /\ SF_admissionVars(Undoing(h))
  /\ \A u \in Users :
       WF_admissionVars(Drain(u) /\ UNCHANGED <<handler, asked, entitled, firm>>)

FairAdmissionSpec == AdmissionSpec /\ AdmissionFairness
-----------------------------------------------------------------------------
(* Every variable has its type, and a handler is inside the call of        *)
(* Storage it is waiting for.                                              *)
AdmissionTypeOK ==
  /\ TypeOK
  /\ handler \in [Handlers -> HandlerStates]
  /\ asked \subseteq Users /\ entitled \subseteq Users /\ firm \subseteq Users
  /\ \A h \in Handlers :
       /\ call[h].pc \in {"read", "fill"} <=> At(h, "asking")
       /\ call[h].pc \in {"write", "undo"} <=> At(h, "promoting")
       /\ call[h].pc = "drop" <=> At(h, "dropping")
       /\ call[h].pc # "idle" => call[h].user = User(h)

(* Only messages of users somebody was right to verify are stored, in this *)
(* run of the program or before: an administrator, a user who solved a     *)
(* captcha, one the API named.  Caches, failed writes and restarts let     *)
(* nobody else in.                                                         *)
StoredIsEntitled == \A m \in Messages : At(m, "stored") => User(m) \in entitled

(* The handler of a message of a user who was verified when the program    *)
(* started never comes to the deletion, whatever fails: an error makes the *)
(* bot ignore a message, not delete it.                                    *)
FirmIsHeard ==
  \A m \in Messages :
    User(m) \in firm => handler[m].pc \in {"verify", "asking", "store"} \cup Decided

(* "Delete the current message, because user is not verified"              *)
(* (middlewares.go:189): nobody's who was verified before they sent it.    *)
VerifiedIsHeard == \A m \in Messages : handler[m].deleted => ~handler[m].verified

(* The bot makes up its mind about every message, unless it restarts.      *)
MessagesAreDecided ==
  \A m \in Messages : At(m, "verify") ~> handler[m].pc \in Decided
=============================================================================
