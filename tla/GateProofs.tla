------------------------------ MODULE GateProofs ------------------------------
(***************************************************************************)
(* Proofs about Gate, for any users, messages, lists and faults: what is   *)
(* stored comes from trusted users, nobody banned is offered a captcha,    *)
(* and the message of a stranger does not outlive its update unnoticed.    *)
(***************************************************************************)
EXTENDS Gate, TLAPS

-----------------------------------------------------------------------------
(* What holds of one update, given whether its message is in the chat, whom*)
(* somebody spoke for and who is banned: how far it has come for whom, and that a    *)
(* stranger's message that came past its deletion is gone, or logged.      *)
Late == {"ban_check", "kick", "captcha", "done"}

Strange(rec, known) ==
  /\ rec.kind \in {"message", "story", "via"} /\ rec.user \notin known \cup Admins
  /\ ~(IgnoreVia /\ rec.kind = "via")

Fits(rec, here, known, ban) ==
  /\ rec.pc = "promote" => rec.user \in Admins
  /\ rec.pc = "store" => rec.kind = "press" \/ rec.user \in known \cup Admins
  /\ rec.pc = "captcha" => rec.user \notin ban
  /\ here /\ rec.pc \in Late /\ Strange(rec, known) => rec.logged

UpdatesFit == \A m \in Messages : Fits(update[m], m \in inChat, vouched, banned)

(* What is in the buffer or stored has arrived.                            *)
Arrived(m) == update[m] # None

ArrivedFirst ==
  /\ \A i \in DOMAIN buffer : Arrived(buffer[i])
  /\ \A m \in stored : Arrived(m)

(* How the tables and what is known of users change: users become verified *)
(* and are spoken for, bans end.                                           *)
TablesGo ==
  /\ verified' \subseteq Users /\ banned' \subseteq banned
  /\ vouched \subseteq vouched' /\ vouched' \subseteq Users /\ UNCHANGED firm

GateInv == TypeOK /\ ArrivedFirst /\ StoredIsTrusted /\ UpdatesFit

-----------------------------------------------------------------------------
(* An update that goes on stays one of those that have arrived.            *)
Goes(rec, pc, logged) == [rec EXCEPT !.pc = pc, !.logged = logged]

LEMMA GoneOn ==
  ASSUME NEW old \in UpdateStates, old # None,
         NEW pc \in {"buffered"} \cup Waiting \cup Over, NEW logged \in BOOLEAN
  PROVE  /\ Goes(old, pc, logged) \in UpdateStates
         /\ Goes(old, pc, logged) # None
         /\ Goes(old, pc, logged).pc = pc
         /\ Goes(old, pc, logged).logged = logged
         /\ Goes(old, pc, logged).user = old.user
         /\ Goes(old, pc, logged).kind = old.kind
<1>1. old \in [pc : {"buffered"} \cup Waiting \cup Over, user : Users,
              kind : Kinds, logged : BOOLEAN]
  BY DEF UpdateStates
<1>2. Goes(old, pc, logged) \in [pc : {"buffered"} \cup Waiting \cup Over, user : Users,
                                kind : Kinds, logged : BOOLEAN]
  BY <1>1 DEF Goes
<1>3. Goes(old, pc, logged) # None
  BY <1>2 DEF None, Waiting, Over
<1> QED BY <1>1, <1>2, <1>3 DEF UpdateStates, Goes

(* One update goes on, users may become verified and bans may end.         *)
LEMMA OneGoesOn ==
  ASSUME GateInv, NEW m \in Messages, Arrived(m),
         NEW pc \in {"buffered"} \cup Waiting \cup Over, NEW logged \in BOOLEAN,
         update' = [update EXCEPT ![m] = Goes(@, pc, logged)],
         buffer' = buffer \/ (buffer # <<>> /\ buffer' = Tail(buffer)),
         inChat' \subseteq inChat, stored' \subseteq stored \cup {m},
         TablesGo, kicked' \subseteq Users, asked' \subseteq Users,
         Fits(Goes(update[m], pc, logged), m \in inChat', vouched', banned'),
         m \in stored' \ stored =>
           /\ Listed(User(m))
           /\ update[m].kind = "press" \/ User(m) \in vouched' \cup Admins
  PROVE  GateInv'
<1> DEFINE rec == Goes(update[m], pc, logged)
<1>1. /\ rec \in UpdateStates /\ rec # None
      /\ rec.user = User(m) /\ rec.kind = update[m].kind
  <2>1. update[m] \in UpdateStates /\ update[m] # None
    BY DEF GateInv, TypeOK, Arrived
  <2> QED BY <2>1, GoneOn DEF User
<1> HIDE DEF rec
<1>2. /\ update'[m] = rec
      /\ \A n \in Messages \ {m} : update'[n] = update[n]
  BY DEF GateInv, TypeOK, rec
<1>3. /\ buffer' \in Seq(Messages) /\ Len(buffer') <= BufferLimit
      /\ \A i \in DOMAIN buffer' : \E j \in DOMAIN buffer : buffer'[i] = buffer[j]
  <2>1. buffer \in Seq(Messages) /\ Len(buffer) <= BufferLimit /\ BufferLimit \in Nat
    BY GateAssumption DEF GateInv, TypeOK, GateAssumption
  <2>2. CASE buffer' = buffer
    BY <2>1, <2>2
  <2>3. CASE buffer # <<>> /\ buffer' = Tail(buffer)
    <3>1. Tail(buffer) \in Seq(Messages) /\ Len(Tail(buffer)) <= BufferLimit
      BY <2>1, <2>3
    <3>2. \A i \in DOMAIN Tail(buffer) : i + 1 \in DOMAIN buffer /\ Tail(buffer)[i] = buffer[i + 1]
      BY <2>1, <2>3
    <3> QED BY <2>3, <3>1, <3>2
  <2> QED BY <2>2, <2>3
<1>4. TypeOK'
  <2>1. update' \in [Messages -> UpdateStates]
    BY <1>1 DEF GateInv, TypeOK, rec
  <2> QED BY <1>3, <2>1 DEF GateInv, TypeOK, TablesGo
<1>5. ArrivedFirst'
  <2>1. \A n \in Messages : Arrived(n) => Arrived(n)'
    BY <1>1, <1>2 DEF Arrived
  <2>2. \A i \in DOMAIN buffer : buffer[i] \in Messages
    BY DEF GateInv, TypeOK
  <2>3. stored \subseteq Messages
    BY DEF GateInv, TypeOK
  <2> QED BY <1>3, <2>1, <2>2, <2>3 DEF GateInv, ArrivedFirst
<1>6. StoredIsTrusted'
  <2>1. \A n \in Messages : User(n)' = User(n) /\ update'[n].kind = update[n].kind
    BY <1>1, <1>2 DEF User
  <2>2. \A n \in stored : n \in Messages
    BY DEF GateInv, TypeOK
  <2>3. ASSUME NEW n \in stored'
        PROVE  Listed(User(n)) /\ (update[n].kind = "press" \/ User(n) \in vouched' \cup Admins)
    BY <2>3 DEF GateInv, StoredIsTrusted, Trusted, TablesGo
  <2> QED BY <2>1, <2>2, <2>3 DEF StoredIsTrusted, Trusted, Listed
<1>7. UpdatesFit'
  <2>1. ASSUME NEW n \in Messages, n # m
        PROVE  Fits(update[n], n \in inChat', vouched', banned')
    BY <2>1 DEF GateInv, UpdatesFit, Fits, Strange, TablesGo
  <2>2. Fits(rec, m \in inChat', vouched', banned')
    BY DEF rec
  <2> QED BY <1>2, <2>1, <2>2 DEF UpdatesFit
<1> QED BY <1>4, <1>5, <1>6, <1>7 DEF GateInv

(* Nothing goes on, but users may become verified and bans may end.        *)
LEMMA TablesGoOn ==
  ASSUME GateInv, UNCHANGED <<buffer, update, inChat, stored, kicked>>,
         TablesGo, asked' \subseteq Users
  PROVE  GateInv'
<1>1. TypeOK'
  BY DEF GateInv, TypeOK, TablesGo
<1>2. ArrivedFirst'
  BY DEF GateInv, ArrivedFirst, Arrived
<1>3. StoredIsTrusted'
  BY DEF GateInv, StoredIsTrusted, Trusted, User, Listed, TablesGo
<1>4. UpdatesFit'
  BY DEF GateInv, UpdatesFit, Fits, Strange, TablesGo
<1> QED BY <1>1, <1>2, <1>3, <1>4 DEF GateInv

(* Goto and handleError are such goings-on.                                *)
LEMMA GotoGoes ==
  ASSUME TypeOK, NEW m \in Messages, Arrived(m),
         NEW pc \in {"buffered"} \cup Waiting \cup Over, Goto(m, pc)
  PROVE  /\ User(m) \in Users /\ update[m].kind \in Kinds
         /\ update[m].logged \in BOOLEAN
         /\ update' = [update EXCEPT ![m] = Goes(@, pc, update[m].logged)]
         /\ Goes(update[m], pc, update[m].logged).pc = pc
         /\ Goes(update[m], pc, update[m].logged).logged = update[m].logged
         /\ Goes(update[m], pc, update[m].logged).user = User(m)
         /\ Goes(update[m], pc, update[m].logged).kind = update[m].kind
<1>1. update[m] \in [pc : {"buffered"} \cup Waiting \cup Over, user : Users,
                     kind : Kinds, logged : BOOLEAN]
  BY DEF TypeOK, UpdateStates, Arrived
<1>2. [update[m] EXCEPT !.pc = pc] = Goes(update[m], pc, update[m].logged)
  BY <1>1 DEF Goes
<1> QED BY <1>1, <1>2 DEF Goto, Goes, User

LEMMA FailGoes ==
  ASSUME TypeOK, NEW m \in Messages, Arrived(m),
         NEW pc \in {"buffered"} \cup Waiting \cup Over, NEW fault \in Faults,
         Fail(fault, m, pc)
  PROVE  /\ User(m) \in Users /\ update[m].kind \in Kinds
         /\ update' = [update EXCEPT ![m] = Goes(@, pc, TRUE)]
         /\ Goes(update[m], pc, TRUE).pc = pc
         /\ Goes(update[m], pc, TRUE).logged = TRUE
         /\ Goes(update[m], pc, TRUE).user = User(m)
         /\ Goes(update[m], pc, TRUE).kind = update[m].kind
<1>1. update[m] \in [pc : {"buffered"} \cup Waiting \cup Over, user : Users,
                     kind : Kinds, logged : BOOLEAN]
  BY DEF TypeOK, UpdateStates, Arrived
<1> QED BY <1>1 DEF Fail, Goes, User

(* A step that leaves all but one update alone; the tables may change.     *)
LEMMA Going ==
  ASSUME GateInv, NEW m \in Messages, Arrived(m), UNCHANGED buffer,
         NEW pc \in Waiting \cup Over,
         inChat' \subseteq inChat, stored' \subseteq stored \cup {m},
         TablesGo, kicked' \subseteq Users, asked' \subseteq Users,
         Goto(m, pc) \/ \E fault \in Faults : Fail(fault, m, pc),
         pc = "promote" => User(m) \in Admins,
         pc = "store" => update[m].kind = "press" \/ User(m) \in vouched' \cup Admins,
         pc = "captcha" => User(m) \notin banned',
         /\ pc \in Late /\ m \in inChat' /\ Goto(m, pc)
         /\ Strange(update[m], vouched')
         => update[m].logged,
         m \in stored' \ stored =>
           /\ Listed(User(m))
           /\ update[m].kind = "press" \/ User(m) \in vouched' \cup Admins
  PROVE  GateInv'
<1>1. pc \in {"buffered"} \cup Waiting \cup Over /\ TypeOK
  BY DEF GateInv
<1>2. ASSUME Goto(m, pc)
      PROVE  GateInv'
  <2> DEFINE rec == Goes(update[m], pc, update[m].logged)
  <2>1. /\ update[m].logged \in BOOLEAN
        /\ update' = [update EXCEPT ![m] = Goes(@, pc, update[m].logged)]
        /\ rec.pc = pc /\ rec.logged = update[m].logged
        /\ rec.user = User(m) /\ rec.kind = update[m].kind
    BY <1>1, <1>2, GotoGoes
  <2> HIDE DEF rec
  <2>2. Fits(rec, m \in inChat', vouched', banned')
    BY <1>2, <2>1 DEF Fits, Strange, User
  <2> USE DEF rec
  <2> QED BY <1>1, <2>1, <2>2, OneGoesOn
<1>3. ASSUME NEW fault \in Faults, Fail(fault, m, pc)
      PROVE  GateInv'
  <2> DEFINE rec == Goes(update[m], pc, TRUE)
  <2>1. /\ update' = [update EXCEPT ![m] = Goes(@, pc, TRUE)]
        /\ rec.pc = pc /\ rec.logged = TRUE
        /\ rec.user = User(m) /\ rec.kind = update[m].kind
    BY <1>1, <1>3, FailGoes
  <2> HIDE DEF rec
  <2>2. Fits(rec, m \in inChat', vouched', banned')
    BY <2>1 DEF Fits
  <2> USE DEF rec
  <2> QED BY <1>1, <2>1, <2>2, OneGoesOn
<1> QED BY <1>2, <1>3

(* An error ends the chain: whatever was to be done, it is logged.         *)
LEMMA Failing ==
  ASSUME GateInv, NEW m \in Messages, Arrived(m), UNCHANGED buffer,
         NEW pc \in {"done", "ban_check"}, \E fault \in Faults : Fail(fault, m, pc),
         inChat' \subseteq inChat, UNCHANGED <<stored, tables, kicked, asked>>
  PROVE  GateInv'
<1>1. PICK fault \in Faults : Fail(fault, m, pc)
  OBVIOUS
<1>2. GateInv /\ TypeOK /\ pc \in {"buffered"} \cup Waiting \cup Over
  BY DEF GateInv, Over, Waiting
<1> DEFINE rec == Goes(update[m], pc, TRUE)
<1>3. /\ update' = [update EXCEPT ![m] = Goes(@, pc, TRUE)]
      /\ rec.pc = pc /\ rec.logged = TRUE
  BY <1>1, <1>2, FailGoes
<1> HIDE DEF rec
<1>4. Fits(rec, m \in inChat', vouched', banned')
  BY <1>3 DEF Fits
<1>5. TablesGo /\ kicked \subseteq Users /\ asked \subseteq Users
  BY DEF GateInv, TypeOK, TablesGo, tables
<1> USE DEF rec
<1> QED BY <1>2, <1>3, <1>4, <1>5, OneGoesOn

-----------------------------------------------------------------------------
(* How an update goes on, one lemma for each middleware.                   *)
LEMMA Waits ==
  ASSUME GateInv, NEW m \in Messages, update[m].pc \in Waiting
  PROVE  Arrived(m) /\ User(m) \in Users /\ Fits(update[m], m \in inChat, vouched, banned)
BY DEF GateInv, TypeOK, UpdateStates, Waiting, None, Arrived, User, UpdatesFit

LEMMA ArriveKeeps ==
  ASSUME GateInv, NEW m \in Messages, NEW u \in Users, NEW kind \in Kinds, Arrive(m, u, kind)
  PROVE  GateInv'
<1> DEFINE rec == [pc |-> "buffered", user |-> u, kind |-> kind, logged |-> FALSE]
<1>1. rec \in UpdateStates /\ rec # None /\ rec.pc = "buffered"
  <2>1. rec \in UpdateStates /\ rec.pc = "buffered" /\ None.pc = "none"
    BY DEF UpdateStates, None
  <2> QED BY <2>1
<1> HIDE DEF rec
<1>2. /\ update'[m] = rec
      /\ \A n \in Messages \ {m} : update'[n] = update[n] /\ (n \in inChat' <=> n \in inChat)
      /\ m \notin stored /\ ~Arrived(m)
      /\ stored \subseteq Messages /\ \A n \in stored : Arrived(n)
  BY DEF GateInv, TypeOK, Arrive, rec, ArrivedFirst, Arrived
<1>3. buffer \in Seq(Messages) /\ BufferLimit \in Nat
  BY GateAssumption DEF GateInv, TypeOK, GateAssumption
<1>4. /\ buffer' \in Seq(Messages) /\ Len(buffer') <= BufferLimit
      /\ \A i \in DOMAIN buffer' : buffer'[i] = m \/ \E j \in DOMAIN buffer : buffer'[i] = buffer[j]
  BY <1>3 DEF Arrive
<1>5. TypeOK'
  <2>1. update' \in [Messages -> UpdateStates]
    BY <1>1 DEF GateInv, TypeOK, Arrive, rec
  <2> QED BY <1>4, <2>1 DEF GateInv, TypeOK, Arrive, tables
<1>6. ArrivedFirst'
  <2>1. \A n \in Messages : Arrived(n) => Arrived(n)'
    BY <1>1, <1>2 DEF Arrived
  <2>2. Arrived(m)' /\ \A i \in DOMAIN buffer : buffer[i] \in Messages
    BY <1>1, <1>2, <1>3 DEF Arrived
  <2> QED BY <1>2, <1>4, <2>1, <2>2 DEF GateInv, ArrivedFirst, Arrive
<1>7. StoredIsTrusted'
  <2>1. \A n \in stored : update'[n] = update[n]
    BY <1>2
  <2> QED BY <2>1 DEF GateInv, StoredIsTrusted, Arrive, Trusted, User, Listed, tables
<1>8. UpdatesFit'
  <2>1. ASSUME NEW n \in Messages
        PROVE  Fits(update'[n], n \in inChat', vouched, banned)
    BY <1>1, <1>2 DEF GateInv, UpdatesFit, Fits, Late, Strange
  <2> QED BY <2>1 DEF UpdatesFit, Arrive, tables
<1> QED BY <1>5, <1>6, <1>7, <1>8 DEF GateInv

LEMMA TakeKeeps ==
  ASSUME GateInv, NEW m \in Messages, StartTakes(m) \/ StoryTakes(m)
  PROVE  GateInv'
<1>1. Arrived(m) /\ TypeOK
  <2>1. buffer \in Seq(Messages)
    BY DEF GateInv, TypeOK
  <2>2. buffer # <<>> /\ m = buffer[1] /\ 1 \in DOMAIN buffer
    BY <2>1 DEF StartTakes, StoryTakes, Take
  <2> QED BY <2>2 DEF GateInv, ArrivedFirst
<1>2. PICK pc \in {"verify", "dropped"} : Goto(m, pc)
  BY DEF StartTakes, StoryTakes
<1>3. pc \in {"buffered"} \cup Waiting \cup Over
  BY DEF Waiting, Over
<1> DEFINE rec == Goes(update[m], pc, update[m].logged)
<1>4. /\ update[m].logged \in BOOLEAN
      /\ update' = [update EXCEPT ![m] = Goes(@, pc, update[m].logged)]
      /\ rec.pc = pc
  BY <1>1, <1>2, <1>3, GotoGoes
<1> HIDE DEF rec
<1>5. Fits(rec, m \in inChat', vouched', banned')
  BY <1>4 DEF Fits, Late
<1>6. /\ buffer # <<>> /\ buffer' = Tail(buffer)
      /\ UNCHANGED <<inChat, stored, tables, kicked, asked>>
      /\ TablesGo /\ kicked \subseteq Users /\ asked \subseteq Users
  BY DEF StartTakes, StoryTakes, Take, GateInv, TypeOK, TablesGo, tables
<1> USE DEF rec
<1> QED BY <1>1, <1>3, <1>4, <1>5, <1>6, OneGoesOn

LEMMA VerifyKeeps ==
  ASSUME GateInv, NEW m \in Messages, Verify(m)
  PROVE  GateInv'
<1>1. Arrived(m)
  BY Waits DEF Verify, At, Waiting
<1>2. PICK pc \in {"store", "done", "member"} :
        /\ Goto(m, pc) \/ \E fault \in Faults : Fail(fault, m, pc)
        /\ pc = "store" => update[m].kind = "press" \/ User(m) \in vouched
        /\ pc = "done" /\ Goto(m, pc) =>
             update[m].kind = "outside" \/ Ignored(m) \/ \E fault \in Faults : Fail(fault, m, "done")
  BY DEF Verify, Fail
<1>3. pc \in Waiting \cup Over
  BY DEF Waiting, Over
<1>4. /\ UNCHANGED <<buffer, inChat, stored, tables, kicked, asked>>
      /\ TablesGo /\ kicked \subseteq Users /\ asked \subseteq Users
  BY DEF Verify, GateInv, TypeOK, TablesGo, tables
<1>5. CASE update[m].kind = "outside" \/ Ignored(m) \/ pc # "done"
  <2>1. /\ pc \in Late /\ m \in inChat' /\ Goto(m, pc)
        /\ Strange(update[m], vouched')
        => update[m].logged
    BY <1>5 DEF Late, Strange, Ignored
  <2> QED BY <1>1, <1>2, <1>3, <1>4, <2>1, Going DEF tables
<1>6. CASE update[m].kind # "outside" /\ ~Ignored(m) /\ pc = "done"
  <2>1. \E fault \in Faults : Fail(fault, m, pc)
    BY <1>2, <1>6
  <2> QED BY <1>1, <1>3, <1>4, <1>6, <2>1, Failing
<1> QED BY <1>5, <1>6

LEMMA AskRoleKeeps ==
  ASSUME GateInv, NEW m \in Messages, AskRole(m)
  PROVE  GateInv'
<1>1. Arrived(m)
  BY Waits DEF AskRole, At, Waiting
<1>2. PICK pc \in {"promote", "delete", "done"} :
        /\ Goto(m, pc) \/ \E fault \in Faults : Fail(fault, m, pc)
        /\ pc = "promote" => User(m) \in Admins
        /\ pc = "done" => \E fault \in Faults : Fail(fault, m, "done")
  BY DEF AskRole, Fail
<1>3. pc \in Waiting \cup Over
  BY DEF Waiting, Over
<1>4. /\ UNCHANGED <<buffer, inChat, stored, tables, kicked, asked>>
      /\ TablesGo /\ kicked \subseteq Users /\ asked \subseteq Users
  BY DEF AskRole, GateInv, TypeOK, TablesGo, tables
<1>5. CASE pc = "done"
  <2>1. \E fault \in Faults : Fail(fault, m, pc)
    BY <1>2, <1>5
  <2> QED BY <1>1, <1>3, <1>4, <1>5, <2>1, Failing
<1>6. CASE pc # "done"
  <2>1. pc \notin Late
    BY <1>6 DEF Late
  <2> QED BY <1>1, <1>2, <1>3, <1>4, <1>6, <2>1, Going
<1> QED BY <1>5, <1>6

LEMMA VerifyAdminKeeps ==
  ASSUME GateInv, NEW m \in Messages, VerifyAdmin(m)
  PROVE  GateInv'
<1>1. Arrived(m) /\ User(m) \in Users /\ User(m) \in Admins
  BY Waits DEF VerifyAdmin, At, Waiting, Fits, User
<1>2. PICK pc \in {"store"} : Goto(m, pc) \/ \E fault \in Faults : Fail(fault, m, pc)
  BY DEF VerifyAdmin, Fail
<1>3. /\ UNCHANGED <<buffer, inChat, stored, kicked, asked>>
      /\ TablesGo
      /\ kicked' \subseteq Users /\ asked' \subseteq Users
  BY <1>1 DEF VerifyAdmin, Join, GateInv, TypeOK, TablesGo
<1>4. pc \in Waiting \cup Over /\ pc \notin Late /\ pc # "promote" /\ pc # "captcha"
  BY DEF Waiting, Late
<1>5. /\ User(m) \in vouched' \cup Admins
      /\ inChat' \subseteq inChat /\ stored' \subseteq stored \cup {m}
      /\ m \notin stored' \ stored
      /\ UNCHANGED buffer
  BY <1>1, <1>3
<1> QED BY <1>1, <1>2, <1>3, <1>4, <1>5, Going

LEMMA DeleteMessageKeeps ==
  ASSUME GateInv, NEW m \in Messages, DeleteMessage(m)
  PROVE  GateInv'
<1>1. Arrived(m)
  BY Waits DEF DeleteMessage, At, Waiting
<1>2. \/ Goto(m, "ban_check") /\ m \notin inChat'
      \/ \E fault \in Faults : Fail(fault, m, "ban_check")
  BY DEF DeleteMessage, Fail
<1>3. /\ UNCHANGED <<buffer, stored, tables, kicked, asked>>
      /\ inChat' \subseteq inChat
      /\ TablesGo /\ kicked \subseteq Users /\ asked \subseteq Users
  BY DEF DeleteMessage, GateInv, TypeOK, TablesGo, tables
<1>4. "ban_check" \in Waiting \cup Over
  BY DEF Waiting
<1>5. CASE Goto(m, "ban_check") /\ m \notin inChat'
  BY <1>1, <1>3, <1>4, <1>5, Going
<1>6. CASE \E fault \in Faults : Fail(fault, m, "ban_check")
  BY <1>1, <1>3, <1>6, Failing
<1> QED BY <1>2, <1>5, <1>6

LEMMA CheckBanKeeps ==
  ASSUME GateInv, NEW m \in Messages, CheckBan(m)
  PROVE  GateInv'
<1>1. Arrived(m) /\ Fits(update[m], m \in inChat, vouched, banned) /\ update[m].pc = "ban_check"
  BY Waits DEF CheckBan, At, Waiting
<1>2. /\ UNCHANGED <<buffer, inChat, stored, tables, kicked, asked>>
      /\ TablesGo /\ kicked \subseteq Users /\ asked \subseteq Users
  BY DEF CheckBan, GateInv, TypeOK, TablesGo, tables
<1>3. CASE \E fault \in Faults : Fail(fault, m, "done")
  BY <1>1, <1>2, <1>3, Failing
<1>4. CASE ~\E fault \in Faults : Fail(fault, m, "done")
  <2>1. PICK pc \in {"kick", "captcha"} :
          Goto(m, pc) /\ (pc = "captcha" => User(m) \notin banned)
    BY <1>4 DEF CheckBan, Fail
  <2>2. pc \in Waiting \cup Over
    BY DEF Waiting
  <2>3. m \in inChat /\ Strange(update[m], vouched)
        => update[m].logged
    BY <1>1 DEF Fits, Late, User
  <2> QED BY <1>1, <1>2, <2>1, <2>2, <2>3, Going DEF tables
<1> QED BY <1>3, <1>4

LEMMA KickKeeps ==
  ASSUME GateInv, NEW m \in Messages, Kick(m)
  PROVE  GateInv'
<1>1. Arrived(m) /\ User(m) \in Users
  BY Waits DEF Kick, At, Waiting
<1>2. /\ UNCHANGED <<buffer, stored, tables, asked>>
      /\ inChat' \subseteq inChat /\ kicked' \subseteq Users
      /\ TablesGo /\ kicked \subseteq Users /\ asked \subseteq Users
  BY <1>1 DEF Kick, GateInv, TypeOK, TablesGo, tables
<1>3. CASE Fail("telegram", m, "done") /\ UNCHANGED <<kicked, inChat>>
  <2>1. \E fault \in Faults : Fail(fault, m, "done")
    BY <1>3 DEF Fail
  <2> QED BY <1>1, <1>2, <1>3, <2>1, Failing
<1>4. CASE Goto(m, "done") /\ m \notin inChat'
  <2>1. "done" \in Waiting \cup Over
    BY DEF Over
  <2> QED BY <1>1, <1>2, <1>4, <2>1, Going
<1>5. \/ Fail("telegram", m, "done") /\ UNCHANGED <<kicked, inChat>>
      \/ Goto(m, "done") /\ m \notin inChat'
  BY DEF Kick
<1> QED BY <1>3, <1>4, <1>5

LEMMA AskToSolveKeeps ==
  ASSUME GateInv, NEW m \in Messages, AskToSolve(m)
  PROVE  GateInv'
<1>1. /\ Arrived(m) /\ User(m) \in Users /\ update[m].pc = "captcha"
      /\ Fits(update[m], m \in inChat, vouched, banned)
  BY Waits DEF AskToSolve, At, Waiting
<1>2. /\ UNCHANGED <<buffer, inChat, stored, tables, kicked>>
      /\ asked' \subseteq Users /\ Goto(m, "done")
      /\ TablesGo /\ kicked \subseteq Users
  BY <1>1 DEF AskToSolve, GateInv, TypeOK, TablesGo, tables
<1>3. m \in inChat /\ Strange(update[m], vouched)
      => update[m].logged
  BY <1>1 DEF Fits, Late, User
<1>4. "done" \in Waiting \cup Over
  BY DEF Over
<1> QED BY <1>1, <1>2, <1>3, <1>4, Going DEF tables

LEMMA StoreKeeps ==
  ASSUME GateInv, NEW m \in Messages, Store(m)
  PROVE  GateInv'
<1>1. /\ Arrived(m) /\ User(m) \in Users /\ update[m].pc = "store"
      /\ Fits(update[m], m \in inChat, vouched, banned)
  BY Waits DEF Store, At, Waiting
<1>2. /\ UNCHANGED <<buffer, inChat, tables, kicked, asked>>
      /\ stored' \subseteq stored \cup {m} /\ Goto(m, "done")
      /\ m \in stored' \ stored => Listed(User(m))
      /\ TablesGo /\ kicked \subseteq Users /\ asked \subseteq Users
  BY DEF Store, GateInv, TypeOK, TablesGo, tables
<1>3. update[m].kind = "press" \/ User(m) \in vouched \cup Admins
  BY <1>1 DEF Fits, User
<1>4. "done" \in Waiting \cup Over
  BY DEF Over
<1>5. /\ ~Strange(update[m], vouched')
      /\ update[m].kind = "press" \/ User(m) \in vouched' \cup Admins
  BY <1>2, <1>3 DEF tables, Strange, User
<1> QED BY <1>1, <1>2, <1>4, <1>5, Going

-----------------------------------------------------------------------------
(* Every step keeps the invariant.                                         *)
LEMMA GateInvKept == GateInv /\ [Next]_vars => GateInv'
<1> SUFFICES ASSUME GateInv, [Next]_vars PROVE GateInv'
  OBVIOUS
<1>1. ASSUME NEW m \in Messages, NEW u \in Users, NEW kind \in Kinds, Arrive(m, u, kind)
      PROVE  GateInv'
  BY <1>1, ArriveKeeps
<1>2. ASSUME NEW m \in Messages, StartTakes(m) \/ StoryTakes(m)
      PROVE  GateInv'
  BY <1>2, TakeKeeps
<1>3. ASSUME NEW m \in Messages, Handle(m)
      PROVE  GateInv'
  BY <1>3, VerifyKeeps, AskRoleKeeps, VerifyAdminKeeps, DeleteMessageKeeps,
     CheckBanKeeps, KickKeeps, AskToSolveKeeps, StoreKeeps DEF Handle
<1>4. ASSUME NEW u \in Users, SolveCaptcha(u)
      PROVE  GateInv'
  <2>1. TypeOK
    BY DEF GateInv
  <2>2. /\ UNCHANGED <<buffer, update, inChat, stored, kicked>>
        /\ TablesGo /\ asked' \subseteq Users
    BY <1>4, <2>1 DEF SolveCaptcha, Join, TypeOK, TablesGo
  <2> QED BY <2>2, TablesGoOn
<1>5. ASSUME NEW u \in Users, BanEnds(u)
      PROVE  GateInv'
  BY <1>5, TablesGoOn DEF BanEnds, GateInv, TypeOK, TablesGo
<1>6. ASSUME NEW ids \in SUBSET Users \ {{}}, VerifyUsers(ids)
      PROVE  GateInv'
  <2>1. TypeOK
    BY DEF GateInv
  <2>2. /\ UNCHANGED <<buffer, update, inChat, stored, kicked>>
        /\ TablesGo /\ asked' \subseteq Users
    BY <1>6, <2>1 DEF VerifyUsers, Join, TypeOK, TablesGo
  <2> QED BY <2>2, TablesGoOn
<1>7. CASE UNCHANGED vars
  BY <1>7, TablesGoOn DEF vars, GateInv, TypeOK, TablesGo
<1> QED BY <1>1, <1>2, <1>3, <1>4, <1>5, <1>6, <1>7 DEF Next

LEMMA GateInvStarts == Init => GateInv
<1> SUFFICES ASSUME Init PROVE GateInv
  OBVIOUS
<1>1. TypeOK
  <2>1. BufferLimit \in Nat
    BY GateAssumption DEF GateAssumption
  <2> QED BY <2>1 DEF Init, TypeOK, UpdateStates
<1>2. UpdatesFit
  BY DEF Init, UpdatesFit, Fits, None, Late
<1> QED BY <1>1, <1>2 DEF Init, GateInv, ArrivedFirst, StoredIsTrusted

(* The types of the gate, for any users, messages, kinds and faults.       *)
THEOREM GateTypeCorrect == Spec => []TypeOK
<1>1. GateInv => TypeOK
  BY DEF GateInv
<1> QED BY <1>1, GateInvStarts, GateInvKept, PTL DEF Spec

(* Only what trusted users the lists admit have written is ever stored.    *)
THEOREM OnlyTrustedIsStored == Spec => []StoredIsTrusted
<1>1. GateInv => StoredIsTrusted
  BY DEF GateInv
<1> QED BY <1>1, GateInvStarts, GateInvKept, PTL DEF Spec

(* No captcha is offered to a user who is banned.                          *)
THEOREM NobodyBannedIsAsked == Spec => []AskedIsNotBanned
<1>1. GateInv => AskedIsNotBanned
  BY DEF GateInv, UpdatesFit, Fits, AskedIsNotBanned, At, User
<1> QED BY <1>1, GateInvStarts, GateInvKept, PTL DEF Spec

(* A stranger's message is gone when its update has been handled, or an    *)
(* error was logged.                                                       *)
THEOREM StrangersAreHandled == Spec => []HandledIsSilenced
<1>1. ASSUME GateInv PROVE HandledIsSilenced
  <2>1. inChat \subseteq Messages
    BY <1>1 DEF GateInv, TypeOK
  <2> QED BY <1>1, <2>1 DEF GateInv, UpdatesFit, Fits, Late, HandledIsSilenced,
             ByStranger, Strange, Ignored, Trusted, At, User
<1> QED BY <1>1, GateInvStarts, GateInvKept, PTL DEF Spec
=============================================================================
