-------------------------------- MODULE Gate --------------------------------
(***************************************************************************)
(* What happens to an update between Telegram and the database: the buffer *)
(* of updates with its two readers, and the chain of middlewares every     *)
(* handler is wrapped in.  Telegram's chats, the tables of verified and    *)
(* banned users and the captcha are seen from here as sets; VerifiedStore  *)
(* and CaptchaFlow have their insides.                                     *)
(*                                                                         *)
(* Every update is handled in a goroutine of its own, which is what pc is  *)
(* kept for; each step is one wait for the database or for Telegram.       *)
(***************************************************************************)
EXTENDS Naturals, Sequences, FiniteSets

CONSTANTS
  Messages,    \* updates, and the messages they are about
  Users,
  NoUser,      \* the sender of an update that has not come yet
  Admins,      \* creators and administrators of the chat
  Whitelist,   \* config: users who may, nobody for everybody
  Blacklist,   \* config: users who may not
  Kinds,       \* kinds of updates
  Faults,      \* what may go wrong
  Others,      \* what others do: "api" verifies users, "time" ends bans
  IgnoreVia,   \* config: messages sent by way of an inline bot are ignored
  BufferLimit  \* capacity of the buffer of updates

ASSUME GateAssumption ==
  /\ NoUser \notin Users
  /\ Admins \subseteq Users /\ Whitelist \subseteq Users /\ Blacklist \subseteq Users
  /\ Kinds \subseteq {"message", "story", "via", "press", "outside"}
  /\ IgnoreVia \in BOOLEAN
  /\ Faults \subseteq {"read", "write", "telegram"}
  /\ Others \subseteq {"api", "time"}
  /\ BufferLimit \in Nat \ {0}

VARIABLES
  buffer,     \* bot.Updates
  update,     \* every update: its sender and kind, how far it has come, and
              \* whether an error was logged on the way
  inChat,     \* messages in the chat
  stored,     \* messages given to the database
  verified,   \* users in the table verified
  banned,     \* users in the table banned whose ban has not run out
  kicked,     \* users the bot has banned from the chat
  asked,      \* users who have a captcha to solve
  vouched,    \* users whom a transaction has verified or was to verify: the
              \* cache may say yes of them, even if the transaction failed
  firm        \* users verified from the start: no query ever missed them

vars == <<buffer, update, inChat, stored, verified, banned, kicked, asked, vouched, firm>>
tables == <<verified, banned, vouched, firm>>

(* "outside" is a message verifyUserMiddleware takes no interest in: of no *)
(* sender, of a bot, of the chat itself, in a private chat or in one that  *)
(* is not allowed.  "press" is a callback, and "via" a message that was    *)
(* sent by way of an inline bot.                                           *)
None == [pc |-> "none", user |-> NoUser, kind |-> "none", logged |-> FALSE]

Waiting == {"verify", "member", "promote", "delete", "ban_check", "kick", "captcha", "store"}
Over == {"done", "dropped"}

UpdateStates ==
  {None} \cup [pc : {"buffered"} \cup Waiting \cup Over, user : Users, kind : Kinds,
                logged : BOOLEAN]

At(m, pc) == update[m].pc = pc
User(m) == update[m].user
Goto(m, pc) == update' = [update EXCEPT ![m].pc = pc]

(* mw.IgnoreVia, before every other middleware that reads the message.     *)
Ignored(m) == IgnoreVia /\ update[m].kind = "via"

(* handleError, on a fault of the given kind.                              *)
Fail(fault, m, pc) ==
  /\ fault \in Faults
  /\ update' = [update EXCEPT ![m].pc = pc, ![m].logged = TRUE]

Listed(u) == (Whitelist = {} \/ u \in Whitelist) /\ u \notin Blacklist

-----------------------------------------------------------------------------
Init ==
  /\ buffer = <<>>
  /\ update = [m \in Messages |-> None]
  /\ inChat = {} /\ stored = {}
  /\ verified \in SUBSET Users
  /\ banned \in SUBSET (Users \ verified)
  /\ kicked = {} /\ asked = {}
  /\ vouched = verified /\ firm = verified

(* Mutant: the buffer has no limit.                                        *)
ArriveUnbounded(m, u, kind) ==
  /\ update[m] = None
  /\ buffer' = Append(buffer, m)
  /\ update' = [update EXCEPT ![m] = [pc |-> "buffered", user |-> u, kind |-> kind,
                                          logged |-> FALSE]]
  /\ inChat' = IF kind = "press" THEN inChat ELSE inChat \cup {m}
  /\ UNCHANGED <<stored, tables, kicked, asked>>

(* The poller puts an update in the buffer.  A press is about the captcha's*)
(* photo, which is not the presser's message.                              *)
Arrive(m, u, kind) ==
  /\ update[m] = None
  /\ Len(buffer) < BufferLimit
  /\ buffer' = Append(buffer, m)
  /\ update' = [update EXCEPT ![m] = [pc |-> "buffered", user |-> u, kind |-> kind,
                                          logged |-> FALSE]]
  /\ inChat' = IF kind = "press" THEN inChat ELSE inChat \cup {m}
  /\ UNCHANGED <<stored, tables, kicked, asked>>

Take(m) == buffer # <<>> /\ m = Head(buffer) /\ buffer' = Tail(buffer)

(* Bot.Start: telebot has no handler for stories.                          *)
StartTakes(m) ==
  /\ Take(m)
  /\ Goto(m, IF update[m].kind = "story" THEN "dropped" ELSE "verify")
  /\ UNCHANGED <<inChat, stored, tables, kicked, asked>>

(* The goroutine started in New reads the same buffer and handles stories, *)
(* one after the other, and nothing else.                                  *)
StoryTakes(m) ==
  /\ Take(m)
  /\ \A n \in Messages : update[n].kind = "story" => update[n].pc \notin Waiting
  /\ Goto(m, IF update[m].kind = "story" THEN "verify" ELSE "dropped")
  /\ UNCHANGED <<inChat, stored, tables, kicked, asked>>

(* Mutant: a query that fails lets the message pass.                       *)
VerifyFailsOpen(m) ==
  /\ At(m, "verify")
  /\ CASE update[m].kind = "press" -> Goto(m, "store")
       [] update[m].kind = "outside" \/ Ignored(m) -> Goto(m, "done")
       [] OTHER -> \/ User(m) \in vouched /\ Goto(m, "store")
                   \/ User(m) \notin firm /\ Goto(m, "member")
                   \/ Fail("read", m, "store")
  /\ UNCHANGED <<buffer, inChat, stored, tables, kicked, asked>>

(* verifyUserMiddleware, up to the cached query.  The cache sits before the*)
(* table: VerifyUser sets it to true before its transaction, which may     *)
(* fail, and a false it took from the table outlives VerifyUsers.  Seen    *)
(* from here both answers are open for anybody but a user nobody began to  *)
(* verify and one who was verified from the start; VerifiedStore has what  *)
(* the cache really answers, and AdmissionProofs that it is one of these.  *)
Verify(m) ==
  /\ At(m, "verify")
  /\ CASE update[m].kind = "press" -> Goto(m, "store")
       [] update[m].kind = "outside" \/ Ignored(m) -> Goto(m, "done")
       [] OTHER -> \/ User(m) \in vouched /\ Goto(m, "store")
                   \/ User(m) \notin firm /\ Goto(m, "member")
                   \/ Fail("read", m, "done")
  /\ UNCHANGED <<buffer, inChat, stored, tables, kicked, asked>>

(* It asks Telegram about the sender's role,                               *)
AskRole(m) ==
  /\ At(m, "member")
  /\ \/ Goto(m, IF User(m) \in Admins THEN "promote" ELSE "delete")
     \/ Fail("telegram", m, "done")
  /\ UNCHANGED <<buffer, inChat, stored, tables, kicked, asked>>

(* VerifyUser and VerifyUsers: users join one table and leave the other.   *)
Join(ids) == verified' = verified \cup ids /\ banned' = banned \ ids

(* makes an administrator a verified user,                                 *)
VerifyAdmin(m) ==
  /\ At(m, "promote")
  /\ vouched' = vouched \cup {User(m)}
  /\ \/ Join({User(m)}) /\ Goto(m, "store")
     \/ Fail("write", m, "store") /\ UNCHANGED <<verified, banned>>
  /\ UNCHANGED <<buffer, inChat, stored, kicked, asked, firm>>

(* Mutant: the message is not deleted.                                     *)
DeleteForgotten(m) ==
  /\ At(m, "delete")
  /\ Goto(m, "ban_check")
  /\ UNCHANGED <<buffer, inChat, stored, tables, kicked, asked>>

(* and deletes the message of anybody else.                                *)
DeleteMessage(m) ==
  /\ At(m, "delete")
  /\ \/ inChat' = inChat \ {m} /\ Goto(m, "ban_check")
     \/ Fail("telegram", m, "ban_check") /\ UNCHANGED inChat
  /\ UNCHANGED <<buffer, stored, tables, kicked, asked>>

(* Mutant: a query that fails is taken for "not banned".                   *)
CheckBanFailsOpen(m) ==
  /\ At(m, "ban_check")
  /\ \/ Goto(m, IF User(m) \in banned THEN "kick" ELSE "captcha")
     \/ Fail("read", m, "captcha")
  /\ UNCHANGED <<buffer, inChat, stored, tables, kicked, asked>>

(* verifyUserWithLocalDB; IsBannedUser takes no ban that has run out for   *)
(* one.                                                                    *)
CheckBan(m) ==
  /\ At(m, "ban_check")
  /\ \/ Goto(m, IF User(m) \in banned THEN "kick" ELSE "captcha")
     \/ Fail("read", m, "done")
  /\ UNCHANGED <<buffer, inChat, stored, tables, kicked, asked>>

(* The user is banned from the chat with all of their messages.            *)
Kick(m) ==
  /\ At(m, "kick")
  /\ \/ /\ kicked' = kicked \cup {User(m)}
        /\ inChat' = {n \in inChat : User(n) # User(m)}
        /\ Goto(m, "done")
     \/ Fail("telegram", m, "done") /\ UNCHANGED <<kicked, inChat>>
  /\ UNCHANGED <<buffer, stored, tables, asked>>

(* verifyUserWithCaptcha: nothing passes, and the user gets a captcha or   *)
(* has one.                                                                *)
AskToSolve(m) ==
  /\ At(m, "captcha")
  /\ asked' \in {asked, asked \cup {User(m)}}
  /\ Goto(m, "done")
  /\ UNCHANGED <<buffer, inChat, stored, tables, kicked>>

(* The lists of the configuration, and storeMessagesMiddleware.            *)
Store(m) ==
  /\ At(m, "store")
  /\ stored' = IF Listed(User(m)) THEN stored \cup {m} ELSE stored
  /\ Goto(m, "done")
  /\ UNCHANGED <<buffer, inChat, tables, kicked, asked>>

(* Others change the tables: the callback of the captcha, the admin API,   *)
(* and the time at which a ban ends.  The callback goes on when VerifyUser *)
(* fails, and the captcha is deleted or, if that fails too, stays.         *)
SolveCaptcha(u) ==
  /\ u \in asked
  /\ vouched' = vouched \cup {u}
  /\ Join({u}) \/ ("write" \in Faults /\ UNCHANGED <<verified, banned>>)
  /\ asked' = asked \ {u} \/ ("write" \in Faults /\ UNCHANGED asked)
  /\ UNCHANGED <<buffer, update, inChat, stored, kicked, firm>>

VerifyUsers(ids) ==
  /\ "api" \in Others
  /\ vouched' = vouched \cup ids
  /\ Join(ids)
  /\ UNCHANGED <<buffer, update, inChat, stored, kicked, asked, firm>>

BanEnds(u) ==
  /\ "time" \in Others
  /\ u \in banned
  /\ banned' = banned \ {u}
  /\ UNCHANGED <<buffer, update, inChat, stored, verified, vouched, firm, kicked, asked>>

Handle(m) ==
  \/ Verify(m) \/ AskRole(m) \/ VerifyAdmin(m) \/ DeleteMessage(m)
  \/ CheckBan(m) \/ Kick(m) \/ AskToSolve(m) \/ Store(m)

Next ==
  \/ \E m \in Messages :
       \/ \E u \in Users, kind \in Kinds : Arrive(m, u, kind)
       \/ StartTakes(m) \/ StoryTakes(m)
       \/ Handle(m)
  \/ \E u \in Users : SolveCaptcha(u) \/ BanEnds(u)
  \/ \E ids \in SUBSET Users \ {{}} : VerifyUsers(ids)

Spec == Init /\ [][Next]_vars
-----------------------------------------------------------------------------
(* Every variable has its type.                                            *)
TypeOK ==
  /\ buffer \in Seq(Messages) /\ Len(buffer) <= BufferLimit
  /\ update \in [Messages -> UpdateStates]
  /\ inChat \subseteq Messages /\ stored \subseteq Messages
  /\ verified \subseteq Users /\ banned \subseteq Users
  /\ kicked \subseteq Users /\ asked \subseteq Users
  /\ vouched \subseteq Users /\ firm \subseteq vouched

(* Somebody spoke for the user: a role in the chat, a solved captcha, the  *)
(* API or the table.                                                       *)
Trusted(u) == u \in vouched \cup Admins

(* A message is stored only for a user the lists admit, and only for one   *)
(* somebody spoke for, however the queries fail and whatever the cache     *)
(* says.  It does not claim that the user is in the table: the transaction *)
(* that was to put them there may have failed (storage.go:473, 487).       *)
StoredIsTrusted ==
  \A m \in stored :
    Listed(User(m)) /\ (update[m].kind = "press" \/ Trusted(User(m)))

(* A captcha goes to nobody who is banned: solving it would lift the ban.  *)
AskedIsNotBanned == \A m \in Messages : At(m, "captcha") => User(m) \notin banned

ByStranger(m) ==
  update[m].kind \in {"message", "story", "via"} /\ ~Trusted(User(m)) /\ ~Ignored(m)

(* When its update has been handled, the message of a user nobody spoke    *)
(* for is gone from the chat, or an error was logged.  An update that is   *)
(* dropped from the buffer is not handled, and one that IgnoreVia gives up *)
(* is none of a stranger's here (telegram.go:50).                          *)
HandledIsSilenced ==
  \A m \in inChat : ByStranger(m) /\ At(m, "done") => update[m].logged

(* "Delete the current message, because user is not verified"              *)
(* (middlewares.go:189): the same of every update that was received.       *)
StrangersAreSilenced ==
  \A m \in inChat : ByStranger(m) => update[m].pc \notin Over

(* "Ban the user again if they are already banned" (middlewares.go:232).   *)
KickedIsBanned == [][kicked' \ kicked \subseteq banned]_vars
=============================================================================
