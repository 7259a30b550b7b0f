--------------------------- MODULE VerifiedStore ---------------------------
(***************************************************************************)
(* Who is verified and who is banned: the part of storage.Storage that the *)
(* Telegram middlewares, the captcha callback and the admin API share.     *)
(* Two tables, verified and banned, and in front of the first              *)
(* one a cache entry per user holding true or false.                       *)
(*                                                                         *)
(* telebot runs every update in a goroutine of its own and net/http every  *)
(* request, so the calls of different goroutines interleave wherever one   *)
(* of them waits for the database.  A transaction is one step here; module *)
(* Transactions says with which databases that is so.                      *)
(***************************************************************************)
EXTENDS Ristretto, FiniteSets

CONSTANTS
  Users,         \* Telegram users
  Callers,       \* goroutines that may be inside a call of Storage
  NoUser,        \* the user of a goroutine that is in no call
  Calls,         \* the methods of Storage the goroutines call
  PendingLimit   \* capacity of the cache's write buffer

Methods == {"IsVerifiedUser", "VerifyUser", "VerifyUsers",
            "BanUser", "IsBannedUser"}

ASSUME StoreAssumption ==
  /\ NoUser \notin Users
  /\ Calls \subseteq Methods
  /\ PendingLimit \in Nat \ {0}

VARIABLES
  cache,      \* the cell of the key "_verified#<user>" of every user
  verified,   \* users in the table verified
  banned,     \* the user's row in the table banned: none, in force or run out
  call,       \* what every goroutine is doing inside Storage
  revoked     \* history: users BanUser was called for since the start

vars == <<cache, verified, banned, call, revoked>>

Answers == {"yes", "no"}
BanStates == {"none", "active", "expired"}

(* pc is the statement the goroutine is about to execute:                  *)
(*   read   IsVerifiedUser missed the cache, its query comes next          *)
(*   fill   the query has answered, the answer goes to the cache next      *)
(*   write  VerifyUser has set the cache, its transaction comes next       *)
(*   undo   the transaction failed, the cache entry is deleted next        *)
(*   drop   IsBannedUser read a ban that has run out, it deletes it next   *)
Idle == [pc |-> "idle", user |-> NoUser, answer |-> "no"]

CallStates ==
  {Idle} \cup [pc     : {"read", "fill", "write", "undo", "drop"},
               user   : Users,
               answer : Answers]

Start(c, u, pc) ==
  /\ call[c].pc = "idle"
  /\ call' = [call EXCEPT ![c] = [pc |-> pc, user |-> u, answer |-> "no"]]

Return(c) == call' = [call EXCEPT ![c] = Idle]

Set(u, answer) ==
  \E cell \in SetOutcomes(cache[u], answer, PendingLimit) :
    cache' = [cache EXCEPT ![u] = cell]

-----------------------------------------------------------------------------
(* The tables are what the last run of the program left.                   *)
Init ==
  /\ cache = [u \in Users |-> EmptyCell]
  /\ verified \in SUBSET Users
  /\ banned \in [Users -> BanStates]
  /\ \A u \in verified : banned[u] = "none"
  /\ call = [c \in Callers |-> Idle]
  /\ revoked = {}

(* IsVerifiedUser: a hit answers at once and changes nothing.              *)
IsVerifiedUser(c, u) ==
  /\ "IsVerifiedUser" \in Calls
  /\ ~Hit(cache[u])
  /\ Start(c, u, "read")
  /\ UNCHANGED <<cache, verified, banned, revoked>>

(* Mutant: a failed query is cached like an answer.                        *)
ReadVerifiedCachesErrors(c) ==
  /\ call[c].pc = "read"
  /\ LET answer == IF call[c].user \in verified THEN "yes" ELSE "no"
     IN  call' \in {[call EXCEPT ![c].pc = "fill", ![c].answer = a] :
                      a \in {answer, "error"}}
  /\ UNCHANGED <<cache, verified, banned, revoked>>

(* Mutant: a failed query answers "no", like one that finds nothing.       *)
ReadVerifiedTakesErrorsForNo(c) ==
  /\ call[c].pc = "read"
  /\ LET answer == IF call[c].user \in verified THEN "yes" ELSE "no"
     IN  call' \in {[call EXCEPT ![c].pc = "fill", ![c].answer = a] :
                      a \in {answer, "no"}}
  /\ UNCHANGED <<cache, verified, banned, revoked>>

ReadVerified(c) ==
  /\ call[c].pc = "read"
  /\ LET answer == IF call[c].user \in verified THEN "yes" ELSE "no"
     IN  \/ call' = [call EXCEPT ![c].pc = "fill", ![c].answer = answer]
         \/ Return(c)                                \* the query failed
  /\ UNCHANGED <<cache, verified, banned, revoked>>

(* Mutant: whatever the query has found, "true" is cached.                 *)
FillVerifiedTrue(c) ==
  /\ call[c].pc = "fill"
  /\ Set(call[c].user, "yes")
  /\ Return(c)
  /\ UNCHANGED <<verified, banned, revoked>>

FillVerified(c) ==
  /\ call[c].pc = "fill"
  /\ Set(call[c].user, call[c].answer)
  /\ Return(c)
  /\ UNCHANGED <<verified, banned, revoked>>

(* VerifyUser: the cache first, then the transaction; if that fails the    *)
(* cache entry is deleted.                                                 *)
VerifyUser(c, u) ==
  /\ "VerifyUser" \in Calls
  /\ Set(u, "yes")
  /\ Start(c, u, "write")
  /\ UNCHANGED <<verified, banned, revoked>>

(* Mutant: the transaction leaves the row of the table banned.             *)
CommitVerifyUserKeepsBan(c) ==
  /\ call[c].pc = "write"
  /\ verified' = verified \cup {call[c].user}
  /\ Return(c)
  /\ UNCHANGED <<cache, banned, revoked>>

CommitVerifyUser(c) ==
  /\ call[c].pc = "write"
  /\ banned' = [banned EXCEPT ![call[c].user] = "none"]
  /\ verified' = verified \cup {call[c].user}
  /\ Return(c)
  /\ UNCHANGED <<cache, revoked>>

(* Mutant: a failed transaction returns without cleaning up.               *)
FailVerifyUserReturns(c) ==
  /\ call[c].pc = "write"
  /\ Return(c)
  /\ UNCHANGED <<cache, verified, banned, revoked>>

FailVerifyUser(c) ==
  /\ call[c].pc = "write"
  /\ call' = [call EXCEPT ![c].pc = "undo"]
  /\ UNCHANGED <<cache, verified, banned, revoked>>

(* Mutant: the entry goes, but nothing is queued behind a buffered one.    *)
UndoVerifyUserLeavesBuffer(c) ==
  /\ call[c].pc = "undo"
  /\ cache' = [cache EXCEPT ![call[c].user] = Evicted(@)]
  /\ Return(c)
  /\ UNCHANGED <<verified, banned, revoked>>

UndoVerifyUser(c) ==
  /\ call[c].pc = "undo"
  /\ CanDelete(cache[call[c].user], PendingLimit)
  /\ cache' = [cache EXCEPT ![call[c].user] = Deleted(@)]
  /\ Return(c)
  /\ UNCHANGED <<verified, banned, revoked>>

(* VerifyUsers: one transaction for all the given users, which either      *)
(* happens or leaves nothing behind; the cache is not told.                *)
VerifyUsers(c, ids) ==
  /\ "VerifyUsers" \in Calls
  /\ call[c].pc = "idle"
  /\ banned' = [u \in Users |-> IF u \in ids THEN "none" ELSE banned[u]]
  /\ verified' = verified \cup ids
  /\ UNCHANGED <<cache, call, revoked>>

(* BanUser: the mirror image of CommitVerifyUser; the cache is not told.   *)
BanUser(c, u) ==
  /\ "BanUser" \in Calls
  /\ call[c].pc = "idle"
  /\ verified' = verified \ {u}
  /\ banned' = [banned EXCEPT ![u] = "active"]
  /\ revoked' = revoked \cup {u}
  /\ UNCHANGED <<cache, call>>

(* Mutant: any ban that has an end is deleted, whether it is past or not.  *)
IsBannedUserDropsAny(c, u) ==
  /\ "IsBannedUser" \in Calls
  /\ banned[u] # "none"
  /\ Start(c, u, "drop")
  /\ UNCHANGED <<cache, verified, banned, revoked>>

(* IsBannedUser: only a ban that has run out leads to a write, and that    *)
(* one deletes the user's row whatever it holds by then.                   *)
IsBannedUser(c, u) ==
  /\ "IsBannedUser" \in Calls
  /\ banned[u] = "expired"
  /\ Start(c, u, "drop")
  /\ UNCHANGED <<cache, verified, banned, revoked>>

DropBan(c) ==
  /\ call[c].pc = "drop"
  /\ banned' \in {banned, [banned EXCEPT ![call[c].user] = "none"]}
  /\ Return(c)
  /\ UNCHANGED <<cache, verified, revoked>>

(* The time of a ban passes its expires_at.                                *)
BanExpires(u) ==
  /\ banned[u] = "active"
  /\ banned' = [banned EXCEPT ![u] = "expired"]
  /\ UNCHANGED <<cache, verified, call, revoked>>

(* The cache's own goroutine.                                              *)
Drain(u) ==
  /\ cache[u].buf # <<>>
  /\ \E cell \in DrainOutcomes(cache[u]) :
       cache' = [cache EXCEPT ![u] = cell]
  /\ UNCHANGED <<verified, banned, call, revoked>>

Evict(u) ==
  /\ Hit(cache[u])
  /\ cache' = [cache EXCEPT ![u] = Evicted(@)]
  /\ UNCHANGED <<verified, banned, call, revoked>>

(* ClearCache: the values and whatever is still buffered go.               *)
ClearCache ==
  /\ cache' = [u \in Users |-> EmptyCell]
  /\ UNCHANGED <<verified, banned, call, revoked>>

(* The process dies and starts again: the tables are all that is left.     *)
Restart ==
  /\ cache' = [u \in Users |-> EmptyCell]
  /\ call' = [c \in Callers |-> Idle]
  /\ revoked' = {}
  /\ UNCHANGED <<verified, banned>>

Continue(c) ==
  \/ ReadVerified(c) \/ FillVerified(c)
  \/ CommitVerifyUser(c) \/ FailVerifyUser(c)
  \/ DropBan(c)

Next ==
  \/ \E c \in Callers, u \in Users :
       \/ IsVerifiedUser(c, u) \/ VerifyUser(c, u)
       \/ BanUser(c, u) \/ IsBannedUser(c, u)
  \/ \E c \in Callers : Continue(c) \/ UndoVerifyUser(c)
  \/ \E c \in Callers, ids \in SUBSET Users \ {{}} : VerifyUsers(c, ids)
  \/ \E u \in Users : BanExpires(u) \/ Drain(u) \/ Evict(u)
  \/ ClearCache
  \/ Restart

Spec == Init /\ [][Next]_vars

(* A call that has begun goes on, the cache's goroutine keeps taking from  *)
(* its buffer, and a sender blocked on a Go channel is served before later *)
(* senders.                                                                *)
Fairness ==
  /\ \A c \in Callers : WF_vars(Continue(c)) /\ SF_vars(UndoVerifyUser(c))
  /\ \A u \in Users : WF_vars(Drain(u))

FairSpec == Spec /\ Fairness
-----------------------------------------------------------------------------
(* Every variable has its type.                                            *)
TypeOK ==
  /\ cache \in [Users -> Cell(Answers)]
  /\ verified \subseteq Users
  /\ banned \in [Users -> BanStates]
  /\ call \in [Callers -> CallStates]
  /\ revoked \subseteq Users

(* A VerifyUser of the user has set the cache and not yet returned.        *)
InFlight(u) == \E c \in Callers : call[c].user = u /\ call[c].pc \in {"write", "undo"}

DeleteAfter(u, i) ==
  \E j \in DOMAIN cache[u].buf : j > i /\ cache[u].buf[j] = Delete

Known(u) == u \in verified \cup revoked

Backed(u, i) == Known(u) \/ InFlight(u) \/ DeleteAfter(u, i)

(* The cache never lets a user in for good who is in no table: an entry    *)
(* "true" stands for a row of verified, or belongs to a VerifyUser         *)
(* that is still running, or its removal is already queued.  This is what  *)
(* the cacheDel of a failed VerifyUser is there for, with several calls    *)
(* for the same user failing and succeeding at once and the cache applying *)
(* writes late.  The one exception is a user BanUser has taken the row     *)
(* from: it does not tell the cache (see BannedIsNotRecognised).           *)
YesIsBacked == \A u \in Users : cache[u].val = "yes" => Backed(u, 0)

(* The inductive form: a "true" still buffered, at any place, is backed    *)
(* too, if need be by a removal queued behind it, and a goroutine about to *)
(* cache "true" has read a row that is still there.                        *)
BufferIsBacked ==
  \A u \in Users : \A i \in DOMAIN cache[u].buf :
    cache[u].buf[i] = "yes" => Backed(u, i)

AnswerIsBacked ==
  \A c \in Callers :
    call[c].pc = "fill" /\ call[c].answer = "yes" => Known(call[c].user)

CacheInv == YesIsBacked /\ BufferIsBacked /\ AnswerIsBacked

(* Verified and banned exclude each other whatever the order in which the  *)
(* bot verifies, the API verifies, bans are given and bans run out.        *)
Exclusive == \A u \in verified : banned[u] = "none"

(* What happens to the two tables here is what Tables allows, which is     *)
(* what the transactions of module Transactions amount to.                 *)
T == INSTANCE Tables

ImplementsTables == T!Spec

(* A ban in force is lifted only by verifying the user: IsBannedUser       *)
(* deletes the record "If the ban has expired" (storage.go:458).           *)
ActiveBanStands ==
  [][\A u \in Users :
       banned[u] = "active" /\ banned'[u] = "none" => u \in verified']_vars

(* Nothing concerning the user is under way.                               *)
Settled(u) == cache[u].buf = <<>> /\ \A c \in Callers : call[c].user # u

(* Once "Set the user as verified" (storage.go:470) and "verify the        *)
(* multiple users" (storage.go:496) are done, IsVerifiedUser does not      *)
(* answer no from the cache.                                               *)
VerifiedIsRecognised ==
  \A u \in verified : Settled(u) => cache[u].val # "no"

(* BanUser is to "Remove the user from the verified list" (storage.go:533):*)
(* once it is done, IsVerifiedUser does not answer yes from the cache.     *)
BannedIsNotRecognised ==
  \A u \in Users : banned[u] # "none" /\ Settled(u) => cache[u].val # "yes"

(* When a verification could not be stored, the "true" it left in the      *)
(* cache goes away: a user must not pass the gate until the next restart   *)
(* on the strength of a failed write.                                      *)
FalseYesIsForgotten ==
  \A u \in Users :
    cache[u].val = "yes" /\ ~Known(u) ~> cache[u].val # "yes" \/ Known(u)
=============================================================================
