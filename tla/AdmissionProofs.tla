-------------------------- MODULE AdmissionProofs --------------------------
(***************************************************************************)
(* Proofs about VerifiedStore and about Admission, which extends it: no    *)
(* user is both verified and banned, a cached "yes" is always backed, and, *)
(* whatever the interleaving of handlers, cache, API and restarts, only    *)
(* messages of users somebody was right to verify are stored, and no       *)
(* message of a user who was verified when the program started is deleted. *)
(***************************************************************************)
EXTENDS Admission, RistrettoProofs

USE DEF Methods, Answers, BanStates, Absent, Delete, Idle

-----------------------------------------------------------------------------
(* TypeOK is inductive.                                                    *)

(* A goroutine in a call works for a user and holds an answer.             *)
LEMMA CallHasUser ==
  ASSUME TypeOK, NEW c \in Callers, call[c].pc # "idle"
  PROVE  call[c].user \in Users /\ call[c].answer \in Answers
BY DEF TypeOK, CallStates

(* Setting an entry keeps the cache's type.                                *)
LEMMA SetKeepsType ==
  ASSUME TypeOK, NEW u \in Users, NEW a \in Answers, Set(u, a)
  PROVE  cache' \in [Users -> Cell(Answers)]
<1>1. PICK cell \in SetOutcomes(cache[u], a, PendingLimit) :
        cache' = [cache EXCEPT ![u] = cell]
  BY DEF Set
<1>2. cache[u] \in Cell(Answers) /\ PendingLimit \in Nat
  BY StoreAssumption DEF TypeOK
<1>3. cell \in Cell(Answers)
  BY <1>1, <1>2, SetCell
<1> QED BY <1>1, <1>3 DEF TypeOK

(* The types hold at the start,                                            *)
LEMMA TypeInit == Init => TypeOK
BY EmptyCellType DEF Init, TypeOK, CallStates

(* and every step keeps them.                                              *)
LEMMA TypeStep == TypeOK /\ [Next]_vars => TypeOK'
<1> SUFFICES ASSUME TypeOK, [Next]_vars PROVE TypeOK'
  OBVIOUS
<1>1. ASSUME NEW c \in Callers, NEW u \in Users, IsVerifiedUser(c, u) PROVE TypeOK'
  BY <1>1 DEF IsVerifiedUser, Start, TypeOK, CallStates
<1>2. ASSUME NEW c \in Callers, NEW u \in Users, VerifyUser(c, u) PROVE TypeOK'
  <2>1. cache' \in [Users -> Cell(Answers)]
    BY <1>2, SetKeepsType DEF VerifyUser
  <2> QED BY <1>2, <2>1 DEF VerifyUser, Start, TypeOK, CallStates
<1>3. ASSUME NEW c \in Callers, NEW u \in Users, BanUser(c, u) PROVE TypeOK'
  BY <1>3 DEF BanUser, TypeOK
<1>4. ASSUME NEW c \in Callers, NEW u \in Users, IsBannedUser(c, u) PROVE TypeOK'
  BY <1>4 DEF IsBannedUser, Start, TypeOK, CallStates
<1>5. ASSUME NEW c \in Callers, ReadVerified(c) PROVE TypeOK'
  BY <1>5 DEF ReadVerified, Return, TypeOK, CallStates
<1>6. ASSUME NEW c \in Callers, FillVerified(c) PROVE TypeOK'
  <2>1. call[c].answer \in Answers /\ call[c].user \in Users
    BY <1>6, CallHasUser DEF FillVerified
  <2>2. cache' \in [Users -> Cell(Answers)]
    BY <1>6, <2>1, SetKeepsType DEF FillVerified
  <2> QED BY <1>6, <2>2 DEF FillVerified, Return, TypeOK, CallStates
<1>7. ASSUME NEW c \in Callers, CommitVerifyUser(c) PROVE TypeOK'
  <2>1. call[c].user \in Users
    BY <1>7, CallHasUser DEF CommitVerifyUser
  <2> QED BY <1>7, <2>1 DEF CommitVerifyUser, Return, TypeOK, CallStates
<1>8. ASSUME NEW c \in Callers, FailVerifyUser(c) PROVE TypeOK'
  BY <1>8 DEF FailVerifyUser, TypeOK, CallStates
<1>9. ASSUME NEW c \in Callers, UndoVerifyUser(c) PROVE TypeOK'
  <2>1. call[c].user \in Users
    BY <1>9, CallHasUser DEF UndoVerifyUser
  <2>2. Deleted(cache[call[c].user]) \in Cell(Answers)
    BY <2>1, DeletedCell DEF TypeOK
  <2> QED BY <1>9, <2>1, <2>2 DEF UndoVerifyUser, Return, TypeOK, CallStates
<1>10. ASSUME NEW c \in Callers, DropBan(c) PROVE TypeOK'
  BY <1>10 DEF DropBan, Return, TypeOK, CallStates
<1>11. ASSUME NEW c \in Callers, NEW ids \in SUBSET Users, VerifyUsers(c, ids)
       PROVE  TypeOK'
  BY <1>11 DEF VerifyUsers, TypeOK
<1>12. ASSUME NEW u \in Users, BanExpires(u) PROVE TypeOK'
  BY <1>12 DEF BanExpires, TypeOK
<1>13. ASSUME NEW u \in Users, Drain(u) PROVE TypeOK'
  <2>1. PICK cell \in DrainOutcomes(cache[u]) :
          cache' = [cache EXCEPT ![u] = cell]
    BY <1>13 DEF Drain
  <2>2. cell \in Cell(Answers)
    BY <1>13, <2>1, DrainedCell DEF Drain, TypeOK
  <2> QED BY <1>13, <2>1, <2>2 DEF Drain, TypeOK
<1>14. ASSUME NEW u \in Users, Evict(u) PROVE TypeOK'
  BY <1>14, EvictedCell DEF Evict, TypeOK
<1>15. ASSUME ClearCache PROVE TypeOK'
  BY <1>15, EmptyCellType DEF ClearCache, TypeOK
<1>16. ASSUME Restart PROVE TypeOK'
  BY <1>16, EmptyCellType DEF Restart, TypeOK, CallStates
<1>17. CASE UNCHANGED vars
  BY <1>17 DEF vars, TypeOK
<1> QED
  BY <1>1, <1>2, <1>3, <1>4, <1>5, <1>6, <1>7, <1>8, <1>9, <1>10, <1>11,
     <1>12, <1>13, <1>14, <1>15, <1>16, <1>17 DEF Next, Continue

(* Every variable of every reachable state has its type.                   *)
THEOREM TypeCorrect == Spec => []TypeOK
BY TypeInit, TypeStep, PTL DEF Spec

-----------------------------------------------------------------------------
(* No interleaving of bot, API and bans leaves a user both verified and    *)
(* banned.                                                                 *)
THEOREM NeverBoth == Spec => []Exclusive
<1>1. Init => Exclusive
  BY DEF Init, Exclusive
<1>2. TypeOK /\ Exclusive /\ [Next]_vars => Exclusive'
  <2> SUFFICES ASSUME TypeOK, Exclusive, [Next]_vars PROVE Exclusive'
    OBVIOUS
  <2>1. CASE UNCHANGED <<verified, banned>>
    BY <2>1 DEF Exclusive
  <2>2. ASSUME NEW c \in Callers, NEW u \in Users, BanUser(c, u) PROVE Exclusive'
    BY <2>2 DEF BanUser, Exclusive, TypeOK
  <2>3. ASSUME NEW c \in Callers, CommitVerifyUser(c) PROVE Exclusive'
    BY <2>3, CallHasUser DEF CommitVerifyUser, Exclusive, TypeOK
  <2>4. ASSUME NEW c \in Callers, DropBan(c) PROVE Exclusive'
    BY <2>4 DEF DropBan, Exclusive, TypeOK
  <2>5. ASSUME NEW c \in Callers, NEW ids \in SUBSET Users, VerifyUsers(c, ids)
        PROVE  Exclusive'
    BY <2>5 DEF VerifyUsers, Exclusive, TypeOK
  <2>6. ASSUME NEW u \in Users, BanExpires(u) PROVE Exclusive'
    BY <2>6 DEF BanExpires, Exclusive, TypeOK
  <2> QED
    BY <2>1, <2>2, <2>3, <2>4, <2>5, <2>6
    DEF Next, Continue, IsVerifiedUser, VerifyUser, IsBannedUser, ReadVerified,
        FillVerified, FailVerifyUser, UndoVerifyUser, Drain, Evict, ClearCache,
        Restart, vars
<1> QED
  BY <1>1, <1>2, TypeCorrect, PTL DEF Spec

(* The calls and the cache around the two tables leave them to Tables.     *)
THEOREM StoreImplementsTables == Spec => ImplementsTables
<1>1. Init => T!Init
  BY DEF Init, T!Init, T!BanStates
<1>2. TypeOK /\ [Next]_vars => [T!Next]_<<verified, banned>>
  <2> SUFFICES ASSUME TypeOK, Next, ~UNCHANGED <<verified, banned>> PROVE T!Next
    BY DEF vars
  <2>1. ASSUME NEW c \in Callers, NEW u \in Users, BanUser(c, u) PROVE T!Next
    <3>1. T!Ban({u})
      BY <2>1 DEF BanUser, TypeOK, T!Ban
    <3> QED BY <3>1 DEF T!Next
  <2>2. ASSUME NEW c \in Callers, CommitVerifyUser(c) PROVE T!Next
    <3>1. call[c].user \in Users
      BY <2>2, CallHasUser DEF CommitVerifyUser
    <3>2. T!Verify({call[c].user})
      BY <2>2, <3>1 DEF CommitVerifyUser, TypeOK, T!Verify
    <3> QED BY <3>1, <3>2 DEF T!Next
  <2>3. ASSUME NEW c \in Callers, NEW ids \in SUBSET Users, VerifyUsers(c, ids)
        PROVE  T!Next
    BY <2>3 DEF VerifyUsers, T!Verify, T!Next
  <2>4. ASSUME NEW c \in Callers, DropBan(c) PROVE T!Next
    <3>1. call[c].user \in Users
      BY <2>4, CallHasUser DEF DropBan
    <3>2. T!Forget(call[c].user)
      BY <2>4 DEF DropBan, T!Forget
    <3> QED BY <3>1, <3>2 DEF T!Next
  <2>5. ASSUME NEW u \in Users, BanExpires(u) PROVE T!Next
    BY <2>5 DEF BanExpires, T!Next, T!Expire
  <2> QED
    BY <2>1, <2>2, <2>3, <2>4, <2>5
    DEF Next, Continue, IsVerifiedUser, VerifyUser, IsBannedUser, ReadVerified,
        FillVerified, FailVerifyUser, UndoVerifyUser, Drain, Evict, ClearCache,
        Restart
<1> QED
  BY <1>1, <1>2, TypeCorrect, PTL DEF Spec, ImplementsTables, T!Spec
-----------------------------------------------------------------------------
(* A cached "yes" is backed.  The argument is about one user at a time.  A *)
(* "yes" enters the cell in VerifyUser, which is then in flight, or in     *)
(* FillVerified, for a row that only BanUser removes, which leaves the     *)
(* user known; a call in flight ends in a row or in a Delete queued behind *)
(* every value in the cell; and the queue is served in order, so the       *)
(* Delete outlives whatever it is to remove.                               *)

(* A Delete behind place i stays behind it when more is queued.            *)
LEMMA AppendKeepsDelete ==
  ASSUME NEW V, NEW s \in Seq(V), NEW v \in V, NEW i \in Nat,
         NEW j \in DOMAIN s, j > i, s[j] = Delete
  PROVE  \E k \in DOMAIN Append(s, v) : k > i /\ Append(s, v)[k] = Delete
<1>1. j \in DOMAIN Append(s, v) /\ Append(s, v)[j] = s[j]
  OBVIOUS
<1> QED BY <1>1

(* Taking the head moves a Delete behind place i + 1 to behind place i.    *)
LEMMA TailKeepsDelete ==
  ASSUME NEW V, NEW s \in Seq(V), s # <<>>, NEW i \in Nat,
         NEW j \in DOMAIN s, j > i + 1, s[j] = Delete
  PROVE  \E k \in DOMAIN Tail(s) : k > i /\ Tail(s)[k] = Delete
<1>1. j - 1 \in DOMAIN Tail(s) /\ Tail(s)[j - 1] = s[j] /\ j - 1 > i
  OBVIOUS
<1> QED BY <1>1

(* What is backed stays backed by a step that leaves the user's buffer.    *)
LEMMA StillBacked ==
  ASSUME NEW u \in Users, NEW i \in Nat, Backed(u, i),
         cache'[u].buf = cache[u].buf,
         Known(u) => Known(u)',
         InFlight(u) => InFlight(u)' \/ Known(u)'
  PROVE  Backed(u, i)'
BY DEF Backed, DeleteAfter

(* A step that ends no call leaves the user's calls in flight.             *)
LEMMA StillInFlight ==
  ASSUME TypeOK, NEW c \in Callers, NEW u \in Users, InFlight(u),
         NEW new, call' = [call EXCEPT ![c] = new],
         call[c].pc \in {"write", "undo"} /\ call[c].user = u
           => new.pc \in {"write", "undo"} /\ new.user = u
  PROVE  InFlight(u)'
BY DEF InFlight, TypeOK

CellBacked(u) ==
  /\ cache[u].val = "yes" => Backed(u, 0)
  /\ \A i \in DOMAIN cache[u].buf : cache[u].buf[i] = "yes" => Backed(u, i)

(* What the steps of VerifiedStore keep for a user whose cell they leave.  *)
Kept(u) ==
  /\ Known(u) => Known(u)'
  /\ InFlight(u) => InFlight(u)' \/ Known(u)'

(* The parts of a user's cell have their types.                            *)
LEMMA CellType ==
  ASSUME TypeOK, NEW u \in Users
  PROVE  /\ cache[u] \in Cell(Answers)
         /\ cache[u].buf \in Seq(Answers \cup {Delete})
         /\ DOMAIN cache[u].buf \subseteq Nat
         /\ PendingLimit \in Nat
BY StoreAssumption DEF TypeOK, Cell

(* A cell nobody touches stays backed, if its user is kept.                *)
LEMMA SameCellBacked ==
  ASSUME TypeOK, NEW u \in Users, CellBacked(u), Kept(u), cache'[u] = cache[u]
  PROVE  CellBacked(u)'
<1>1. ASSUME NEW i \in Nat, Backed(u, i) PROVE Backed(u, i)'
  BY <1>1, StillBacked DEF Kept
<1> QED BY <1>1, CellType DEF CellBacked

(* An empty cell claims nothing.                                           *)
LEMMA EmptyCellBacked ==
  ASSUME NEW u \in Users, cache'[u] = EmptyCell
  PROVE  CellBacked(u)'
BY DEF CellBacked, EmptyCell

(* A Set of an answer that is backed leaves the cell backed.               *)
LEMMA SetCellBacked ==
  ASSUME TypeOK, NEW u \in Users, NEW a \in Answers, CellBacked(u), Kept(u),
         Set(u, a), a = "yes" => Known(u)' \/ InFlight(u)'
  PROVE  CellBacked(u)'
<1>1. PICK cell \in SetOutcomes(cache[u], a, PendingLimit) : cache'[u] = cell
  BY DEF Set, TypeOK
<1>2. \/ cell = cache[u]
      \/ cell.val = a /\ cell.buf = cache[u].buf
      \/ cell.val = cache[u].val /\ cell.buf = Append(cache[u].buf, a)
  <2>1. cache[u] \in Cell(Answers) /\ PendingLimit \in Nat
    BY CellType
  <2> QED BY <2>1 DEF SetOutcomes, Cell
<1>3. CASE cell = cache[u]
  BY <1>1, <1>3, SameCellBacked
<1>4. CASE cell.val = a /\ cell.buf = cache[u].buf
  <2>1. ASSUME NEW i \in Nat, Backed(u, i) PROVE Backed(u, i)'
    BY <1>1, <1>4, <2>1, StillBacked DEF Kept
  <2>2. a = "yes" => Backed(u, 0)'
    BY DEF Backed
  <2> QED BY <1>1, <1>4, <2>1, <2>2, CellType DEF CellBacked
<1>5. CASE cell.val = cache[u].val /\ cell.buf = Append(cache[u].buf, a)
  <2>1. ASSUME NEW i \in Nat, Backed(u, i) PROVE Backed(u, i)'
    <3>1. CASE DeleteAfter(u, i)
      <4>1. DeleteAfter(u, i)'
        BY <1>1, <1>5, <3>1, CellType, AppendKeepsDelete DEF DeleteAfter
      <4> QED BY <4>1 DEF Backed
    <3>2. CASE Known(u) \/ InFlight(u)
      BY <3>2 DEF Kept, Backed
    <3> QED BY <2>1, <3>1, <3>2 DEF Backed
  <2>2. ASSUME NEW i \in DOMAIN cell.buf, cell.buf[i] = "yes"
        PROVE  Backed(u, i)'
    <3>1. CASE i \in DOMAIN cache[u].buf
      <4>1. cache[u].buf[i] = "yes" /\ i \in Nat
        BY <1>5, <2>2, <3>1, CellType
      <4> QED BY <2>1, <3>1, <4>1 DEF CellBacked
    <3>2. CASE i \notin DOMAIN cache[u].buf
      <4>1. a = "yes"
        BY <1>5, <2>2, <3>2, CellType
      <4> QED BY <4>1 DEF Backed
    <3> QED BY <3>1, <3>2
  <2>3. cell.val = "yes" => Backed(u, 0)'
    BY <1>5, <2>1 DEF CellBacked
  <2> QED BY <1>1, <2>2, <2>3 DEF CellBacked
<1> QED BY <1>2, <1>3, <1>4, <1>5

(* The removal queued by Del backs everything buffered before it.          *)
LEMMA DeletedCellBacked ==
  ASSUME TypeOK, NEW u \in Users, cache'[u] = Deleted(cache[u])
  PROVE  CellBacked(u)'
<1> DEFINE s == cache[u].buf
<1>1. cache'[u].val = Absent /\ cache'[u].buf = Append(s, Delete)
  BY CellType, DeletedCell
<1>2. ASSUME NEW i \in DOMAIN cache'[u].buf, cache'[u].buf[i] = "yes"
      PROVE  DeleteAfter(u, i)'
  <2>1. i \in 1..Len(s)
    BY <1>1, <1>2, CellType
  <2>2. /\ Len(s) + 1 \in DOMAIN cache'[u].buf
        /\ cache'[u].buf[Len(s) + 1] = Delete
        /\ Len(s) + 1 > i
    BY <1>1, <2>1, CellType
  <2> QED BY <2>2 DEF DeleteAfter
<1> QED BY <1>1, <1>2 DEF CellBacked, Backed

(* Draining moves a claim from the buffer to the value with its backing.   *)
LEMMA DrainedCellBacked ==
  ASSUME TypeOK, NEW u \in Users, CellBacked(u), Drain(u)
  PROVE  CellBacked(u)'
<1> DEFINE s == cache[u].buf
<1>1. PICK cell \in DrainOutcomes(cache[u]) : cache'[u] = cell
  BY DEF Drain, TypeOK
<1>2. /\ cell.buf = Tail(s)
      /\ cell.val \in {cache[u].val, Absent, Head(s)}
      /\ Head(s) = Delete => cell.val = Absent
      /\ s # <<>>
  BY <1>1, CellType, DrainedCell DEF Drain
<1>3. InFlight(u)' = InFlight(u) /\ Known(u)' = Known(u)
  BY DEF Drain, InFlight, Known
<1>4. ASSUME NEW i \in Nat, Backed(u, i + 1) PROVE Backed(u, i)'
  <2>1. CASE DeleteAfter(u, i + 1)
    <3>1. PICK j \in DOMAIN s : j > i + 1 /\ s[j] = Delete
      BY <2>1 DEF DeleteAfter
    <3>2. s \in Seq(Answers \cup {Delete}) /\ s # <<>>
      BY <1>2, CellType
    <3>3. \E k \in DOMAIN Tail(s) : k > i /\ Tail(s)[k] = Delete
      BY <3>1, <3>2, TailKeepsDelete
    <3> QED BY <1>1, <1>2, <3>3 DEF Backed, DeleteAfter
  <2> QED BY <1>3, <1>4, <2>1 DEF Backed
<1>5. cell.val = "yes" => Backed(u, 0)'
  <2> SUFFICES ASSUME cell.val = "yes" PROVE Backed(u, 0)'
    OBVIOUS
  <2>1. Head(s) # Delete /\ s[1] = Head(s) /\ 1 \in DOMAIN s
    BY <1>2, CellType
  <2>2. Backed(u, 1)
    <3>1. CASE s[1] = "yes"
      BY <2>1, <3>1 DEF CellBacked
    <3>2. CASE cache[u].val = "yes"
      <4>1. Backed(u, 0)
        BY <3>2 DEF CellBacked
      <4>2. DeleteAfter(u, 0) => DeleteAfter(u, 1)
        BY <2>1, CellType DEF DeleteAfter
      <4> QED BY <4>1, <4>2 DEF Backed
    <3> QED BY <1>2, <2>1, <3>1, <3>2
  <2> QED BY <1>4, <2>2
<1>6. ASSUME NEW i \in DOMAIN cell.buf, cell.buf[i] = "yes" PROVE Backed(u, i)'
  <2>1. i \in Nat /\ i + 1 \in DOMAIN s /\ s[i + 1] = "yes"
    BY <1>2, <1>6, CellType
  <2> QED BY <1>4, <2>1 DEF CellBacked
<1> QED BY <1>1, <1>5, <1>6 DEF CellBacked

CellsBacked == \A u \in Users : CellBacked(u)

(* CacheInv, cell by cell.                                                 *)
LEMMA CacheInvIsCells == CacheInv <=> CellsBacked /\ AnswerIsBacked
BY DEF CacheInv, YesIsBacked, BufferIsBacked, CellsBacked, CellBacked

(* A step of one goroutine keeps every user's calls in flight but the one  *)
(* it ends.                                                                *)
LEMMA CallStep ==
  ASSUME TypeOK, NEW c \in Callers, NEW new \in CallStates,
         call' = [call EXCEPT ![c] = new],
         UNCHANGED revoked, verified \subseteq verified',
         call[c].pc \in {"write", "undo"}
           => \/ call[c].user \in verified'
              \/ new.pc \in {"write", "undo"} /\ new.user = call[c].user,
         NEW u \in Users
  PROVE  Kept(u)
<1>1. Known(u) => Known(u)'
  BY DEF Known
<1>2. CASE call[c].pc \in {"write", "undo"} /\ call[c].user = u /\ u \in verified'
  BY <1>1, <1>2 DEF Kept, Known
<1>3. CASE ~(call[c].pc \in {"write", "undo"} /\ call[c].user = u /\ u \in verified')
  BY <1>1, <1>3, StillInFlight DEF Kept
<1> QED BY <1>2, <1>3

(* Every step keeps CacheInv.                                              *)
LEMMA CacheStep == TypeOK /\ CacheInv /\ [Next]_vars => CacheInv'
<1> SUFFICES ASSUME TypeOK, CacheInv, [Next]_vars PROVE CacheInv'
  OBVIOUS
<1>0. CellsBacked /\ AnswerIsBacked /\ TypeOK'
  BY CacheInvIsCells, TypeStep
<1> SUFFICES CellsBacked' /\ AnswerIsBacked'
  BY DEF CacheInv, YesIsBacked, BufferIsBacked, CellsBacked, CellBacked
(* Steps that touch neither the cache nor the calls in flight.             *)
<1>1. ASSUME UNCHANGED cache, \A u \in Users : Kept(u) PROVE CellsBacked'
  BY <1>0, <1>1, SameCellBacked DEF CellsBacked
<1>2. ASSUME UNCHANGED <<call, cache>>,
             verified \cup revoked \subseteq verified' \cup revoked'
      PROVE  CellsBacked' /\ AnswerIsBacked'
  <2>1. \A u \in Users : Kept(u)
    BY <1>2 DEF Kept, InFlight, Known
  <2>2. AnswerIsBacked'
    BY <1>0, <1>2, CallHasUser DEF AnswerIsBacked, Known
  <2> QED BY <1>0, <1>1, <1>2, <2>1, <2>2
<1>3. ASSUME NEW c \in Callers, NEW u \in Users,
             IsVerifiedUser(c, u) \/ IsBannedUser(c, u)
      PROVE  CellsBacked' /\ AnswerIsBacked'
  <2>1. UNCHANGED <<cache, verified, revoked>> /\ \E pc \in {"read", "drop"} : Start(c, u, pc)
    BY <1>3 DEF IsVerifiedUser, IsBannedUser
  <2>2. PICK pc \in {"read", "drop"} : Start(c, u, pc)
    BY <2>1
  <2>3. \A v \in Users : Kept(v)
    BY <2>1, <2>2, CallStep DEF Start, CallStates
  <2>4. AnswerIsBacked'
    BY <1>0, <2>1, <2>2 DEF AnswerIsBacked, Start, Known, TypeOK
  <2> QED BY <1>1, <2>1, <2>3, <2>4
<1>4. ASSUME NEW c \in Callers, ReadVerified(c) PROVE CellsBacked' /\ AnswerIsBacked'
  <2>1. PICK new \in CallStates :
          /\ call' = [call EXCEPT ![c] = new]
          /\ new.pc = "fill" /\ new.answer = "yes" => Known(new.user)
    <3>1. call[c].user \in Users
      BY <1>4, CallHasUser DEF ReadVerified
    <3> QED BY <1>4, <3>1 DEF ReadVerified, Return, CallStates, TypeOK, Known
  <2>2. call[c].pc = "read" /\ UNCHANGED <<cache, verified, revoked>>
    BY <1>4 DEF ReadVerified
  <2>3. \A u \in Users : Kept(u)
    BY <2>1, <2>2, CallStep
  <2>4. AnswerIsBacked'
    BY <1>0, <2>1, <2>2 DEF AnswerIsBacked, Known, TypeOK
  <2> QED BY <1>1, <2>2, <2>3, <2>4
<1>5. ASSUME NEW c \in Callers, FillVerified(c) PROVE CellsBacked' /\ AnswerIsBacked'
  <2>1. call[c].user \in Users /\ call[c].answer \in Answers
    BY <1>5, CallHasUser DEF FillVerified
  <2>2. /\ Set(call[c].user, call[c].answer)
        /\ call' = [call EXCEPT ![c] = Idle]
        /\ call[c].pc = "fill" /\ UNCHANGED <<verified, revoked>>
    BY <1>5 DEF FillVerified, Return
  <2>3. \A u \in Users : Kept(u)
    BY <2>2, CallStep DEF CallStates
  <2>4. ASSUME NEW u \in Users, u = call[c].user, call[c].answer = "yes"
        PROVE  Known(u)'
    BY <1>0, <2>2, <2>4 DEF AnswerIsBacked, Known
  <2>5. ASSUME NEW u \in Users PROVE CellBacked(u)'
    <3>1. CASE u = call[c].user
      BY <1>0, <2>1, <2>2, <2>3, <2>4, <3>1, SetCellBacked DEF CellsBacked
    <3>2. CASE u # call[c].user
      <4>1. cache'[u] = cache[u]
        BY <2>1, <2>2, <3>2 DEF Set, TypeOK
      <4> QED BY <1>0, <2>3, <4>1, SameCellBacked DEF CellsBacked
    <3> QED BY <3>1, <3>2
  <2>6. AnswerIsBacked'
    BY <1>0, <2>2 DEF AnswerIsBacked, Known, TypeOK
  <2> QED BY <2>5, <2>6 DEF CellsBacked
<1>6. ASSUME NEW c \in Callers, NEW v \in Users, VerifyUser(c, v)
      PROVE  CellsBacked' /\ AnswerIsBacked'
  <2> DEFINE new == [pc |-> "write", user |-> v, answer |-> "no"]
  <2>1. /\ Set(v, "yes") /\ call' = [call EXCEPT ![c] = new]
        /\ call[c].pc = "idle" /\ UNCHANGED <<verified, revoked>> /\ new \in CallStates
    BY <1>6 DEF VerifyUser, Start, CallStates
  <2>2. \A u \in Users : Kept(u)
    BY <2>1, CallStep
  <2>3. InFlight(v)'
    BY <2>1 DEF InFlight, TypeOK
  <2>4. ASSUME NEW u \in Users PROVE CellBacked(u)'
    <3>1. CASE u = v
      BY <1>0, <2>1, <2>2, <2>3, <3>1, SetCellBacked DEF CellsBacked
    <3>2. CASE u # v
      <4>1. cache'[u] = cache[u]
        BY <2>1, <3>2 DEF Set, TypeOK
      <4> QED BY <1>0, <2>2, <4>1, SameCellBacked DEF CellsBacked
    <3> QED BY <3>1, <3>2
  <2>5. AnswerIsBacked'
    BY <1>0, <2>1 DEF AnswerIsBacked, Known, TypeOK
  <2> QED BY <2>4, <2>5 DEF CellsBacked
<1>7. ASSUME NEW c \in Callers, CommitVerifyUser(c)
      PROVE  CellsBacked' /\ AnswerIsBacked'
  <2>1. /\ call' = [call EXCEPT ![c] = Idle] /\ cache' = cache
        /\ verified' = verified \cup {call[c].user} /\ revoked' = revoked
    BY <1>7 DEF CommitVerifyUser, Return
  <2>2. \A u \in Users : Kept(u)
    BY <2>1, CallStep DEF CallStates
  <2>3. AnswerIsBacked'
    BY <1>0, <2>1 DEF AnswerIsBacked, Known, TypeOK
  <2> QED BY <1>1, <2>1, <2>2, <2>3
<1>8. ASSUME NEW c \in Callers, FailVerifyUser(c)
      PROVE  CellsBacked' /\ AnswerIsBacked'
  <2> DEFINE new == [call[c] EXCEPT !.pc = "undo"]
  <2>1. /\ call' = [call EXCEPT ![c] = new] /\ new.pc = "undo"
        /\ new.user = call[c].user /\ new \in CallStates
        /\ UNCHANGED <<cache, verified, revoked>>
    BY <1>8 DEF FailVerifyUser, TypeOK, CallStates
  <2>2. \A u \in Users : Kept(u)
    BY <2>1, CallStep
  <2>3. AnswerIsBacked'
    BY <1>0, <2>1 DEF AnswerIsBacked, Known, TypeOK
  <2> QED BY <1>1, <2>1, <2>2, <2>3
<1>9. ASSUME NEW c \in Callers, UndoVerifyUser(c)
      PROVE  CellsBacked' /\ AnswerIsBacked'
  <2> DEFINE v == call[c].user
  <2>1. v \in Users
    BY <1>9, CallHasUser DEF UndoVerifyUser
  <2>2. /\ cache' = [cache EXCEPT ![v] = Deleted(cache[v])]
        /\ call' = [call EXCEPT ![c] = Idle] /\ UNCHANGED <<verified, revoked>>
    BY <1>9 DEF UndoVerifyUser, Return
  <2>3. ASSUME NEW u \in Users PROVE CellBacked(u)'
    <3>1. CASE u = v
      <4>1. cache'[u] = Deleted(cache[u])
        BY <2>2, <3>1 DEF TypeOK
      <4> QED BY <4>1, DeletedCellBacked
    <3>2. CASE u # v
      <4>1. cache'[u] = cache[u]
        BY <2>2, <3>2 DEF TypeOK
      <4>2. Kept(u)
        BY <2>2, <3>2, StillInFlight DEF Kept, Known
      <4> QED BY <1>0, <4>1, <4>2, SameCellBacked DEF CellsBacked
    <3> QED BY <3>1, <3>2
  <2>4. AnswerIsBacked'
    BY <1>0, <2>2 DEF AnswerIsBacked, Known, TypeOK
  <2> QED BY <2>3, <2>4 DEF CellsBacked
<1>10. ASSUME NEW c \in Callers, DropBan(c) PROVE CellsBacked' /\ AnswerIsBacked'
  <2>1. call' = [call EXCEPT ![c] = Idle] /\ UNCHANGED <<cache, verified, revoked>>
    BY <1>10 DEF DropBan, Return
  <2>2. \A u \in Users : Kept(u)
    BY <1>10, <2>1, CallStep DEF CallStates, DropBan
  <2>3. AnswerIsBacked'
    BY <1>0, <2>1 DEF AnswerIsBacked, Known, TypeOK
  <2> QED BY <1>1, <2>1, <2>2, <2>3
<1>11. ASSUME NEW v \in Users, Drain(v) PROVE CellsBacked' /\ AnswerIsBacked'
  <2>1. UNCHANGED <<verified, call, revoked>> /\ \A u \in Users : u # v => cache'[u] = cache[u]
    BY <1>11 DEF Drain, TypeOK
  <2>2. \A u \in Users : Kept(u)
    BY <2>1 DEF Kept, InFlight, Known
  <2>3. \A u \in Users : CellBacked(u)'
    BY <1>0, <1>11, <2>1, <2>2, SameCellBacked, DrainedCellBacked DEF CellsBacked
  <2> QED BY <1>0, <2>1, <2>3 DEF CellsBacked, AnswerIsBacked, Known
<1>12. ASSUME NEW v \in Users, Evict(v) PROVE CellsBacked' /\ AnswerIsBacked'
  <2>1. /\ UNCHANGED <<verified, call, revoked>>
        /\ cache'[v].val = Absent /\ cache'[v].buf = cache[v].buf
        /\ \A u \in Users : u # v => cache'[u] = cache[u]
    BY <1>12, CellType DEF Evict, Evicted, TypeOK, Cell
  <2>2. \A u \in Users : Kept(u)
    BY <2>1 DEF Kept, InFlight, Known
  <2>3. CellBacked(v)'
    <3>1. ASSUME NEW i \in Nat, Backed(v, i) PROVE Backed(v, i)'
      BY <2>1, <2>2, <3>1, StillBacked DEF Kept
    <3> QED BY <1>0, <2>1, <3>1, CellType DEF CellsBacked, CellBacked
  <2>4. \A u \in Users : CellBacked(u)'
    BY <1>0, <2>1, <2>2, <2>3, SameCellBacked DEF CellsBacked
  <2> QED BY <1>0, <2>1, <2>4 DEF CellsBacked, AnswerIsBacked, Known
<1>13. ASSUME ClearCache \/ Restart PROVE CellsBacked' /\ AnswerIsBacked'
  <2>1. \A u \in Users : CellBacked(u)'
    BY <1>13, EmptyCellBacked DEF ClearCache, Restart
  <2>2. AnswerIsBacked'
    <3>1. CASE ClearCache
      BY <1>0, <3>1 DEF ClearCache, AnswerIsBacked, Known
    <3>2. CASE Restart
      BY <3>2 DEF Restart, AnswerIsBacked
    <3> QED BY <1>13, <3>1, <3>2
  <2> QED BY <2>1, <2>2 DEF CellsBacked
<1>14. ASSUME NEW c \in Callers, NEW ids \in SUBSET Users, VerifyUsers(c, ids)
       PROVE  CellsBacked' /\ AnswerIsBacked'
  BY <1>2, <1>14 DEF VerifyUsers
<1>15. ASSUME NEW u \in Users, BanExpires(u) PROVE CellsBacked' /\ AnswerIsBacked'
  BY <1>2, <1>15 DEF BanExpires
<1>16. CASE UNCHANGED vars
  BY <1>2, <1>16 DEF vars
<1>17. ASSUME NEW c \in Callers, NEW u \in Users, BanUser(c, u)
       PROVE  CellsBacked' /\ AnswerIsBacked'
  BY <1>2, <1>17 DEF BanUser
<1> QED
  BY <1>3, <1>4, <1>5, <1>6, <1>7, <1>8, <1>9, <1>10, <1>11, <1>12, <1>13,
     <1>14, <1>15, <1>16, <1>17 DEF Next, Continue

(* CacheInv is inductive, whatever the number of users and goroutines,     *)
(* however calls interleave, fail or are cut short by a restart.           *)
THEOREM CacheIsBacked == Spec => []CacheInv
<1>1. Init => CacheInv
  BY DEF Init, CacheInv, YesIsBacked, BufferIsBacked, AnswerIsBacked, EmptyCell
<1>2. TypeOK /\ CacheInv /\ [Next]_vars => CacheInv'
  BY CacheStep
<1> QED
  BY <1>1, <1>2, TypeCorrect, PTL DEF Spec

-----------------------------------------------------------------------------
(* From here on, the handlers of Admission.                                *)
HIDE DEF Methods
USE DEF At, User, Goto, Stay, Decided

-----------------------------------------------------------------------------
(* What holds of one handler: the call of Storage it is in, what the call  *)
(* will answer, and how far the handler may have come for its user.        *)
Heard == {"none", "verify", "asking", "store"} \cup Decided

Agrees(rec, cl) ==
  /\ cl.pc \in {"read", "fill"} <=> rec.pc = "asking"
  /\ cl.pc \in {"write", "undo"} <=> rec.pc = "promoting"
  /\ cl.pc = "drop" <=> rec.pc = "dropping"
  /\ cl.pc # "idle" => cl.user = rec.user

Fits(h, rec, cl, ent, fm) ==
  /\ rec \in HandlerStates
  /\ Agrees(rec, cl)
  /\ cl.pc = "fill" /\ cl.answer = "yes" => rec.user \in ent
  /\ cl.pc = "fill" /\ cl.answer = "no" => rec.user \notin fm
  /\ rec.pc \in {"promoting", "store", "stored"} => rec.user \in ent
  /\ h \in Messages /\ rec.user \in fm => rec.pc \in Heard

HandlersFit == \A h \in Handlers : Fits(h, handler[h], call[h], entitled, firm)

(* What a cell of the cache holds or will hold tells the truth: "true" of  *)
(* users with a right to it, "false" of users who came later.              *)
Holds(cell, v) == cell.val = v \/ \E i \in DOMAIN cell.buf : cell.buf[i] = v

Truthful(cell, u, ent, fm) ==
  /\ Holds(cell, "yes") => u \in ent
  /\ Holds(cell, "no") => u \notin fm

CellsTell == \A u \in Users : Truthful(cache[u], u, entitled, firm)

HistoryInv ==
  /\ firm \subseteq verified /\ verified \subseteq entitled
  /\ entitled \subseteq Users /\ asked \subseteq Users
  /\ handler \in [Handlers -> HandlerStates]

AdmissionInv == TypeOK /\ HandlersFit /\ CellsTell /\ HistoryInv

-----------------------------------------------------------------------------
(* The cache's operations hand on what was there.                          *)
LEMMA SetHolds ==
  ASSUME NEW cell \in Cell(Answers), NEW v \in Answers, NEW limit \in Nat,
         NEW new \in SetOutcomes(cell, v, limit), NEW w \in Answers, Holds(new, w)
  PROVE  Holds(cell, w) \/ w = v
<1>1. \/ new = cell
      \/ new.val = v /\ new.buf = cell.buf
      \/ new.val = cell.val /\ new.buf = Append(cell.buf, v)
  BY SetCell
<1>2. cell.buf \in Seq(Answers \cup {Delete})
  BY DEF Cell
<1>3. CASE new.val = cell.val /\ new.buf = Append(cell.buf, v)
  BY <1>2, <1>3 DEF Holds
<1> QED BY <1>1, <1>3 DEF Holds

LEMMA DeletedHolds ==
  ASSUME NEW cell \in Cell(Answers), NEW w \in Answers, Holds(Deleted(cell), w)
  PROVE  Holds(cell, w)
<1>1. cell.buf \in Seq(Answers \cup {Delete})
  BY DEF Cell
<1>2. Deleted(cell).val = Absent /\ Deleted(cell).buf = Append(cell.buf, Delete)
  BY DeletedCell
<1> QED BY <1>1, <1>2 DEF Holds

LEMMA DrainedHolds ==
  ASSUME NEW cell \in Cell(Answers), cell.buf # <<>>, NEW new \in DrainOutcomes(cell),
         NEW w \in Answers, Holds(new, w)
  PROVE  Holds(cell, w)
<1>1. cell.buf \in Seq(Answers \cup {Delete})
  BY DEF Cell
<1>2. new.buf = Tail(cell.buf) /\ new.val \in {cell.val, Absent, Head(cell.buf)}
  BY DrainedCell
<1>3. Head(cell.buf) = cell.buf[1] /\ 1 \in DOMAIN cell.buf
  BY <1>1
<1>4. \A i \in DOMAIN Tail(cell.buf) : i + 1 \in DOMAIN cell.buf /\ Tail(cell.buf)[i] = cell.buf[i + 1]
  BY <1>1
<1> QED BY <1>2, <1>3, <1>4 DEF Holds

LEMMA EvictedHolds ==
  ASSUME NEW cell \in Cell(Answers), NEW w \in Answers, Holds(Evicted(cell), w)
  PROVE  Holds(cell, w)
BY DEF Evicted, Cell, Holds

LEMMA EmptyHolds == \A w \in Answers : ~Holds(EmptyCell, w)
BY DEF EmptyCell, Holds

-----------------------------------------------------------------------------
(* A step of one handler leaves the others as they are.                    *)
LEMMA OthersFit ==
  ASSUME HandlersFit, NEW h \in Handlers,
         \A g \in Handlers \ {h} : handler'[g] = handler[g] /\ call'[g] = call[g],
         entitled \subseteq entitled', firm' = firm,
         Fits(h, handler'[h], call'[h], entitled', firm')
  PROVE  HandlersFit'
BY DEF HandlersFit, Fits

(* Users gain rights, and whoever was there first stays so.                *)
LEMMA SameCellsTell ==
  ASSUME CellsTell, UNCHANGED cache, entitled \subseteq entitled', firm' = firm
  PROVE  CellsTell'
BY DEF CellsTell, Truthful

LEMMA SetTells ==
  ASSUME TypeOK, CellsTell, NEW u \in Users, NEW a \in Answers, Set(u, a),
         entitled \subseteq entitled', firm' = firm,
         a = "yes" => u \in entitled', a = "no" => u \notin firm
  PROVE  CellsTell'
<1>1. PICK cell \in SetOutcomes(cache[u], a, PendingLimit) : cache' = [cache EXCEPT ![u] = cell]
  BY DEF Set
<1>2. cache[u] \in Cell(Answers) /\ PendingLimit \in Nat
  BY StoreAssumption DEF TypeOK, StoreAssumption
<1>3. \A w \in Answers : Holds(cell, w) => Holds(cache[u], w) \/ w = a
  BY <1>2, SetHolds
<1>4. Truthful(cell, u, entitled', firm')
  BY <1>3 DEF CellsTell, Truthful
<1> QED BY <1>1, <1>4 DEF CellsTell, Truthful, TypeOK

LEMMA ShrunkTells ==
  ASSUME TypeOK, CellsTell, NEW u \in Users, NEW cell, cache' = [cache EXCEPT ![u] = cell],
         \A w \in Answers : Holds(cell, w) => Holds(cache[u], w),
         entitled \subseteq entitled', firm' = firm
  PROVE  CellsTell'
BY DEF CellsTell, Truthful, TypeOK

-----------------------------------------------------------------------------
(* A handler that goes on keeps its user.                                  *)
Moved(h, pc) ==
  /\ handler' \in [Handlers -> HandlerStates]
  /\ handler'[h].pc = pc /\ handler'[h].user = handler[h].user
  /\ \A g \in Handlers \ {h} : handler'[g] = handler[g]

LEMMA GoesOn ==
  ASSUME AdmissionInv, NEW h \in Handlers, NEW pc \in Steps \cup Decided,
         handler[h].pc # "none", Goto(h, pc)
  PROVE  Moved(h, pc) /\ handler[h].user \in Users
<1>1. handler \in [Handlers -> HandlerStates]
  BY DEF AdmissionInv, HistoryInv
<1>2. handler[h] \in HandlerStates \ {NoHandler}
  BY <1>1 DEF NoHandler
<1>3. [handler[h] EXCEPT !.pc = pc] \in HandlerStates
  BY <1>2 DEF HandlerStates
<1> QED
  BY <1>1, <1>2, <1>3 DEF Moved, HandlerStates

(* It goes on without Storage,                                             *)
LEMMA PureStep ==
  ASSUME AdmissionInv, NEW h \in Handlers, NEW pc \in Steps \cup Decided, Moved(h, pc),
         {handler[h].pc, pc} \cap {"asking", "promoting", "dropping"} = {},
         UNCHANGED <<storeVars, entitled, firm>>, asked' \subseteq Users,
         pc \in {"store", "stored"} => handler[h].user \in entitled,
         h \in Messages /\ handler[h].user \in firm => pc \in Heard
  PROVE  HandlersFit' /\ CellsTell' /\ HistoryInv'
<1>1. UNCHANGED <<cache, verified, call>>
  BY DEF storeVars
<1>2. CellsTell'
  BY <1>1, SameCellsTell DEF AdmissionInv
<1>3. HistoryInv'
  BY <1>1 DEF AdmissionInv, HistoryInv, Moved
<1>4. Fits(h, handler[h], call[h], entitled, firm)
  BY DEF AdmissionInv, HandlersFit
<1>5. Fits(h, handler'[h], call'[h], entitled', firm')
  BY <1>1, <1>4 DEF Fits, Agrees, Moved
<1> QED BY <1>1, <1>2, <1>3, <1>5, OthersFit DEF AdmissionInv, Moved

(* or with it.                                                             *)
LEMMA CallStepFits ==
  ASSUME AdmissionInv, NEW h \in Handlers, NEW pc \in Steps \cup Decided, Moved(h, pc),
         NEW cl, call' = [call EXCEPT ![h] = cl],
         Agrees(handler'[h], cl),
         entitled \subseteq entitled', firm' = firm,
         cl.pc = "fill" /\ cl.answer = "yes" => handler[h].user \in entitled',
         cl.pc = "fill" /\ cl.answer = "no" => handler[h].user \notin firm,
         pc \in {"promoting", "store", "stored"} => handler[h].user \in entitled',
         h \in Messages /\ handler[h].user \in firm => pc \in Heard
  PROVE  HandlersFit'
<1>1. call'[h] = cl /\ \A g \in Handlers \ {h} : call'[g] = call[g]
  BY AdmissionAssumption DEF AdmissionAssumption, Handlers, AdmissionInv, TypeOK
<1>2. Fits(h, handler'[h], call'[h], entitled', firm')
  BY <1>1 DEF Fits, Moved
<1> QED BY <1>1, <1>2, OthersFit DEF AdmissionInv, Moved

-----------------------------------------------------------------------------
(* The steps of a handler, one by one.                                     *)
LEMMA ChainStep ==
  ASSUME AdmissionInv, NEW h \in Handlers,
         CachedAnswer(h) \/ AskRole(h) \/ DeleteMessage(h) \/ CheckBan(h)
         \/ AskToSolve(h) \/ Store(h)
  PROVE  HandlersFit' /\ CellsTell' /\ HistoryInv'
<1> USE DEF Steps, Heard
<1>1. /\ Fits(h, handler[h], call[h], entitled, firm)
      /\ asked \subseteq Users
  BY DEF AdmissionInv, HandlersFit, HistoryInv
<1>2. CASE CachedAnswer(h)
  <2> DEFINE answer == cache[handler[h].user].val
             pc == IF answer = "yes" THEN "store" ELSE "member"
  <2>1. Moved(h, pc) /\ handler[h].user \in Users
    BY <1>2, GoesOn DEF CachedAnswer, AfterAnswer
  <2>2. answer \in Answers
    BY <1>2, <2>1 DEF CachedAnswer, Hit, AdmissionInv, TypeOK, Cell
  <2>3. Holds(cache[handler[h].user], answer)
    BY DEF Holds
  <2>4. /\ answer = "yes" => handler[h].user \in entitled
        /\ answer = "no" => handler[h].user \notin firm
    BY <2>1, <2>3 DEF AdmissionInv, CellsTell, Truthful
  <2> QED
    BY <1>1, <1>2, <2>1, <2>2, <2>4, PureStep DEF CachedAnswer
<1>3. CASE AskRole(h)
  <2>1. PICK pc \in {"promote", "delete", "done"} : Goto(h, pc)
    BY <1>3 DEF AskRole
  <2>2. Moved(h, pc)
    BY <1>3, <2>1, GoesOn DEF AskRole
  <2> QED
    BY <1>1, <1>3, <2>2, PureStep DEF AskRole, Fits
<1>4. CASE DeleteMessage(h)
  <2>1. Moved(h, "check")
    <3>1. PICK deleted \in BOOLEAN :
            handler' = [handler EXCEPT ![h].pc = "check", ![h].deleted = deleted]
      BY <1>4 DEF DeleteMessage
    <3>2. handler \in [Handlers -> HandlerStates] /\ handler[h] # NoHandler
      BY <1>4 DEF DeleteMessage, AdmissionInv, HistoryInv, NoHandler
    <3>3. [handler[h] EXCEPT !.pc = "check", !.deleted = deleted] \in HandlerStates
      BY <3>2 DEF HandlerStates
    <3> QED BY <3>1, <3>2, <3>3 DEF Moved, HandlerStates
  <2> QED
    BY <1>1, <1>4, <2>1, PureStep DEF DeleteMessage, Fits
<1>5. CASE CheckBan(h)
  <2>1. PICK pc \in {"captcha", "done"} : Goto(h, pc)
    BY <1>5 DEF CheckBan
  <2>2. Moved(h, pc)
    BY <1>5, <2>1, GoesOn DEF CheckBan
  <2> QED
    BY <1>1, <1>5, <2>2, PureStep DEF CheckBan, Fits
<1>6. CASE AskToSolve(h)
  <2>1. Moved(h, "done") /\ handler[h].user \in Users
    BY <1>6, GoesOn DEF AskToSolve
  <2>2. asked' \subseteq Users
    BY <1>1, <1>6, <2>1 DEF AskToSolve
  <2> QED
    BY <1>1, <1>6, <2>1, <2>2, PureStep DEF AskToSolve, Fits
<1>7. CASE Store(h)
  <2>1. Moved(h, "stored")
    BY <1>7, GoesOn DEF Store
  <2> QED
    BY <1>1, <1>7, <2>1, PureStep DEF Store, Fits
<1> QED BY <1>2, <1>3, <1>4, <1>5, <1>6, <1>7

LEMMA AskingStep ==
  ASSUME AdmissionInv, NEW h \in Handlers, Asks(h) \/ Reads(h) \/ Fills(h)
  PROVE  HandlersFit' /\ CellsTell' /\ HistoryInv'
<1>0. /\ {"asking", "store", "member", "done"} \subseteq Steps \cup Decided
      /\ {"asking", "store", "done"} \subseteq Heard
  BY DEF Steps, Heard
<1> DEFINE u == handler[h].user
<1>1. /\ Fits(h, handler[h], call[h], entitled, firm)
      /\ h \in Callers
  BY AdmissionAssumption DEF AdmissionInv, HandlersFit, AdmissionAssumption, Handlers
<1>2. CASE Asks(h)
  <2> DEFINE cl == [pc |-> "read", user |-> u, answer |-> "no"]
  <2>1. Moved(h, "asking")
    BY <1>2, <1>0, GoesOn DEF Asks
  <2>2. call' = [call EXCEPT ![h] = cl] /\ UNCHANGED <<cache, verified, asked, entitled, firm>>
    BY <1>2 DEF Asks, IsVerifiedUser, Start
  <2>3. Agrees(handler'[h], cl)
    BY <2>1 DEF Agrees, Moved
  <2>4. handler[h].pc = "verify"
    BY <1>2 DEF Asks
  <2>5. HandlersFit'
    BY <1>1, <2>1, <2>2, <2>3, <2>4, <1>0, CallStepFits DEF Fits
  <2> QED
    BY <2>1, <2>2, <2>5, SameCellsTell DEF AdmissionInv, HistoryInv, Moved
<1>3. CASE Reads(h)
  <2>1. /\ call[h].pc = "read" /\ handler[h].pc = "asking" /\ call[h].user = u
        /\ call[h] \in CallStates
        /\ UNCHANGED <<cache, verified, asked, entitled, firm>>
    BY <1>1, <1>3 DEF Reads, ReadVerified, Fits, Agrees, AdmissionInv, TypeOK
  <2> DEFINE a == IF u \in verified THEN "yes" ELSE "no"
  <2>2. CASE call' = [call EXCEPT ![h].pc = "fill", ![h].answer = a]
    <3> DEFINE cl == [call[h] EXCEPT !.pc = "fill", !.answer = a]
    <3>1. call' = [call EXCEPT ![h] = cl]
      BY <2>2
    <3>2. cl.pc = "fill" /\ cl.answer = a /\ cl.user = u
      BY <2>1 DEF CallStates
    <3>3. call'[h] # Idle
      BY <1>1, <3>1, <3>2 DEF AdmissionInv, TypeOK
    <3>4. UNCHANGED handler
      BY <1>3, <3>3 DEF Reads
    <3>5. Moved(h, "asking")
      BY <2>1, <3>4 DEF Moved, AdmissionInv, HistoryInv
    <3>6. Agrees(handler'[h], cl)
      BY <2>1, <3>2, <3>4 DEF Agrees
    <3>7. /\ a = "yes" => u \in entitled
          /\ a = "no" => u \notin firm
      BY DEF AdmissionInv, HistoryInv
    <3> HIDE DEF a, cl
    <3>8. HandlersFit'
      BY <1>1, <2>1, <3>1, <3>2, <3>5, <3>6, <3>7, <1>0, CallStepFits DEF Fits
    <3> QED
      BY <2>1, <3>5, <3>8, SameCellsTell DEF AdmissionInv, HistoryInv, Moved
  <2>3. CASE Return(h)
    <3>1. call' = [call EXCEPT ![h] = Idle] /\ call'[h] = Idle
      BY <1>1, <2>3 DEF Return, AdmissionInv, TypeOK
    <3>2. Moved(h, "done")
      BY <1>3, <2>1, <3>1, <1>0, GoesOn DEF Reads
    <3>3. Agrees(handler'[h], Idle)
      BY <3>2 DEF Agrees, Moved
    <3>4. HandlersFit'
      BY <2>1, <3>1, <3>2, <3>3, <1>0, CallStepFits
    <3> QED
      BY <2>1, <3>2, <3>4, SameCellsTell DEF AdmissionInv, HistoryInv, Moved
  <2> QED BY <1>3, <2>1, <2>2, <2>3 DEF Reads, ReadVerified
<1>4. CASE Fills(h)
  <2> DEFINE a == call[h].answer
             pc == IF a = "yes" THEN "store" ELSE "member"
  <2>1. /\ call[h].pc = "fill" /\ handler[h].pc = "asking" /\ call[h].user = u
        /\ UNCHANGED <<verified, asked, entitled, firm>>
    BY <1>1, <1>4 DEF Fills, FillVerified, Fits, Agrees
  <2>2. u \in Users /\ a \in Answers
    BY <1>1, <2>1, CallHasUser DEF AdmissionInv
  <2>3. Moved(h, pc)
    BY <1>4, <2>1, <1>0, GoesOn DEF Fills, AfterAnswer
  <2>4. /\ a = "yes" => u \in entitled
        /\ a = "no" => u \notin firm
    BY <1>1, <2>1 DEF Fits
  <2>5. CellsTell'
    BY <1>4, <2>1, <2>2, <2>4, SetTells DEF Fills, FillVerified, AdmissionInv
  <2>6. call' = [call EXCEPT ![h] = Idle]
    BY <1>4 DEF Fills, FillVerified, Return
  <2>7. Agrees(handler'[h], Idle)
    BY <2>3 DEF Agrees, Moved
  <2>8. HandlersFit'
    BY <2>1, <2>2, <2>3, <2>4, <2>6, <2>7, <1>0, CallStepFits
  <2> QED
    BY <2>1, <2>3, <2>5, <2>8 DEF AdmissionInv, HistoryInv, Moved
<1> QED BY <1>2, <1>3, <1>4

LEMMA PromoteStep ==
  ASSUME AdmissionInv, NEW h \in Handlers,
         Promote(h) \/ Promoting(h) \/ Undoing(h) \/ CloseCaptcha(h)
  PROVE  HandlersFit' /\ CellsTell' /\ HistoryInv'
<1> USE DEF Steps, Heard
<1> DEFINE u == handler[h].user
<1>1. /\ Fits(h, handler[h], call[h], entitled, firm)
      /\ h \in Callers
  BY AdmissionAssumption DEF AdmissionInv, HandlersFit, AdmissionAssumption, Handlers
<1>2. CASE Promote(h)
  <2> DEFINE cl == [pc |-> "write", user |-> u, answer |-> "no"]
  <2>1. Moved(h, "promoting") /\ u \in Users
    BY <1>2, GoesOn DEF Promote
  <2>2. /\ call' = [call EXCEPT ![h] = cl] /\ Set(u, "yes")
        /\ entitled' = entitled \cup {u}
        /\ UNCHANGED <<verified, asked, firm>>
    BY <1>2 DEF Promote, VerifyUser, Start
  <2>3. Agrees(handler'[h], cl)
    BY <2>1 DEF Agrees, Moved
  <2>4. handler[h].pc = "promote"
    BY <1>2 DEF Promote
  <2>5. HandlersFit'
    BY <1>1, <2>1, <2>2, <2>3, <2>4, CallStepFits DEF Fits
  <2>6. CellsTell'
    BY <2>1, <2>2, SetTells DEF AdmissionInv
  <2> QED
    BY <2>1, <2>2, <2>5, <2>6 DEF AdmissionInv, HistoryInv, Moved
<1> DEFINE next == IF h \in Presses THEN "close" ELSE "store"
<1>3. ASSUME handler[h].pc = "promoting", AfterPromotion(h), Return(h), CellsTell',
             verified \subseteq verified', verified' \subseteq verified \cup {u},
             UNCHANGED <<asked, entitled, firm>>
      PROVE  HandlersFit' /\ CellsTell' /\ HistoryInv'
  <2>1. Moved(h, next)
    BY <1>3, GoesOn DEF AfterPromotion
  <2>2. u \in entitled
    BY <1>1, <1>3 DEF Fits
  <2>3. call' = [call EXCEPT ![h] = Idle]
    BY <1>3 DEF Return
  <2>4. Agrees(handler'[h], Idle)
    BY <2>1 DEF Agrees, Moved
  <2>5. HandlersFit'
    BY <1>1, <1>3, <2>1, <2>2, <2>3, <2>4, CallStepFits DEF Fits
  <2> QED
    BY <1>3, <2>1, <2>2, <2>5 DEF AdmissionInv, HistoryInv, Moved
<1>4. CASE /\ CommitVerifyUser(h) /\ AfterPromotion(h) /\ handler[h].pc = "promoting"
           /\ UNCHANGED <<asked, entitled, firm>>
  <2>1. call[h].user = u /\ handler[h].pc = "promoting"
    BY <1>1, <1>4 DEF CommitVerifyUser, Fits, Agrees
  <2>2. AfterPromotion(h) /\ Return(h) /\ verified' = verified \cup {u}
        /\ UNCHANGED <<cache, asked, entitled, firm>>
    BY <1>4, <2>1 DEF CommitVerifyUser
  <2>3. CellsTell'
    BY <2>2, SameCellsTell DEF AdmissionInv
  <2> QED BY <1>3, <2>1, <2>2, <2>3
<1>5. CASE /\ FailVerifyUser(h) /\ UNCHANGED handler /\ handler[h].pc = "promoting"
           /\ UNCHANGED <<asked, entitled, firm>>
  <2> DEFINE cl == [call[h] EXCEPT !.pc = "undo"]
  <2>1. /\ call[h].user = u /\ handler[h].pc = "promoting" /\ call[h].pc = "write"
        /\ call[h] \in CallStates
        /\ UNCHANGED <<cache, verified, asked, entitled, firm>>
    BY <1>1, <1>5 DEF FailVerifyUser, Fits, Agrees, AdmissionInv, TypeOK
  <2>2. call' = [call EXCEPT ![h] = cl] /\ UNCHANGED handler
    BY <1>5 DEF FailVerifyUser
  <2>3. cl.pc = "undo" /\ cl.user = u
    BY <2>1 DEF CallStates
  <2>4. Moved(h, "promoting")
    BY <2>1, <2>2 DEF Moved, AdmissionInv, HistoryInv
  <2>5. Agrees(handler'[h], cl)
    BY <2>1, <2>2, <2>3 DEF Agrees
  <2>6. HandlersFit'
    BY <1>1, <2>1, <2>2, <2>3, <2>4, <2>5, CallStepFits DEF Fits
  <2> QED
    BY <2>1, <2>4, <2>6, SameCellsTell DEF AdmissionInv, HistoryInv, Moved
<1>6. CASE Undoing(h)
  <2>1. /\ call[h].user = u /\ handler[h].pc = "promoting" /\ call[h].pc = "undo"
        /\ cache' = [cache EXCEPT ![u] = Deleted(cache[u])]
        /\ AfterPromotion(h) /\ Return(h)
        /\ UNCHANGED <<verified, asked, entitled, firm>>
    BY <1>1, <1>6 DEF Undoing, UndoVerifyUser, Fits, Agrees
  <2>2. u \in Users
    BY <1>1, <2>1, CallHasUser DEF AdmissionInv
  <2>3. \A w \in Answers : Holds(Deleted(cache[u]), w) => Holds(cache[u], w)
    BY <2>2, DeletedHolds DEF AdmissionInv, TypeOK
  <2>4. CellsTell'
    BY <2>1, <2>2, <2>3, ShrunkTells DEF AdmissionInv
  <2> QED BY <1>3, <2>1, <2>4
<1>7. CASE CloseCaptcha(h)
  <2>1. Moved(h, "done")
    BY <1>7, GoesOn DEF CloseCaptcha
  <2>2. asked' \subseteq Users
    BY <1>7 DEF CloseCaptcha, AdmissionInv, HistoryInv
  <2> QED
    BY <1>1, <1>7, <2>1, <2>2, PureStep DEF CloseCaptcha, Fits
<1> QED BY <1>2, <1>4, <1>5, <1>6, <1>7 DEF Promoting

LEMMA BanStep ==
  ASSUME AdmissionInv, NEW h \in Handlers, FindsOldBan(h) \/ DropsOldBan(h)
  PROVE  HandlersFit' /\ CellsTell' /\ HistoryInv'
<1> DEFINE u == handler[h].user
<1>1. /\ Fits(h, handler[h], call[h], entitled, firm)
      /\ {"dropping", "captcha", "done"} \subseteq Steps \cup Decided
      /\ "done" \in Heard /\ "check" \notin Heard /\ "dropping" \notin Heard
  BY DEF AdmissionInv, HandlersFit, Steps, Heard
<1>2. CASE FindsOldBan(h)
  <2> DEFINE cl == [pc |-> "drop", user |-> u, answer |-> "no"]
  <2>1. Moved(h, "dropping")
    BY <1>1, <1>2, GoesOn DEF FindsOldBan
  <2>2. call' = [call EXCEPT ![h] = cl] /\ UNCHANGED <<cache, verified, asked, entitled, firm>>
    BY <1>2 DEF FindsOldBan, IsBannedUser, Start
  <2>3. Agrees(handler'[h], cl)
    BY <2>1 DEF Agrees, Moved
  <2>4. handler[h].pc = "check"
    BY <1>2 DEF FindsOldBan
  <2>5. HandlersFit'
    BY <1>1, <2>1, <2>2, <2>3, <2>4, CallStepFits DEF Fits
  <2> QED
    BY <2>1, <2>2, <2>5, SameCellsTell DEF AdmissionInv, HistoryInv, Moved
<1>3. CASE DropsOldBan(h)
  <2>1. PICK pc \in {"captcha", "done"} : Goto(h, pc)
    BY <1>3 DEF DropsOldBan
  <2>2. /\ handler[h].pc = "dropping" /\ call' = [call EXCEPT ![h] = Idle]
        /\ UNCHANGED <<cache, verified, asked, entitled, firm>>
    BY <1>3 DEF DropsOldBan, DropBan, Return
  <2>3. Moved(h, pc)
    BY <1>1, <2>1, <2>2, GoesOn
  <2>4. Agrees(handler'[h], Idle)
    BY <2>3 DEF Agrees, Moved
  <2>5. HandlersFit'
    BY <1>1, <2>2, <2>3, <2>4, CallStepFits DEF Fits
  <2> QED
    BY <2>2, <2>3, <2>5, SameCellsTell DEF AdmissionInv, HistoryInv, Moved
<1> QED BY <1>2, <1>3

-----------------------------------------------------------------------------
(* Messages and presses that come in.                                      *)
LEMMA Received ==
  ASSUME AdmissionInv, NEW h \in Handlers, NEW u \in Users,
         NEW pc \in {"verify", "promoting"}, Receive(h, u, pc)
  PROVE  /\ handler[h] = NoHandler /\ call[h].pc = "idle"
         /\ handler' \in [Handlers -> HandlerStates]
         /\ handler'[h].pc = pc /\ handler'[h].user = u
         /\ \A g \in Handlers \ {h} : handler'[g] = handler[g]
<1>1. handler[h] = NoHandler /\ Fits(h, handler[h], call[h], entitled, firm)
  BY DEF Receive, AdmissionInv, HandlersFit
<1>2. call[h] \in CallStates
  BY AdmissionAssumption DEF AdmissionAssumption, Handlers, AdmissionInv, TypeOK
<1>3. call[h].pc = "idle"
  BY <1>1, <1>2 DEF Fits, Agrees, NoHandler, CallStates
<1>4. [pc |-> pc, user |-> u, deleted |-> FALSE, verified |-> u \in verified] \in HandlerStates
  BY DEF HandlerStates, Steps
<1> QED
  BY <1>1, <1>3, <1>4 DEF Receive, AdmissionInv, HistoryInv

LEMMA ArrivesStep ==
  ASSUME AdmissionInv, NEW m \in Messages, NEW u \in Users, MessageArrives(m, u)
  PROVE  HandlersFit' /\ CellsTell' /\ HistoryInv'
<1>1. /\ call[m].pc = "idle" /\ handler' \in [Handlers -> HandlerStates]
      /\ handler'[m].pc = "verify" /\ handler'[m].user = u
      /\ \A g \in Handlers \ {m} : handler'[g] = handler[g]
  BY Received DEF MessageArrives, Handlers
<1>2. UNCHANGED <<cache, verified, call, asked, entitled, firm>>
  BY DEF MessageArrives, storeVars
<1>3. Fits(m, handler'[m], call'[m], entitled', firm')
  BY <1>1, <1>2 DEF Fits, Agrees, Handlers, Heard
<1>4. HandlersFit'
  BY <1>1, <1>2, <1>3, OthersFit DEF AdmissionInv, Handlers
<1> QED
  BY <1>1, <1>2, <1>4, SameCellsTell DEF AdmissionInv, HistoryInv

LEMMA SolveStep ==
  ASSUME AdmissionInv, NEW p \in Presses, NEW u \in Users, Solve(p, u)
  PROVE  HandlersFit' /\ CellsTell' /\ HistoryInv'
<1> DEFINE cl == [pc |-> "write", user |-> u, answer |-> "no"]
<1>1. /\ handler' \in [Handlers -> HandlerStates]
      /\ handler'[p].pc = "promoting" /\ handler'[p].user = u
      /\ \A g \in Handlers \ {p} : handler'[g] = handler[g]
  BY Received DEF Solve, Handlers
<1>2. /\ call' = [call EXCEPT ![p] = cl] /\ Set(u, "yes")
      /\ entitled' = entitled \cup {u}
      /\ UNCHANGED <<verified, asked, firm>>
  BY DEF Solve, VerifyUser, Start
<1>3. call'[p] = cl /\ \A g \in Handlers \ {p} : call'[g] = call[g]
  BY <1>2, AdmissionAssumption DEF AdmissionAssumption, Handlers, AdmissionInv, TypeOK
<1>4. p \notin Messages
  BY AdmissionAssumption DEF AdmissionAssumption
<1>5. Fits(p, handler'[p], call'[p], entitled', firm')
  BY <1>1, <1>2, <1>3, <1>4 DEF Fits, Agrees, Handlers
<1>6. HandlersFit'
  BY <1>1, <1>2, <1>3, <1>5, OthersFit DEF AdmissionInv, Handlers
<1>7. CellsTell'
  BY <1>2, SetTells DEF AdmissionInv
<1> QED
  BY <1>1, <1>2, <1>6, <1>7 DEF AdmissionInv, HistoryInv

-----------------------------------------------------------------------------
(* What happens behind the handlers' backs.                                *)
LEMMA ApiStep ==
  ASSUME AdmissionInv, NEW ids \in SUBSET Users, ApiVerifies(ids)
  PROVE  HandlersFit' /\ CellsTell' /\ HistoryInv'
<1>1. /\ verified' = verified \cup ids /\ entitled' = entitled \cup ids
      /\ UNCHANGED <<cache, call, handler, asked, firm>>
  BY DEF ApiVerifies, VerifyUsers
<1>2. HandlersFit'
  BY <1>1 DEF AdmissionInv, HandlersFit, Fits
<1> QED
  BY <1>1, <1>2, SameCellsTell DEF AdmissionInv, HistoryInv

LEMMA BackgroundStep ==
  ASSUME AdmissionInv, Background
  PROVE  HandlersFit' /\ CellsTell' /\ HistoryInv'
<1>1. PICK u \in Users : BanExpires(u) \/ Drain(u) \/ Evict(u)
  BY DEF Background
<1>2. UNCHANGED <<verified, call, handler, asked, entitled, firm>>
  BY <1>1 DEF Background, BanExpires, Drain, Evict
<1>3. HandlersFit' /\ HistoryInv'
  BY <1>2 DEF AdmissionInv, HandlersFit, HistoryInv
<1>4. cache[u] \in Cell(Answers)
  BY DEF AdmissionInv, TypeOK
<1>5. ASSUME BanExpires(u) PROVE CellsTell'
  BY <1>2, <1>5, SameCellsTell DEF BanExpires, AdmissionInv
<1>6. ASSUME Drain(u) PROVE CellsTell'
  <2>1. PICK cell \in DrainOutcomes(cache[u]) : cache' = [cache EXCEPT ![u] = cell]
    BY <1>6 DEF Drain
  <2>2. \A w \in Answers : Holds(cell, w) => Holds(cache[u], w)
    BY <1>4, <1>6, DrainedHolds DEF Drain
  <2> QED BY <1>2, <2>1, <2>2, ShrunkTells DEF AdmissionInv
<1>7. ASSUME Evict(u) PROVE CellsTell'
  <2>1. cache' = [cache EXCEPT ![u] = Evicted(cache[u])]
    BY <1>7 DEF Evict
  <2>2. \A w \in Answers : Holds(Evicted(cache[u]), w) => Holds(cache[u], w)
    BY <1>4, EvictedHolds
  <2> QED BY <1>2, <2>1, <2>2, ShrunkTells DEF AdmissionInv
<1>8. CellsTell'
  BY <1>1, <1>5, <1>6, <1>7
<1> QED BY <1>3, <1>8

LEMMA RestartStep ==
  ASSUME AdmissionInv, ProcessRestarts
  PROVE  HandlersFit' /\ CellsTell' /\ HistoryInv'
<1>1. /\ cache' = [u \in Users |-> EmptyCell] /\ call' = [c \in Callers |-> Idle]
      /\ handler' = [h \in Handlers |->
                       IF handler[h].pc \in Steps THEN [handler[h] EXCEPT !.pc = "lost"]
                                                  ELSE handler[h]]
      /\ firm' = verified /\ UNCHANGED <<verified, asked, entitled>>
  BY DEF ProcessRestarts, Restart
<1>2. CellsTell'
  BY <1>1, EmptyHolds DEF CellsTell, Truthful
<1>3. ASSUME NEW h \in Handlers
      PROVE  handler'[h] \in HandlerStates /\ Fits(h, handler'[h], call'[h], entitled', firm')
  <2>1. /\ handler[h] \in HandlerStates /\ call'[h] = Idle
        /\ Fits(h, handler[h], call[h], entitled, firm)
    BY <1>1, AdmissionAssumption DEF AdmissionInv, HistoryInv, HandlersFit, Handlers, AdmissionAssumption
  <2>2. CASE handler[h].pc \in Steps
    <3>1. handler'[h] \in HandlerStates /\ handler'[h].pc = "lost"
      BY <1>1, <2>1, <2>2 DEF HandlerStates, NoHandler, Steps
    <3> QED BY <2>1, <3>1 DEF Fits, Agrees, Heard
  <2>3. CASE handler[h].pc \notin Steps
    <3>1. handler'[h] = handler[h] /\ handler[h].pc \in {"none"} \cup Decided
      BY <1>1, <2>1, <2>3 DEF HandlerStates, NoHandler
    <3>2. entitled' = entitled /\ (handler[h].pc = "stored" => handler[h].user \in entitled)
      BY <1>1, <2>1 DEF Fits
    <3> QED BY <2>1, <3>1, <3>2 DEF Fits, Agrees, Heard
  <2> QED BY <2>2, <2>3
<1>4. HistoryInv'
  BY <1>1, <1>3 DEF AdmissionInv, HistoryInv, TypeOK
<1> QED BY <1>2, <1>3, <1>4 DEF HandlersFit

-----------------------------------------------------------------------------
(* Every step of Admission is one of VerifiedStore or leaves it alone, so  *)
(* what holds of the store alone holds behind the handlers.                *)
LEMMA StoreStep ==
  ASSUME AdmissionInv, [AdmissionNext]_admissionVars PROVE [Next]_vars
<1> USE AdmissionAssumption DEF AdmissionAssumption
<1>1. CASE UNCHANGED storeVars
  BY <1>1 DEF storeVars, vars
<1>2. ASSUME NEW h \in Handlers, Handle(h) PROVE [Next]_vars
  <2>1. handler[h].pc # "none" => handler[h].user \in Users
    BY DEF AdmissionInv, HistoryInv, HandlerStates, NoHandler
  <2>2. CASE UNCHANGED storeVars
    BY <1>1, <2>2
  <2>3. CASE Reads(h) \/ Fills(h) \/ Promoting(h) \/ Undoing(h) \/ DropsOldBan(h)
    BY <2>3 DEF Reads, Fills, Promoting, Undoing, DropsOldBan, Next, Continue, Handlers
  <2>4. CASE Asks(h) \/ Promote(h) \/ FindsOldBan(h)
    BY <2>1, <2>4 DEF Asks, Promote, FindsOldBan, Next, Handlers
  <2> QED
    BY <1>2, <2>2, <2>3, <2>4
       DEF Handle, CachedAnswer, AskRole, CloseCaptcha, DeleteMessage, CheckBan, AskToSolve, Store
<1>3. CASE \E m \in Messages, u \in Users : MessageArrives(m, u)
  BY <1>1, <1>3 DEF MessageArrives
<1>4. CASE \E p \in Presses, u \in Users : Solve(p, u)
  BY <1>4 DEF Solve, Next
<1>5. CASE \E ids \in SUBSET Users \ {{}} : ApiVerifies(ids)
  BY <1>5 DEF ApiVerifies, Next
<1>6. CASE Background \/ ProcessRestarts
  BY <1>6 DEF Background, ProcessRestarts, Next
<1>7. CASE UNCHANGED admissionVars
  BY <1>1, <1>7 DEF admissionVars
<1> QED
  BY <1>2, <1>3, <1>4, <1>5, <1>6, <1>7 DEF AdmissionNext

LEMMA AdmissionStep ==
  AdmissionInv /\ [AdmissionNext]_admissionVars => AdmissionInv'
<1> SUFFICES ASSUME AdmissionInv, [AdmissionNext]_admissionVars PROVE AdmissionInv'
  OBVIOUS
<1>1. TypeOK'
  BY StoreStep, TypeStep DEF AdmissionInv
<1> DEFINE Rest == HandlersFit /\ CellsTell /\ HistoryInv
<1>2. ASSUME NEW h \in Handlers, Handle(h) PROVE Rest'
  BY <1>2, ChainStep, AskingStep, PromoteStep, BanStep DEF Handle
<1>3. ASSUME UNCHANGED admissionVars PROVE Rest'
  BY <1>3 DEF admissionVars, storeVars, AdmissionInv, HandlersFit, CellsTell, HistoryInv
<1>4. Rest'
  BY <1>2, <1>3, ArrivesStep, SolveStep, ApiStep, BackgroundStep, RestartStep DEF AdmissionNext
<1> QED BY <1>1, <1>4 DEF AdmissionInv

LEMMA AdmissionStart == AdmissionInit => AdmissionInv
<1> SUFFICES ASSUME AdmissionInit PROVE AdmissionInv
  OBVIOUS
<1> USE DEF AdmissionInit
<1>1. TypeOK
  BY TypeInit
<1>2. CellsTell
  BY EmptyHolds DEF Init, CellsTell, Truthful
<1>3. HistoryInv
  BY DEF Init, HistoryInv, HandlerStates
<1>4. HandlersFit
  BY <1>1, AdmissionAssumption, StoreAssumption
     DEF AdmissionAssumption, StoreAssumption, Init, HandlersFit, Fits, Agrees, Heard, HandlerStates, NoHandler, Handlers
<1> QED BY <1>1, <1>2, <1>3, <1>4 DEF AdmissionInv

LEMMA AdmissionHolds == AdmissionSpec => []AdmissionInv
BY AdmissionStart, AdmissionStep, PTL DEF AdmissionSpec

(* Behind its handlers the store is the store, so that what is proved of   *)
(* VerifiedStore holds here: nobody is verified and banned at once, and a  *)
(* cached "yes" is backed.                                                 *)
THEOREM AdmissionUsesStore == AdmissionSpec => Spec
<1>1. AdmissionInit => Init
  BY DEF AdmissionInit
<1>2. AdmissionInv /\ [AdmissionNext]_admissionVars => [Next]_vars
  BY StoreStep
<1> QED BY <1>1, <1>2, AdmissionHolds, PTL DEF AdmissionSpec, Spec

(* Types are right, and handlers are in the calls they wait for.           *)
THEOREM AdmissionTypeCorrect == AdmissionSpec => []AdmissionTypeOK
<1>1. AdmissionInv => AdmissionTypeOK
  BY DEF AdmissionInv, HistoryInv, HandlersFit, Fits, Agrees, AdmissionTypeOK, TypeOK
<1> QED BY <1>1, AdmissionHolds, PTL

(* The gate lets nobody in who has no right to it, whatever fails.         *)
THEOREM NobodySlipsIn == AdmissionSpec => []StoredIsEntitled
<1>1. AdmissionInv => StoredIsEntitled
  BY DEF AdmissionInv, HandlersFit, Fits, StoredIsEntitled, Handlers
<1> QED BY <1>1, AdmissionHolds, PTL

(* Nor does it silence anybody who was verified when the program started.  *)
THEOREM NobodyFirmIsSilenced == AdmissionSpec => []FirmIsHeard
<1>1. AdmissionInv => FirmIsHeard
  <2> SUFFICES ASSUME AdmissionInv, NEW m \in Messages, handler[m].user \in firm
               PROVE  handler[m].pc \in {"verify", "asking", "store"} \cup Decided
    BY DEF FirmIsHeard
  <2>1. handler[m] \in HandlerStates /\ handler[m].pc \in Heard
    BY DEF AdmissionInv, HandlersFit, Fits, Handlers
  <2>2. handler[m].user # NoUser
    BY StoreAssumption DEF StoreAssumption, AdmissionInv, HistoryInv
  <2> QED BY <2>1, <2>2 DEF Heard, HandlerStates, NoHandler, Steps
<1> QED BY <1>1, AdmissionHolds, PTL
=============================================================================
