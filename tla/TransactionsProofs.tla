------------------------- MODULE TransactionsProofs -------------------------
(***************************************************************************)
(* Proofs about Transactions: run on SQLite or InnoDB, or by a program     *)
(* that bans nobody, the transactions change both tables at once or not at *)
(* all.                                                                    *)
(***************************************************************************)
EXTENDS Transactions, TLAPS

USE DEF BanStates, Idle

(* The databases that keep a ban and a verification of one user apart, or  *)
(* the calls among which there is nothing to keep apart.                   *)
Sound == Drivers \cap {"postgres", "tidb"} = {} \/ "BanUser" \notin Calls

-----------------------------------------------------------------------------
(* The types hold at the start, and every step keeps them.                 *)
LEMMA TypeInit == Init => TypeOK
BY DEF Init, TypeOK, TxStates

LEMMA RowsAreUsers ==
  ASSUME TypeOK, NEW table
  PROVE  Rows(table) \subseteq Users
BY DEF TypeOK, Rows

Busy == [pc : {"delete", "insert", "commit", "drop"},
         op : {"verify", "ban", "none"},
         ids : SUBSET Users, deleted : SUBSET Users, inserted : SUBSET Users]

LEMMA BusyType ==
  ASSUME TypeOK, NEW c \in Callers
  PROVE  /\ tx[c].ids \in SUBSET Users
         /\ tx[c].deleted \in SUBSET Users
         /\ tx[c].inserted \in SUBSET Users
         /\ tx[c].op \in {"verify", "ban", "none"}
         /\ tx[c].pc \in {"idle", "delete", "insert", "commit", "drop"}
         /\ tx[c].pc # "idle" => tx[c] \in Busy
BY DEF TypeOK, TxStates, Busy

(* What the two statements of a transaction do to the record of its call.  *)
LEMMA DeleteStep ==
  ASSUME TypeOK, NEW c \in Callers, Delete(c)
  PROVE  /\ tx' \in [Callers -> TxStates]
         /\ \A d \in Callers \ {c} : tx'[d] = tx[d]
         /\ tx'[c].pc = "insert" /\ tx'[c].op = tx[c].op /\ tx'[c].ids = tx[c].ids
         /\ tx'[c].deleted = tx[c].ids \cap Rows(Source(tx[c].op))
         /\ tx'[c].inserted = tx[c].inserted
<1> DEFINE found == tx[c].ids \cap Rows(Source(tx[c].op))
           new == [tx[c] EXCEPT !.pc = "insert", !.deleted = found]
<1>1. tx' = [tx EXCEPT ![c] = new]
  BY DEF Delete
<1>2. tx[c] \in Busy /\ found \in SUBSET Users
  BY BusyType DEF Delete
<1>3. new \in Busy
  BY <1>2 DEF Busy
<1>4. /\ new.pc = "insert" /\ new.op = tx[c].op /\ new.ids = tx[c].ids
      /\ new.deleted = found /\ new.inserted = tx[c].inserted
  BY <1>2 DEF Busy
<1> QED BY <1>1, <1>3, <1>4 DEF TypeOK, TxStates, Busy

LEMMA InsertStep ==
  ASSUME TypeOK, NEW c \in Callers, NEW batch \in SUBSET Users, Insert(c, batch)
  PROVE  /\ tx' \in [Callers -> TxStates]
         /\ \A d \in Callers \ {c} : tx'[d] = tx[d]
         /\ tx'[c].pc \in {"insert", "commit"}
         /\ tx'[c].pc = "commit" => batch = tx[c].ids \ tx[c].inserted
         /\ tx'[c].op = tx[c].op /\ tx'[c].ids = tx[c].ids
         /\ tx'[c].deleted = tx[c].deleted
         /\ tx'[c].inserted = tx[c].inserted \cup batch
<1> DEFINE pc == IF batch = tx[c].ids \ tx[c].inserted THEN "commit" ELSE "insert"
           new == [tx[c] EXCEPT !.inserted = tx[c].inserted \cup batch, !.pc = pc]
<1>1. tx' = [tx EXCEPT ![c] = new]
  BY DEF Insert
<1>2. tx[c] \in Busy
  BY BusyType DEF Insert
<1>3. new \in Busy
  BY <1>2 DEF Busy
<1>4. /\ new.pc = pc /\ new.op = tx[c].op /\ new.ids = tx[c].ids
      /\ new.deleted = tx[c].deleted /\ new.inserted = tx[c].inserted \cup batch
  BY <1>2 DEF Busy
<1> QED BY <1>1, <1>3, <1>4 DEF TypeOK, TxStates, Busy

LEMMA TypeStep == TypeOK /\ [Next]_vars => TypeOK'
<1> SUFFICES ASSUME TypeOK, [Next]_vars PROVE TypeOK'
  OBVIOUS
<1>1. ASSUME NEW c \in Callers, NEW op \in {"verify", "ban"}, NEW ids \in SUBSET Users,
             Begin(c, op, ids)
      PROVE  TypeOK'
  BY <1>1 DEF Begin, TypeOK, TxStates
<1>2. ASSUME NEW c \in Callers, NEW u \in Users,
             VerifyUser(c, u) \/ BanUser(c, u)
      PROVE  TypeOK'
  BY <1>1, <1>2 DEF VerifyUser, BanUser
<1>3. ASSUME NEW c \in Callers, NEW ids \in SUBSET Users, VerifyUsers(c, ids)
      PROVE  TypeOK'
  BY <1>1, <1>3 DEF VerifyUsers
<1>4. ASSUME NEW c \in Callers, NEW u \in Users, IsBannedUser(c, u) PROVE TypeOK'
  BY <1>4 DEF IsBannedUser, TypeOK, TxStates
<1>5. ASSUME NEW c \in Callers, NEW batch \in SUBSET Users, Insert(c, batch)
      PROVE  TypeOK'
  BY <1>5, InsertStep DEF Insert, TypeOK
<1>6. ASSUME NEW c \in Callers, Delete(c) PROVE TypeOK'
  BY <1>6, DeleteStep DEF Delete, TypeOK
<1>7. ASSUME NEW c \in Callers, Commit(c) PROVE TypeOK'
  BY <1>7, BusyType DEF Commit, Without, With, TypeOK, TxStates
<1>8. ASSUME NEW c \in Callers, Rollback(c) PROVE TypeOK'
  BY <1>8 DEF Rollback, TypeOK, TxStates
<1>9. ASSUME NEW c \in Callers, DropBan(c) PROVE TypeOK'
  BY <1>9 DEF DropBan, Without, TypeOK, TxStates
<1>10. ASSUME NEW u \in Users, BanExpires(u) PROVE TypeOK'
  BY <1>10 DEF BanExpires, TypeOK
<1>11. CASE Crash
  BY <1>11 DEF Crash, TypeOK, TxStates
<1>12. CASE UNCHANGED vars
  BY <1>12 DEF vars, TypeOK
<1> QED
  BY <1>2, <1>3, <1>4, <1>5, <1>6, <1>7, <1>8, <1>9, <1>10, <1>11, <1>12 DEF Next

(* Every variable of every reachable state has its type.                   *)
THEOREM TypeCorrect == Spec => []TypeOK
BY TypeInit, TypeStep, PTL DEF Spec

-----------------------------------------------------------------------------
(* TxInv is inductive.  What a step of one transaction means for another   *)
(* is in three facts: the row locks of two transactions are disjoint, so   *)
(* neither takes away a row the other has deleted; nobody inserts where    *)
(* another has looked for rows to delete; and a transaction begins to      *)
(* delete only where nobody has inserted.                                  *)

(* A call that ends, or has not begun to write, weighs on no other.        *)
LEMMA EndedCall ==
  ASSUME TypeOK, TxInv,
         \A d \in Callers :
           \/ tx'[d] = tx[d]
           \/ tx'[d] = Idle
           \/ /\ tx'[d].pc = "drop" /\ tx'[d].op = "none" /\ tx'[d].inserted = {}
              /\ \E u \in Users : tx'[d].ids = {u},
         UNCHANGED <<driver, verified, banned>>
  PROVE  TxInv'
<1>1. \A d \in Callers : Open(d)' => Open(d) /\ tx'[d] = tx[d]
  BY DEF Open
<1>2. \A d \in Callers : \A table : RowLocks(d, table)' = RowLocks(d, table) \/ RowLocks(d, table)' = {}
  BY DEF RowLocks, Open
<1>3. \A table : Rows(table)' = Rows(table)
  BY DEF Rows
<1>4. NothingSlippedIn'
  BY <1>1, <1>3 DEF TxInv, NothingSlippedIn
<1>5. NoCrossing'
  BY <1>1 DEF TxInv, NoCrossing
<1>6. LocksAreExclusive'
  BY <1>1, <1>2 DEF TxInv, LocksAreExclusive
<1>7. WriteSets'
  BY DEF TxInv, WriteSets
<1> QED BY <1>4, <1>5, <1>6, <1>7 DEF TxInv

(* A call that begins has written nothing yet.                             *)
LEMMA BeginKeeps ==
  ASSUME TypeOK, TxInv, NEW c \in Callers, NEW op \in {"verify", "ban"},
         NEW ids \in SUBSET Users, Begin(c, op, ids), op = "ban" => "BanUser" \in Calls
  PROVE  TxInv'
<1>1. /\ \A d \in Callers \ {c} : tx'[d] = tx[d]
      /\ tx'[c].pc = "delete" /\ tx'[c].op = op /\ tx'[c].inserted = {}
      /\ UNCHANGED <<driver, verified, banned>>
  BY DEF Begin, TypeOK, TxStates
<1>2. \A d \in Callers : Open(d)' => Open(d) /\ tx'[d] = tx[d]
  BY <1>1 DEF Open
<1>3. \A d \in Callers : \A table : RowLocks(d, table)' = RowLocks(d, table) \/ RowLocks(d, table)' = {}
  BY <1>1, <1>2 DEF RowLocks, Open
<1>4. NothingSlippedIn'
  BY <1>1, <1>2 DEF TxInv, NothingSlippedIn, Rows
<1>5. NoCrossing'
  BY <1>2 DEF TxInv, NoCrossing
<1>6. LocksAreExclusive'
  BY <1>1, <1>2, <1>3 DEF TxInv, LocksAreExclusive
<1>7. WriteSets'
  BY <1>1 DEF TxInv, WriteSets
<1> QED BY <1>4, <1>5, <1>6, <1>7 DEF TxInv

(* A transaction deletes where nobody has inserted.                        *)
LEMMA DeleteKeeps ==
  ASSUME Sound, TypeOK, TxInv, NEW c \in Callers, Delete(c)
  PROVE  TxInv'
<1> DEFINE table == Source(tx[c].op)
<1>1. /\ \A d \in Callers \ {c} : tx'[d] = tx[d]
      /\ tx'[c].pc = "insert" /\ tx'[c].op = tx[c].op /\ tx'[c].ids = tx[c].ids
      /\ tx'[c].deleted = tx[c].ids \cap Rows(table)
      /\ tx'[c].inserted = {}
      /\ tx[c].op \in {"verify", "ban"}
      /\ UNCHANGED <<driver, verified, banned>>
  BY DeleteStep DEF Delete, TxInv, WriteSets
<1>2. \A d \in Callers \ {c} : Open(d)' = Open(d)
  BY <1>1 DEF Open
<1>3. \A t : Rows(t)' = Rows(t)
  BY <1>1 DEF Rows
<1>4. NothingSlippedIn'
  BY <1>1, <1>2, <1>3 DEF TxInv, NothingSlippedIn
<1>5. ASSUME NEW d \in Callers \ {c}, Open(d), tx[d].op # tx[c].op
      PROVE  tx[c].ids \cap tx[d].inserted = {}
  <2>1. tx[d].op \in {"verify", "ban"}
    BY <1>5 DEF Open, TxInv, WriteSets
  <2>2. CASE driver = "sqlite"
    BY <1>5, <2>2 DEF Delete, Alone
  <2>3. CASE driver = "mysql"
    <3>1. RowLocks(d, table) \cap tx[c].ids = {}
      BY <2>3 DEF Delete, Unlocked, Seen
    <3>2. RowLocks(d, table) = tx[d].inserted
      BY <1>1, <1>5, <2>1 DEF RowLocks, Source
    <3> QED BY <3>1, <3>2
  <2>4. CASE driver \in {"postgres", "tidb"}
    <3>1. "BanUser" \in Calls
      BY <1>1, <1>5, <2>1 DEF TxInv, WriteSets
    <3> QED BY <2>4, <3>1 DEF Sound, TypeOK
  <2> QED BY <2>2, <2>3, <2>4, TransactionsAssumption DEF TypeOK
<1>6. NoCrossing'
  BY <1>1, <1>2, <1>5 DEF TxInv, NoCrossing
<1>7. LocksAreExclusive'
  <2>1. ASSUME NEW d \in Callers \ {c}, NEW t \in {"verified", "banned"}
        PROVE  RowLocks(c, t)' \cap RowLocks(d, t)' = {}
    <3>1. RowLocks(d, t)' = RowLocks(d, t)
      BY <1>1, <1>2 DEF RowLocks
    <3>2. RowLocks(c, t)' = IF t = table THEN tx[c].ids \cap Rows(table) ELSE {}
      BY <1>1 DEF RowLocks, Open
    <3>3. RowLocks(d, table) \cap Seen(table, tx[c].ids) = {}
      BY DEF Delete, Unlocked
    <3> QED BY <3>1, <3>2, <3>3 DEF Seen
  <2>2. ASSUME NEW d \in Callers \ {c}, driver = "sqlite" PROVE ~Open(d)
    BY <2>2 DEF Delete, Alone
  <2> QED BY <1>1, <1>2, <2>1, <2>2 DEF TxInv, LocksAreExclusive, RowLocks
<1>8. WriteSets'
  BY <1>1 DEF TxInv, WriteSets
<1> QED BY <1>4, <1>6, <1>7, <1>8 DEF TxInv

(* A transaction inserts where nobody has looked for rows to delete.       *)
LEMMA InsertKeeps ==
  ASSUME Sound, TypeOK, TxInv, NEW c \in Callers, NEW batch \in SUBSET Users,
         Insert(c, batch)
  PROVE  TxInv'
<1> DEFINE table == Target(tx[c].op)
<1>0. /\ tx[c].pc = "insert" /\ batch \subseteq tx[c].ids \ tx[c].inserted
      /\ UNCHANGED <<driver, verified, banned>>
  BY DEF Insert
<1>1. /\ \A d \in Callers \ {c} : tx'[d] = tx[d]
      /\ tx'[c].pc \in {"insert", "commit"}
      /\ tx'[c].pc = "commit" => batch = tx[c].ids \ tx[c].inserted
      /\ tx'[c].op = tx[c].op /\ tx'[c].ids = tx[c].ids
      /\ tx'[c].deleted = tx[c].deleted
      /\ tx'[c].inserted = tx[c].inserted \cup batch
      /\ batch \subseteq tx[c].ids
      /\ tx[c].op \in {"verify", "ban"}
      /\ UNCHANGED <<driver, verified, banned>>
  BY <1>0, InsertStep DEF TxInv, WriteSets
<1>2. Open(c) /\ \A d \in Callers : Open(d)' = Open(d)
  BY <1>0, <1>1 DEF Open
<1>3. \A t : Rows(t)' = Rows(t)
  BY <1>1 DEF Rows
<1>4. NothingSlippedIn'
  BY <1>1, <1>2, <1>3 DEF TxInv, NothingSlippedIn
<1>5. ASSUME NEW d \in Callers \ {c}, Open(d), tx[d].op # tx[c].op
      PROVE  tx[d].ids \cap batch = {}
  <2>1. tx[d].op \in {"verify", "ban"}
    BY <1>5 DEF Open, TxInv, WriteSets
  <2>2. CASE driver = "sqlite"
    BY <1>2, <1>5, <2>2 DEF TxInv, LocksAreExclusive
  <2>3. CASE driver = "mysql"
    <3>1. GapLocks(d, table) \cap batch = {}
      BY DEF Insert, NoGaps
    <3>2. GapLocks(d, table) = tx[d].ids
      BY <1>1, <1>5, <2>1, <2>3 DEF GapLocks, Source, Target
    <3> QED BY <3>1, <3>2
  <2>4. CASE driver \in {"postgres", "tidb"}
    <3>1. "BanUser" \in Calls
      BY <1>1, <1>5, <2>1 DEF TxInv, WriteSets
    <3> QED BY <2>4, <3>1 DEF Sound, TypeOK
  <2> QED BY <2>2, <2>3, <2>4, TransactionsAssumption DEF TypeOK
<1>6. NoCrossing'
  BY <1>1, <1>2, <1>5 DEF TxInv, NoCrossing
<1>7. LocksAreExclusive'
  <2>1. ASSUME NEW d \in Callers \ {c}, NEW t \in {"verified", "banned"}
        PROVE  RowLocks(c, t)' \cap RowLocks(d, t)' = {}
    <3>1. RowLocks(d, t)' = RowLocks(d, t)
      BY <1>1, <1>2 DEF RowLocks
    <3>2. RowLocks(c, t) \cap RowLocks(d, t) = {}
      BY DEF TxInv, LocksAreExclusive
    <3>3. CASE t = Source(tx[c].op)
      BY <1>1, <1>2, <3>1, <3>2, <3>3 DEF RowLocks
    <3>4. CASE t # Source(tx[c].op)
      <4>1. t = table
        BY <1>1, <3>4 DEF Source, Target
      <4>2. RowLocks(c, t)' = RowLocks(c, t) \cup batch
        BY <1>1, <1>2, <3>4 DEF RowLocks
      <4>3. RowLocks(d, t) \cap batch = {}
        BY <4>1 DEF Insert, Unlocked
      <4> QED BY <3>1, <3>2, <4>2, <4>3
    <3> QED BY <3>3, <3>4
  <2>2. ASSUME NEW d \in Callers \ {c}, driver = "sqlite" PROVE ~Open(d)
    BY <1>2, <2>2 DEF TxInv, LocksAreExclusive
  <2> QED BY <1>1, <1>2, <2>1, <2>2 DEF TxInv, LocksAreExclusive, RowLocks
<1>8. WriteSets'
  BY <1>0, <1>1 DEF TxInv, WriteSets
<1> QED BY <1>4, <1>6, <1>7, <1>8 DEF TxInv

(* Changing a table leaves another transaction's view of it whole if it    *)
(* neither adds a row for its users nor removes one it has deleted.        *)
LEMMA RowsStep ==
  ASSUME TypeOK, TxInv, UNCHANGED driver,
         \A d \in Callers : Open(d)' => Open(d) /\ tx'[d] = tx[d],
         \A d \in Callers : tx'[d] = tx[d] \/ tx'[d] = Idle,
         \A d \in Callers, table \in {"verified", "banned"} :
           Open(d)' /\ table = Source(tx[d].op)
             => tx[d].ids \cap Rows(table)' = tx[d].deleted
  PROVE  TxInv'
<1>1. NothingSlippedIn'
  BY DEF NothingSlippedIn, Source
<1>2. NoCrossing'
  BY DEF TxInv, NoCrossing
<1>3. LocksAreExclusive'
  <2>1. \A d \in Callers : \A table : RowLocks(d, table)' = RowLocks(d, table) \/ RowLocks(d, table)' = {}
    BY DEF RowLocks
  <2> QED BY <2>1 DEF TxInv, LocksAreExclusive
<1>4. WriteSets'
  BY DEF TxInv, WriteSets
<1> QED BY <1>1, <1>2, <1>3, <1>4 DEF TxInv

(* What a commit does to the rows of the two tables.                       *)
LEMMA CommitStep ==
  ASSUME TypeOK, TxInv, NEW c \in Callers, Commit(c)
  PROVE  /\ Open(c) /\ tx[c].inserted = tx[c].ids
         /\ tx[c].op \in {"verify", "ban"}
         /\ tx' = [tx EXCEPT ![c] = Idle] /\ UNCHANGED driver
         /\ \A table \in {"verified", "banned"} :
              Rows(table)' = IF table = Source(tx[c].op)
                             THEN Rows(table) \ tx[c].deleted
                             ELSE Rows(table) \cup tx[c].inserted
<1>1. /\ tx[c].pc = "commit" /\ tx' = [tx EXCEPT ![c] = Idle] /\ UNCHANGED driver
      /\ Open(c)
  BY DEF Commit, Open
<1>2. tx[c].inserted = tx[c].ids /\ tx[c].op \in {"verify", "ban"}
  BY <1>1 DEF TxInv, WriteSets
<1>3. CASE tx[c].op = "verify"
  BY <1>1, <1>2, <1>3, BusyType DEF Commit, Without, Rows, Source, TypeOK
<1>4. CASE tx[c].op = "ban"
  BY <1>1, <1>2, <1>4, BusyType DEF Commit, With, Rows, Source, TypeOK
<1> QED BY <1>1, <1>2, <1>3, <1>4

(* A commit takes no row another transaction has deleted, and adds none    *)
(* where another has looked.                                               *)
LEMMA CommitKeeps ==
  ASSUME TypeOK, TxInv, NEW c \in Callers, Commit(c)
  PROVE  TxInv'
<1>1. \A d \in Callers : IF d = c THEN tx'[d] = Idle ELSE tx'[d] = tx[d]
  BY CommitStep DEF TypeOK
<1>2. \A d \in Callers : Open(d)' => Open(d) /\ tx'[d] = tx[d] /\ d # c
  BY <1>1 DEF Open
<1>3. ASSUME NEW d \in Callers, NEW table \in {"verified", "banned"},
             Open(d)', table = Source(tx[d].op)
      PROVE  tx[d].ids \cap Rows(table)' = tx[d].deleted
  <2>1. Open(d) /\ d # c /\ tx[d].op \in {"verify", "ban"}
    BY <1>2, <1>3 DEF TxInv, WriteSets, Open
  <2>2. tx[d].ids \cap Rows(table) = tx[d].deleted
    BY <1>3, <2>1 DEF TxInv, NothingSlippedIn
  <2>3. CASE tx[d].op = tx[c].op
    <3>1. RowLocks(c, table) \cap RowLocks(d, table) = {}
      BY <2>1 DEF TxInv, LocksAreExclusive
    <3>2. tx[c].deleted \cap tx[d].deleted = {}
      BY <1>3, <2>1, <2>3, <3>1, CommitStep DEF RowLocks
    <3> QED BY <1>3, <2>2, <2>3, <3>2, CommitStep
  <2>4. CASE tx[d].op # tx[c].op
    <3>1. tx[d].ids \cap tx[c].inserted = {}
      BY <2>1, <2>4, CommitStep DEF TxInv, NoCrossing
    <3>2. table # Source(tx[c].op)
      BY <1>3, <2>1, <2>4, CommitStep DEF Source
    <3> QED BY <2>2, <3>1, <3>2, CommitStep
  <2> QED BY <2>3, <2>4
<1> QED BY <1>1, <1>2, <1>3, CommitStep, RowsStep

(* IsBannedUser's DELETE waits for a row another transaction has deleted.  *)
LEMMA DropKeeps ==
  ASSUME TypeOK, TxInv, NEW c \in Callers, DropBan(c)
  PROVE  TxInv'
<1>1. /\ tx[c].pc = "drop" /\ tx' = [tx EXCEPT ![c] = Idle] /\ UNCHANGED driver
      /\ verified' = verified /\ banned' = Without(tx[c].ids)
      /\ Unlocked(c, "banned", Seen("banned", tx[c].ids))
  BY DEF DropBan
<1>2. /\ \A d \in Callers : Open(d)' => Open(d) /\ tx'[d] = tx[d] /\ d # c
      /\ \A d \in Callers : tx'[d] = tx[d] \/ tx'[d] = Idle
  BY <1>1 DEF Open, TypeOK
<1>3. Rows("banned")' = Rows("banned") \ tx[c].ids /\ Rows("verified")' = Rows("verified")
  BY <1>1, BusyType DEF Without, Rows
<1>4. ASSUME NEW d \in Callers, NEW table \in {"verified", "banned"},
             Open(d)', table = Source(tx[d].op)
      PROVE  tx[d].ids \cap Rows(table)' = tx[d].deleted
  <2>1. Open(d) /\ d # c
    BY <1>2, <1>4
  <2>2. tx[d].ids \cap Rows(table) = tx[d].deleted
    BY <1>4, <2>1 DEF TxInv, NothingSlippedIn
  <2>3. CASE table = "banned"
    <3>1. RowLocks(d, "banned") = tx[d].deleted
      BY <1>4, <2>1, <2>3 DEF RowLocks
    <3>2. tx[d].deleted \cap Seen("banned", tx[c].ids) = {}
      BY <1>1, <2>1, <3>1 DEF Unlocked
    <3> QED BY <1>3, <2>2, <2>3, <3>2 DEF Seen
  <2>4. CASE table = "verified"
    BY <1>3, <2>2, <2>4
  <2> QED BY <2>3, <2>4
<1> QED BY <1>1, <1>2, <1>4, RowsStep

(* Every step keeps TxInv.                                                 *)
LEMMA TxStep == ASSUME Sound PROVE TypeOK /\ TxInv /\ [Next]_vars => TxInv'
<1> SUFFICES ASSUME TypeOK, TxInv, [Next]_vars PROVE TxInv'
  OBVIOUS
<1>1. ASSUME NEW c \in Callers, NEW u \in Users,
             VerifyUser(c, u) \/ BanUser(c, u)
      PROVE  TxInv'
  BY <1>1, BeginKeeps DEF VerifyUser, BanUser
<1>2. ASSUME NEW c \in Callers, NEW ids \in SUBSET Users, VerifyUsers(c, ids)
      PROVE  TxInv'
  BY <1>2, BeginKeeps DEF VerifyUsers
<1>3. ASSUME NEW c \in Callers, NEW u \in Users, IsBannedUser(c, u) PROVE TxInv'
  BY <1>3, EndedCall DEF IsBannedUser, TypeOK
<1>4. ASSUME NEW c \in Callers, NEW batch \in SUBSET Users, Insert(c, batch)
      PROVE  TxInv'
  BY <1>4, InsertKeeps
<1>5. ASSUME NEW c \in Callers, Delete(c) PROVE TxInv'
  BY <1>5, DeleteKeeps
<1>6. ASSUME NEW c \in Callers, Commit(c) PROVE TxInv'
  BY <1>6, CommitKeeps
<1>7. ASSUME NEW c \in Callers, Rollback(c) PROVE TxInv'
  BY <1>7, EndedCall DEF Rollback, TypeOK
<1>8. ASSUME NEW c \in Callers, DropBan(c) PROVE TxInv'
  BY <1>8, DropKeeps
<1>9. ASSUME NEW u \in Users, BanExpires(u) PROVE TxInv'
  <2>1. Rows("banned")' = Rows("banned") /\ Rows("verified")' = Rows("verified")
    BY <1>9 DEF BanExpires, Rows, TypeOK
  <2>2. \A d \in Callers, table \in {"verified", "banned"} :
          Open(d) /\ table = Source(tx[d].op)
            => tx[d].ids \cap Rows(table)' = tx[d].deleted
    BY <2>1 DEF TxInv, NothingSlippedIn
  <2>3. \A d \in Callers : Open(d)' = Open(d) /\ tx'[d] = tx[d]
    BY <1>9 DEF BanExpires, Open
  <2> QED BY <1>9, <2>2, <2>3, RowsStep DEF BanExpires
<1>10. CASE Crash
  BY <1>10, EndedCall DEF Crash
<1>11. CASE UNCHANGED vars
  BY <1>11, EndedCall DEF vars
<1> QED
  BY <1>1, <1>2, <1>3, <1>4, <1>5, <1>6, <1>7, <1>8, <1>9, <1>10, <1>11 DEF Next

(* What a transaction has read to delete stays all there is, to the end.   *)
THEOREM TransactionsAreWhole == ASSUME Sound PROVE Spec => []TxInv
<1>1. Init => TxInv
  BY DEF Init, TxInv, NothingSlippedIn, NoCrossing, LocksAreExclusive, WriteSets,
         RowLocks, Open
<1>2. TypeOK /\ TxInv /\ [Next]_vars => TxInv'
  BY TxStep
<1> QED BY <1>1, <1>2, TypeCorrect, PTL DEF Spec

-----------------------------------------------------------------------------
(* Statement by statement, the transactions do what Tables does in one     *)
(* step: the commit is the step.                                           *)
THEOREM TransactionsImplementTables == ASSUME Sound PROVE Spec => ImplementsTables
<1>1. Init => T!Init
  BY DEF Init, T!Init, T!BanStates
<1>2. TypeOK /\ TxInv /\ [Next]_vars => [T!Next]_<<verified, banned>>
  <2> SUFFICES ASSUME TypeOK, TxInv, Next, ~UNCHANGED <<verified, banned>> PROVE T!Next
    BY DEF vars
  <2>1. ASSUME NEW c \in Callers, Commit(c) PROVE T!Next
    <3>1. tx[c].inserted = tx[c].ids /\ Open(c) /\ tx[c].op \in {"verify", "ban"}
      BY <2>1, CommitStep
    <3>2. tx[c].ids \cap Rows(Source(tx[c].op)) = tx[c].deleted /\ tx[c].ids \in SUBSET Users
      BY <3>1, BusyType DEF TxInv, NothingSlippedIn
    <3>3. CASE tx[c].op = "verify"
      <4>1. T!Verify(tx[c].ids)
        BY <2>1, <3>1, <3>2, <3>3 DEF Commit, Without, Rows, Source, TypeOK, T!Verify
      <4> QED BY <3>2, <4>1 DEF T!Next
    <3>4. CASE tx[c].op = "ban"
      <4>1. T!Ban(tx[c].ids)
        BY <2>1, <3>1, <3>2, <3>4 DEF Commit, With, Rows, Source, TypeOK, T!Ban
      <4> QED BY <3>2, <4>1 DEF T!Next
    <3> QED BY <3>1, <3>3, <3>4
  <2>2. ASSUME NEW c \in Callers, DropBan(c) PROVE T!Next
    <3>1. PICK u \in Users : tx[c].ids = {u}
      BY <2>2 DEF DropBan, TxInv, WriteSets
    <3>2. T!Forget(u)
      BY <2>2, <3>1 DEF DropBan, Without, TypeOK, T!Forget
    <3> QED BY <3>2 DEF T!Next
  <2>3. ASSUME NEW u \in Users, BanExpires(u) PROVE T!Next
    BY <2>3 DEF BanExpires, T!Next, T!Expire
  <2> QED
    BY <2>1, <2>2, <2>3 DEF Next, VerifyUser, VerifyUsers, BanUser, Begin, IsBannedUser,
       Insert, Delete, Rollback, Crash
<1> QED
  BY <1>1, <1>2, TypeCorrect, TransactionsAreWhole, PTL DEF Spec, ImplementsTables, T!Spec

(* So no order of verifications, bans and bans that run out leaves a user  *)
(* both verified and banned.                                               *)
THEOREM NeverBoth == ASSUME Sound PROVE Spec => []Exclusive
<1>1. T!Init => Exclusive
  BY DEF T!Init, Exclusive
<1>2. Exclusive /\ TypeOK /\ TypeOK' /\ [T!Next]_<<verified, banned>> => Exclusive'
  BY DEF T!Next, T!Verify, T!Ban, T!Forget, T!Expire, Exclusive, TypeOK
<1> QED
  BY <1>1, <1>2, TypeCorrect, TransactionsImplementTables, PTL
  DEF ImplementsTables, T!Spec
=============================================================================
