---------------------------- MODULE Transactions ----------------------------
(***************************************************************************)
(* The transactions of storage.Storage on the tables verified and banned,  *)
(* statement by statement.  VerifyUser, VerifyUsers and BanUser delete     *)
(* from one table and insert into the other; how much of what they read    *)
(* and write others keep off until they commit depends on the database the *)
(* configuration names.                                                    *)
(***************************************************************************)
EXTENDS FiniteSets, Naturals

CONSTANTS
  Users,       \* Telegram users
  Callers,     \* goroutines that may be inside a call of Storage
  Drivers,     \* databases the program may be configured with
  Calls,       \* the methods of Storage the goroutines call
  BatchSize    \* rows of one INSERT (1000 in the code)

Methods == {"VerifyUser", "VerifyUsers", "BanUser", "IsBannedUser"}

(* "mysql" also stands for MariaDB.                                        *)
ASSUME TransactionsAssumption ==
  /\ Drivers \subseteq {"sqlite", "mysql", "postgres", "tidb"}
  /\ Calls \subseteq Methods
  /\ BatchSize \in Nat \ {0}
  /\ IsFiniteSet(Users)

VARIABLES
  driver,     \* what createDialector chose
  verified,   \* users with a committed row in verified
  banned,     \* the committed row of every user in banned
  tx          \* the call every goroutine is in

vars == <<driver, verified, banned, tx>>

BanStates == {"none", "active", "expired"}

(* pc is the statement that comes next: the DELETE from the other table,   *)
(* an INSERT, the COMMIT, or the lone DELETE of IsBannedUser.              *)
Idle == [pc |-> "idle", op |-> "none", ids |-> {}, deleted |-> {}, inserted |-> {}]

TxStates ==
  {Idle} \cup [pc : {"delete", "insert", "commit", "drop"},
               op : {"verify", "ban", "none"},
               ids : SUBSET Users, deleted : SUBSET Users, inserted : SUBSET Users]

Source(op) == IF op = "verify" THEN "banned" ELSE "verified"
Target(op) == IF op = "verify" THEN "verified" ELSE "banned"

Rows(table) == IF table = "verified" THEN verified
                                     ELSE {u \in Users : banned[u] # "none"}

-----------------------------------------------------------------------------
(* What a transaction keeps others off until it ends.                      *)

Open(c) == tx[c].pc \in {"insert", "commit"}

(* Rows it has deleted or inserted.                                        *)
RowLocks(c, table) ==
  IF ~Open(c) THEN {}
  ELSE IF table = Source(tx[c].op) THEN tx[c].deleted ELSE tx[c].inserted

(* InnoDB, at its default isolation level, also locks the places of the    *)
(* index where its DELETE found nothing: nobody inserts there.  TiDB, which*)
(* the code gives MySQL's dialect, has no such locks.                      *)
GapLocks(c, table) ==
  IF driver = "mysql" /\ Open(c) /\ table = Source(tx[c].op) THEN tx[c].ids ELSE {}

(* SQLite lets one connection write at a time.                             *)
Alone(c) == driver = "sqlite" => \A d \in Callers \ {c} : ~Open(d)

Unlocked(c, table, ids) ==
  \A d \in Callers \ {c} : RowLocks(d, table) \cap ids = {}

NoGaps(c, table, ids) ==
  \A d \in Callers \ {c} : GapLocks(d, table) \cap ids = {}

(* What a DELETE comes upon: the committed rows and, with InnoDB, the      *)
(* records others have inserted and not committed.  It waits for those     *)
(* that are locked.                                                        *)
Seen(table, ids) == IF driver = "mysql" THEN ids ELSE ids \cap Rows(table)
-----------------------------------------------------------------------------
Init ==
  /\ driver \in Drivers
  /\ verified \in SUBSET Users
  /\ banned \in [Users -> BanStates]
  /\ \A u \in verified : banned[u] = "none"
  /\ tx = [c \in Callers |-> Idle]

Begin(c, op, ids) ==
  /\ tx[c] = Idle
  /\ tx' = [tx EXCEPT ![c] = [Idle EXCEPT !.pc = "delete", !.op = op, !.ids = ids]]
  /\ UNCHANGED <<driver, verified, banned>>

VerifyUser(c, u) == "VerifyUser" \in Calls /\ Begin(c, "verify", {u})

VerifyUsers(c, ids) == "VerifyUsers" \in Calls /\ Begin(c, "verify", ids)

BanUser(c, u) == "BanUser" \in Calls /\ Begin(c, "ban", {u})

(* tx.Delete: "Remove the user from the banned list", or the verified one. *)
Delete(c) ==
  LET t == tx[c]
      table == Source(t.op)
  IN  /\ t.pc = "delete"
      /\ Alone(c)
      /\ Unlocked(c, table, Seen(table, t.ids))
      /\ tx' = [tx EXCEPT ![c].pc = "insert",
                          ![c].deleted = t.ids \cap Rows(table)]
      /\ UNCHANGED <<driver, verified, banned>>

(* Mutant: InnoDB at READ COMMITTED locks no gaps.                         *)
InsertIntoGaps(c, batch) ==
  LET t == tx[c]
      left == t.ids \ t.inserted
  IN  /\ t.pc = "insert"
      /\ batch \subseteq left
      /\ batch = left \/ Cardinality(batch) = BatchSize
      /\ Cardinality(batch) <= BatchSize
      /\ Unlocked(c, Target(t.op), batch)
      /\ tx' = [tx EXCEPT ![c].inserted = @ \cup batch,
                          ![c].pc = IF batch = left THEN "commit" ELSE "insert"]
      /\ UNCHANGED <<driver, verified, banned>>

(* Create, or CreateInBatches: a row that is there is updated.             *)
Insert(c, batch) ==
  LET t == tx[c]
      table == Target(t.op)
      left == t.ids \ t.inserted
  IN  /\ t.pc = "insert"
      /\ batch \subseteq left
      /\ batch = left \/ Cardinality(batch) = BatchSize
      /\ Cardinality(batch) <= BatchSize
      /\ Unlocked(c, table, batch)
      /\ NoGaps(c, table, batch)
      /\ tx' = [tx EXCEPT ![c].inserted = @ \cup batch,
                          ![c].pc = IF batch = left THEN "commit" ELSE "insert"]
      /\ UNCHANGED <<driver, verified, banned>>

(* Mutant: a deleted ban stays in the table, marked as such.               *)
WithoutSoftly(ids) == [u \in Users |-> IF u \in ids THEN "deleted" ELSE banned[u]]

Without(ids) == [u \in Users |-> IF u \in ids THEN "none" ELSE banned[u]]
With(ids) == [u \in Users |-> IF u \in ids THEN "active" ELSE banned[u]]

(* The writes of the transaction become everybody's.                       *)
Commit(c) ==
  LET t == tx[c]
  IN  /\ t.pc = "commit"
      /\ IF t.op = "verify"
         THEN /\ verified' = verified \cup t.inserted
              /\ banned' = Without(t.deleted)
         ELSE /\ verified' = verified \ t.deleted
              /\ banned' = With(t.inserted)
      /\ tx' = [tx EXCEPT ![c] = Idle]
      /\ UNCHANGED driver

(* Mutant: the batches inserted so far are not undone.                     *)
RollbackKeepsBatches(c) ==
  /\ tx[c].pc # "idle"
  /\ verified' = IF tx[c].op = "verify" THEN verified \cup tx[c].inserted ELSE verified
  /\ tx' = [tx EXCEPT ![c] = Idle]
  /\ UNCHANGED <<driver, banned>>

(* A statement or the commit fails (an error, a busy database, a deadlock  *)
(* the database resolved) or the callback panics: gorm rolls back.         *)
Rollback(c) ==
  /\ tx[c].pc # "idle"
  /\ tx' = [tx EXCEPT ![c] = Idle]
  /\ UNCHANGED <<driver, verified, banned>>

(* IsBannedUser read a ban that has run out; it deletes the row next.      *)
IsBannedUser(c, u) ==
  /\ "IsBannedUser" \in Calls
  /\ tx[c] = Idle
  /\ banned[u] = "expired"
  /\ tx' = [tx EXCEPT ![c] = [Idle EXCEPT !.pc = "drop", !.ids = {u}]]
  /\ UNCHANGED <<driver, verified, banned>>

DropBan(c) ==
  LET ids == tx[c].ids
  IN  /\ tx[c].pc = "drop"
      /\ Alone(c)
      /\ Unlocked(c, "banned", Seen("banned", ids))
      /\ banned' = Without(ids)
      /\ tx' = [tx EXCEPT ![c] = Idle]
      /\ UNCHANGED <<driver, verified>>

BanExpires(u) ==
  /\ banned[u] = "active"
  /\ banned' = [banned EXCEPT ![u] = "expired"]
  /\ UNCHANGED <<driver, verified, tx>>

(* The process dies: the database rolls back what was not committed.       *)
Crash ==
  /\ tx' = [c \in Callers |-> Idle]
  /\ UNCHANGED <<driver, verified, banned>>

Next ==
  \/ \E c \in Callers, u \in Users :
       VerifyUser(c, u) \/ BanUser(c, u) \/ IsBannedUser(c, u)
  \/ \E c \in Callers, ids \in SUBSET Users :
       VerifyUsers(c, ids) \/ Insert(c, ids)
  \/ \E c \in Callers : Delete(c) \/ Commit(c) \/ Rollback(c) \/ DropBan(c)
  \/ \E u \in Users : BanExpires(u)
  \/ Crash

Spec == Init /\ [][Next]_vars
-----------------------------------------------------------------------------
(* Every variable has its type.                                            *)
TypeOK ==
  /\ driver \in Drivers
  /\ verified \subseteq Users
  /\ banned \in [Users -> BanStates]
  /\ tx \in [Callers -> TxStates]

(* Nobody is verified and banned at once, statement by statement too.      *)
Exclusive == \A u \in verified : banned[u] = "none"

(* A transaction that has deleted still holds all there is to delete: no   *)
(* row has come into the table it deleted from for a user it is about to   *)
(* put into the other one.                                                 *)
NothingSlippedIn ==
  \A c \in Callers :
    Open(c) => tx[c].ids \cap Rows(Source(tx[c].op)) = tx[c].deleted

(* No two transactions that move the same user in opposite directions      *)
(* have got past their first statement and into their second.              *)
NoCrossing ==
  \A c, d \in Callers :
    Open(c) /\ Open(d) /\ tx[c].op # tx[d].op => tx[c].ids \cap tx[d].inserted = {}

(* A row has one writer, and SQLite's database too.                        *)
LocksAreExclusive ==
  \A c, d \in Callers :
    /\ c # d => \A table \in {"verified", "banned"} :
                  RowLocks(c, table) \cap RowLocks(d, table) = {}
    /\ Open(c) /\ Open(d) /\ driver = "sqlite" => c = d

(* How far a transaction has come agrees with what it has written.         *)
WriteSets ==
  \A c \in Callers :
    /\ tx[c].pc = "delete" => tx[c].inserted = {}
    /\ tx[c].pc \in {"delete", "insert", "commit"} => tx[c].op \in {"verify", "ban"}
    /\ tx[c].pc = "commit" => tx[c].inserted = tx[c].ids
    /\ tx[c].inserted \subseteq tx[c].ids
    /\ tx[c].op = "ban" => "BanUser" \in Calls
    /\ tx[c].pc = "drop" => \E u \in Users : tx[c].ids = {u}

(* What makes a transaction whole: why its two tables change as if at      *)
(* once, though others run between its statements.                         *)
TxInv == NothingSlippedIn /\ NoCrossing /\ LocksAreExclusive /\ WriteSets

(* Every step of the transactions is one of the tables', whole or not at   *)
(* all: what the callers of Storage count on.                              *)
T == INSTANCE Tables

ImplementsTables == T!Spec
=============================================================================
