---------------------------- MODULE MessageStore ----------------------------
(***************************************************************************)
(* How messages reach the database: storeMessagesMiddleware starts a       *)
(* goroutine for every message, and UpsertMessage saves the chats and the  *)
(* users the message names, if the cache does not know them as they are,   *)
(* and then the message, in one transaction.                               *)
(*                                                                         *)
(* The goroutines run side by side.  The database lets one transaction     *)
(* write at a time (SQLite, the default driver); the cache is outside the  *)
(* transactions.                                                           *)
(***************************************************************************)
EXTENDS Ristretto

CONSTANTS
  Chats, Users,  \* what messages name
  NoOne,         \* no entity, no goroutine
  Workers,       \* goroutines storing messages
  Mentions,      \* what a message may name besides its chat and its sender:
                 \* "none", "other", or "self" for its sender a second time
  Renamed,       \* chats and users that may change their name, once
  MaxSent,       \* bound on the messages of a chat
  Brief,         \* bound: chats of one message that is not edited
  MaxEdits,      \* bound on the edits of a message
  Faults,        \* what may go wrong
  PendingLimit,  \* capacity of the cache's write buffer
  Prompt         \* whether the cache's goroutine is faster than the others

Entities == Chats \cup Users

ASSUME MessageAssumption ==
  /\ NoOne \notin Entities \cup Workers
  /\ Chats \cap Users = {}
  /\ Mentions \subseteq {"none", "other", "self"}
  /\ Renamed \subseteq Entities
  /\ MaxSent \in Nat /\ MaxEdits \in Nat
  /\ Brief \subseteq Chats
  /\ Faults \subseteq {"write", "crash"}
  /\ PendingLimit \in Nat \ {0}
  /\ Prompt \in BOOLEAN

VARIABLES
  name,    \* Telegram: the current name of every chat and user
  sent,    \* Telegram: the messages of every chat; the n-th one has id n
  cache,   \* the cells "_chat#<id>" and "_user#<id>": the hash last saved
  db,      \* the tables, as committed
  tx,      \* the tables, as the transaction that writes sees them
  writer,  \* the goroutine whose transaction writes
  worker,  \* what every goroutine is doing
  acked    \* messages whose goroutine reported them stored

vars == <<name, sent, cache, db, tx, writer, worker, acked>>

Ids == 1..MaxSent
Names == {"old", "new"}

(* A row of chats or users: the name, and whether last_seen is set.        *)
Row == [name : Names, seen : BOOLEAN]
NoRow == [name |-> "none", seen |-> FALSE]

(* The hash of a row, without collisions.  last_seen is part of it, a time *)
(* stamped anew for every message, so all that is known of the hash of a   *)
(* row that has been seen is that it is none of an unseen one.             *)
Hashes == Names \cup {"seen"}
Hash(row) == IF row.seen THEN "seen" ELSE row.name

(* A message's primary key is its id alone.                                *)
Text == [chat : Chats, sender : Users, text : 0..MaxEdits]
NoText == [chat |-> NoOne, sender |-> NoOne, text |-> 0]

Tables == [rows : [Entities -> Row \cup {NoRow}], messages : [Ids -> Text \cup {NoText}]]

(* An update: a message as it is now, what it names besides its chat and   *)
(* sender, the message it replies to (0 for none) and everyone's names.    *)
Update == [id : Ids, msg : Text, other : Entities \cup {NoOne},
           reply : Ids \cup {0}, replied : Text \cup {NoText},
           names : [Entities -> Names]]

Batches == UNION {[E -> Row] : E \in SUBSET Entities}
NoBatch == [e \in {} |-> NoRow]

Idle == [pc |-> "idle"]

WorkerStates ==
  {Idle} \cup [pc : {"begin", "chats", "users", "message", "commit"},
               update : Update, batch : Batches]

Ready == Prompt => \A e \in Entities : cache[e].buf = <<>>
At(w, pc) == Ready /\ worker[w].pc = pc
Goto(w, pc, batch) ==
  worker' = [worker EXCEPT ![w] = [@ EXCEPT !.pc = pc, !.batch = batch]]
Return(w) == worker' = [worker EXCEPT ![w] = Idle]
May(fault) == fault \in Faults

-----------------------------------------------------------------------------
(* The values UpsertChats and UpsertUsers save: those the cache does not   *)
(* hold.  Of two values for one user the later one in the list counts, and *)
(* the sender, who has been seen, comes first.                             *)
Plain(u, e) == [name |-> u.names[e], seen |-> FALSE]
Seen(u, e) == [Plain(u, e) EXCEPT !.seen = TRUE]

Changed(e, row) == row.seen \/ ~Hit(cache[e]) \/ cache[e].val # Hash(row)

Listed(u) == {u.msg.chat, u.msg.sender, u.other} \ {NoOne}

ChatsToSave(u) ==
  [e \in {c \in Listed(u) \cap Chats : Changed(c, Plain(u, c))} |-> Plain(u, e)]

ListedAsSeen(u, e) == e = u.msg.sender /\ (u.other = e => ~Changed(e, Plain(u, e)))

UsersToSave(u) ==
  [e \in {v \in Listed(u) \cap Users : v = u.msg.sender \/ Changed(v, Plain(u, v))} |->
     IF ListedAsSeen(u, e) THEN Seen(u, e) ELSE Plain(u, e)]

(* The upsert of a batch, with the cache updated before the transaction    *)
(* ends.  An empty batch is no statement.                                  *)
Lock(w) == writer \in {NoOne, w} /\ writer' = w

(* A function with the values another one has for some of its arguments.   *)
Updated(f, by) == [x \in DOMAIN f |-> IF x \in DOMAIN by THEN by[x] ELSE f[x]]

Outcomes(e, row) == SetOutcomes(cache[e], Hash(row), PendingLimit)

CacheSet(batch) ==
  \E cells \in [DOMAIN batch -> UNION {Outcomes(e, batch[e]) : e \in DOMAIN batch}] :
    /\ \A e \in DOMAIN batch : cells[e] \in Outcomes(e, batch[e])
    /\ cache' = Updated(cache, cells)

Save(w, batch) ==
  IF batch = NoBatch THEN UNCHANGED <<cache, tx, writer>>
  ELSE /\ Lock(w)
       /\ tx' = [tx EXCEPT !.rows = Updated(@, batch)]
       /\ CacheSet(batch)

(* Mutant: what has been written so far stays.                             *)
RollbackKeepsWrites(w) ==
  /\ May("write")
  /\ IF writer = w THEN writer' = NoOne ELSE UNCHANGED writer
  /\ Return(w)
  /\ UNCHANGED <<cache, db, tx, acked>>

(* A statement fails and the transaction is rolled back; the cache keeps   *)
(* what it was told.                                                       *)
Rollback(w) ==
  /\ May("write")
  /\ IF writer = w THEN tx' = db /\ writer' = NoOne ELSE UNCHANGED <<tx, writer>>
  /\ Return(w)
  /\ UNCHANGED <<cache, db, acked>>

-----------------------------------------------------------------------------
Init ==
  /\ name = [e \in Entities |-> "old"]
  /\ sent = [c \in Chats |-> <<>>]
  /\ cache = [e \in Entities |-> EmptyCell]
  /\ db = [rows |-> [e \in Entities |-> NoRow], messages |-> [i \in Ids |-> NoText]]
  /\ tx = db
  /\ writer = NoOne
  /\ worker = [w \in Workers |-> Idle]
  /\ acked = {}

Rename(e) ==
  /\ e \in Renamed /\ name[e] = "old"
  /\ name' = [name EXCEPT ![e] = "new"]
  /\ UNCHANGED <<sent, cache, db, tx, writer, worker, acked>>

(* The middleware passes the message on and starts a goroutine.            *)
Deliver(w, c, id, other, reply) ==
  /\ At(w, "idle")
  /\ \/ other = NoOne /\ "none" \in Mentions
     \/ other \in Entities \ {c, sent'[c][id].sender} /\ "other" \in Mentions
     \/ other = sent'[c][id].sender /\ "self" \in Mentions
  /\ worker' = [worker EXCEPT ![w] =
       [pc |-> "begin", batch |-> NoBatch,
        update |-> [id |-> id, msg |-> sent'[c][id], other |-> other, reply |-> reply,
                    replied |-> IF reply = 0 THEN NoText ELSE sent'[c][reply],
                    names |-> name]]]
  /\ UNCHANGED <<name, cache, db, tx, writer, acked>>

Post(w, c, u, other, reply) ==
  /\ Len(sent[c]) < MaxSent
  /\ c \in Brief => sent[c] = <<>>
  /\ reply \in 0..Len(sent[c])
  /\ sent' = [sent EXCEPT ![c] = Append(@, [chat |-> c, sender |-> u, text |-> 0])]
  /\ Deliver(w, c, Len(sent[c]) + 1, other, reply)

Edit(w, c, id) ==
  /\ id \in DOMAIN sent[c] /\ sent[c][id].text < MaxEdits
  /\ c \notin Brief
  /\ sent' = [sent EXCEPT ![c][id].text = @ + 1]
  /\ Deliver(w, c, id, NoOne, 0)

(* UpsertMessage: the chats, the users, the message.                       *)
Begin(w) ==
  /\ At(w, "begin")
  /\ Goto(w, "chats", ChatsToSave(worker[w].update))
  /\ UNCHANGED <<name, sent, cache, db, tx, writer, acked>>

UpsertChats(w) ==
  /\ At(w, "chats")
  /\ \/ /\ Save(w, worker[w].batch)
        /\ Goto(w, "users", UsersToSave(worker[w].update))
        /\ UNCHANGED <<db, acked>>
     \/ Rollback(w)
  /\ UNCHANGED <<name, sent>>

UpsertUsers(w) ==
  /\ At(w, "users")
  /\ \/ /\ Save(w, worker[w].batch)
        /\ Goto(w, "message", NoBatch)
        /\ UNCHANGED <<db, acked>>
     \/ Rollback(w)
  /\ UNCHANGED <<name, sent>>

(* Mutant: the message is saved without the chat and the users it refers   *)
(* to.                                                                     *)
SaveMessageAlone(w) ==
  /\ At(w, "message")
  /\ \/ /\ Lock(w)
        /\ LET u == worker[w].update
           IN  tx' = [tx EXCEPT !.messages[u.id] = u.msg]
        /\ Goto(w, "commit", NoBatch)
        /\ UNCHANGED <<cache, db, acked>>
     \/ Rollback(w)
  /\ UNCHANGED <<name, sent>>

(* gorm saves what the message refers to with it: its chat, its sender and *)
(* the message it replies to are inserted where they are missing, and left *)
(* alone where they are not.                                               *)
References(u) == {u.msg.chat, u.msg.sender, u.replied.sender} \ {NoOne}

WithMessage(t, u) ==
  [rows |-> [e \in Entities |-> IF e \in References(u) /\ t.rows[e] = NoRow
                                THEN Plain(u, e) ELSE t.rows[e]],
   messages |-> [i \in Ids |-> IF i = u.id THEN u.msg
                               ELSE IF i = u.reply /\ t.messages[i] = NoText THEN u.replied
                               ELSE t.messages[i]]]

SaveMessage(w) ==
  /\ At(w, "message")
  /\ \/ /\ Lock(w)
        /\ tx' = WithMessage(tx, worker[w].update)
        /\ Goto(w, "commit", NoBatch)
        /\ UNCHANGED <<cache, db, acked>>
     \/ Rollback(w)
  /\ UNCHANGED <<name, sent>>

(* Mutant: the message is reported stored whether it was or not.           *)
CommitIgnoresError(w) ==
  /\ At(w, "commit")
  /\ \/ db' = tx /\ UNCHANGED tx
     \/ May("write") /\ tx' = db /\ UNCHANGED db
  /\ writer' = NoOne
  /\ acked' = acked \cup {[id |-> worker[w].update.id, chat |-> worker[w].update.msg.chat]}
  /\ Return(w)
  /\ UNCHANGED <<name, sent, cache>>

Commit(w) ==
  /\ At(w, "commit")
  /\ \/ /\ db' = tx /\ writer' = NoOne
        /\ acked' = acked \cup {[id |-> worker[w].update.id, chat |-> worker[w].update.msg.chat]}
        /\ Return(w)
        /\ UNCHANGED <<cache, tx>>
     \/ Rollback(w)
  /\ UNCHANGED <<name, sent>>

(* The cache's own goroutine, and its eviction.                            *)
Drain(e) ==
  /\ cache[e].buf # <<>>
  /\ \E cell \in DrainOutcomes(cache[e]) : cache' = [cache EXCEPT ![e] = cell]
  /\ UNCHANGED <<name, sent, db, tx, writer, worker, acked>>

Evict(e) ==
  /\ Hit(cache[e])
  /\ cache' = [cache EXCEPT ![e] = Evicted(@)]
  /\ UNCHANGED <<name, sent, db, tx, writer, worker, acked>>

(* The process dies and is started again.                                  *)
Crash ==
  /\ May("crash")
  /\ cache' = [e \in Entities |-> EmptyCell]
  /\ tx' = db /\ writer' = NoOne
  /\ worker' = [w \in Workers |-> Idle]
  /\ UNCHANGED <<name, sent, db, acked>>

Continue(w) ==
  Begin(w) \/ UpsertChats(w) \/ UpsertUsers(w) \/ SaveMessage(w) \/ Commit(w)

Next ==
  \/ \E w \in Workers, c \in Chats :
       \/ \E u \in Users, other \in Entities \cup {NoOne}, reply \in Ids \cup {0} :
            Post(w, c, u, other, reply)
       \/ \E id \in Ids : Edit(w, c, id)
  \/ \E w \in Workers : Continue(w)
  \/ \E e \in Entities : Rename(e) \/ Drain(e) \/ Evict(e)
  \/ Crash

Spec == Init /\ [][Next]_vars
-----------------------------------------------------------------------------
(* Every variable has its type, and outside a writing transaction there is *)
(* one state of the tables.                                                *)
TypeOK ==
  /\ name \in [Entities -> Names]
  /\ sent \in [Chats -> Seq(Text)] /\ \A c \in Chats : Len(sent[c]) <= MaxSent
  /\ cache \in [Entities -> Cell(Hashes)]
  /\ db \in Tables /\ tx \in Tables
  /\ writer \in Workers \cup {NoOne}
  /\ worker \in [Workers -> WorkerStates]
  /\ acked \subseteq [id : Ids, chat : Chats]
  /\ writer = NoOne => tx = db

(* Only a message that is reported stored itself takes the place of one    *)
(* that was, whatever other goroutines roll back and whenever the process  *)
(* dies: under the id of a message reported stored there always is one     *)
(* reported stored.  (It need not be the same one: storage.go:211 updates  *)
(* the row of that id, whatever chat it is of.)                            *)
StoredIsKept ==
  \A m \in acked : \E a \in acked :
    a.id = m.id /\ db.messages[m.id].chat = a.chat

(* The id is to be a "Unique message identifier" (message.go:18): a message*)
(* reported stored stays.  Telegram numbers the messages of every chat on  *)
(* its own, so this holds only of a program in one chat.                   *)
StoredStaysOwn == \A m \in acked : db.messages[m.id].chat = m.chat

(* A table's messages refer to chats and senders the table has.            *)
Complete(t) ==
  \A i \in Ids :
    LET m == t.messages[i]
    IN  m # NoText => t.rows[m.chat] # NoRow /\ t.rows[m.sender] # NoRow

(* A stored message never refers to a chat or a sender that is not stored, *)
(* although a transaction that is rolled back leaves the cache claiming    *)
(* that its chat is.                                                       *)
ReferencesAreStored == Complete(db)

(* What makes the two inductive.  A message is of the chat it was sent in, *)
(* and replies to a message of that chat.                                  *)
SameChat ==
  /\ \A c \in Chats : \A i \in 1..Len(sent[c]) : sent[c][i].chat = c
  /\ \A w \in Workers :
       LET u == worker[w].update
       IN  worker[w] # Idle /\ u.reply # 0 =>
             u.replied \in Text /\ u.replied.chat = u.msg.chat

(* A goroutine that commits has the lock, and its message in the tables.   *)
Committing ==
  \A w \in Workers : worker[w].pc = "commit" =>
    writer = w /\ tx.messages[worker[w].update.id] # NoText

(* No transaction removes a message, and none that was reported stored is  *)
(* missing.                                                                *)
Kept ==
  /\ \A i \in Ids : db.messages[i] # NoText => tx.messages[i] # NoText
  /\ \A m \in acked : db.messages[m.id] # NoText

MessageInv == SameChat /\ Committing /\ Kept /\ Complete(db) /\ Complete(tx)

(* A transaction sees what was committed before it, and what it has        *)
(* written itself.                                                         *)
Isolation ==
  /\ writer # NoOne => worker[writer].pc \in {"users", "message", "commit"}
  /\ \A w \in Workers :
       IF worker[w].pc = "commit"
       THEN tx.messages = WithMessage(db, worker[w].update).messages
       ELSE writer = w => tx.messages = db.messages

(* A commit stores its message, and the one it replies to if that was      *)
(* missing, and touches no other: not even those that were being stored    *)
(* when it began.                                                          *)
CommitsItsOwn ==
  [][\A i \in Ids : db'.messages[i] # db.messages[i] =>
       \E w \in Workers :
         LET u == worker[w].update
         IN  /\ worker[w].pc = "commit" /\ worker'[w] = Idle
             /\ \/ i = u.id /\ db'.messages[i] = u.msg
                \/ i = u.reply /\ db.messages[i] = NoText /\ db'.messages[i] = u.replied]_vars

Quiet == /\ \A w \in Workers : worker[w] = Idle
         /\ \A e \in Entities : cache[e].buf = <<>>

(* What the cache takes for saved is saved: otherwise UpsertChats and      *)
(* UpsertUsers do not "Upsert chats if any of them have changed"           *)
(* (storage.go:237, 291).                                                  *)
CacheIsStored ==
  Quiet => \A e \in Entities : Hit(cache[e]) => Hash(db.rows[e]) = cache[e].val

(* "insert or update the message" (storage.go:211): when everything is     *)
(* stored, the table has the last text of a message.                       *)
LastEditIsStored ==
  Quiet => \A m \in acked : db.messages[m.id] = sent[m.chat][m.id]

(* "Update seen time for the user" (user.go:36): a user who has been seen  *)
(* does not become one who never was.                                      *)
SeenStaysSeen ==
  [][\A u \in Users : db.rows[u].seen => db'.rows[u].seen]_vars
=============================================================================
