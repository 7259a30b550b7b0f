------------------------- MODULE MessageStoreProofs -------------------------
(***************************************************************************)
(* MessageStore keeps what it reports stored, and stores no message        *)
(* without the chat and the sender it refers to, for any number of         *)
(* goroutines, chats, users and messages, whatever transactions are rolled *)
(* back, whenever the process dies and whatever the cache forgets.         *)
(*                                                                         *)
(* The types come first: every step is shown to leave each variable in its *)
(* type (CacheSetType is the cache, SaveType the tables).  MessageInv adds *)
(* what one step after another needs of the tables a transaction sees.     *)
(***************************************************************************)
EXTENDS MessageStore, RistrettoProofs

(* What the cache holds is told from what it lacks and what it deletes.    *)
LEMMA HashesAreValues == Absent \notin Hashes /\ Delete \notin Hashes
BY DEF Hashes, Names, Absent, Delete

(* A row has a hash, and is a row.                                         *)
LEMMA RowHash ==
  ASSUME NEW row \in Row
  PROVE  Hash(row) \in Hashes /\ row # NoRow
BY DEF Row, Hash, Hashes, Names, NoRow

(* A message is no missing one.                                            *)
LEMMA TextIsThere ==
  ASSUME NEW m \in Text
  PROVE  m # NoText /\ m.chat \in Entities /\ m.sender \in Entities
BY MessageAssumption DEF Text, NoText, Entities

(* A batch of nothing.                                                     *)
LEMMA NoBatchIsOne == NoBatch \in Batches
<1>1. NoBatch \in [{} -> Row]
  BY DEF NoBatch
<1> QED BY <1>1 DEF Batches

(* The batches of an update.                                               *)
LEMMA BatchesOf ==
  ASSUME NEW u \in Update
  PROVE  ChatsToSave(u) \in Batches /\ UsersToSave(u) \in Batches
<1>1. \A e \in Entities : Plain(u, e) \in Row /\ Seen(u, e) \in Row
  BY DEF Plain, Seen, Row, Update
<1>2. ChatsToSave(u) \in Batches
  <2> DEFINE E == {c \in Listed(u) \cap Chats : Changed(c, Plain(u, c))}
  <2>1. E \in SUBSET Entities
    BY DEF Entities
  <2>2. ChatsToSave(u) \in [E -> Row]
    BY <1>1, <2>1 DEF ChatsToSave
  <2> QED BY <2>1, <2>2 DEF Batches
<1>3. UsersToSave(u) \in Batches
  <2> DEFINE E == {v \in Listed(u) \cap Users : v = u.msg.sender \/ Changed(v, Plain(u, v))}
  <2>1. E \in SUBSET Entities
    BY DEF Entities
  <2>2. UsersToSave(u) \in [E -> Row]
    BY <1>1, <2>1 DEF UsersToSave
  <2> QED BY <2>1, <2>2 DEF Batches
<1> QED BY <1>2, <1>3

(* What a batch leaves in the tables and in the cache.                     *)
LEMMA SavedRows ==
  ASSUME NEW batch \in Batches, NEW rows \in [Entities -> Row \cup {NoRow}]
  PROVE  /\ Updated(rows, batch) \in [Entities -> Row \cup {NoRow}]
         /\ \A e \in Entities : rows[e] # NoRow => Updated(rows, batch)[e] # NoRow
<1>1. PICK E \in SUBSET Entities : batch \in [E -> Row]
  BY DEF Batches
<1>2. Updated(rows, batch) = [e \in Entities |-> IF e \in E THEN batch[e] ELSE rows[e]]
  BY <1>1 DEF Updated
<1> QED BY <1>1, <1>2, RowHash

(* The cache stays one of hashes.                                          *)
LEMMA CacheSetType ==
  ASSUME NEW batch \in Batches, cache \in [Entities -> Cell(Hashes)], CacheSet(batch)
  PROVE  cache' \in [Entities -> Cell(Hashes)]
<1>1. PICK E \in SUBSET Entities : batch \in [E -> Row]
  BY DEF Batches
<1>2. PICK cells \in [E -> UNION {Outcomes(e, batch[e]) : e \in E}] :
        /\ \A e \in E : cells[e] \in Outcomes(e, batch[e])
        /\ cache' = Updated(cache, cells)
  BY <1>1 DEF CacheSet
<1>3. ASSUME NEW e \in E
      PROVE  cells[e] \in Cell(Hashes)
  <2>1. cache[e] \in Cell(Hashes) /\ Hash(batch[e]) \in Hashes /\ PendingLimit \in Nat
    BY <1>1, RowHash, MessageAssumption
  <2>2. cells[e] \in SetOutcomes(cache[e], Hash(batch[e]), PendingLimit)
    BY <1>2 DEF Outcomes
  <2> QED BY <2>1, <2>2, SetCell
<1>4. cache' = [e \in Entities |-> IF e \in E THEN cells[e] ELSE cache[e]]
  BY <1>1, <1>2 DEF Updated
<1> QED BY <1>3, <1>4

(* A goroutine under way has an update and a batch.                        *)
LEMMA UnderWay ==
  ASSUME TypeOK, NEW w \in Workers, worker[w].pc # "idle"
  PROVE  worker[w] # Idle /\ worker[w].update \in Update /\ worker[w].batch \in Batches
BY DEF TypeOK, WorkerStates, Idle

(* Moving on and returning, and the type of what every goroutine does.     *)
LEMMA MovedOn ==
  ASSUME TypeOK, NEW w \in Workers, worker[w].pc # "idle",
         NEW pc \in {"begin", "chats", "users", "message", "commit"},
         NEW batch \in Batches, Goto(w, pc, batch)
  PROVE  /\ worker' \in [Workers -> WorkerStates]
         /\ worker'[w].pc = pc /\ worker'[w] # Idle
         /\ worker'[w].update = worker[w].update
         /\ \A v \in Workers \ {w} : worker'[v] = worker[v]
<1>1. worker \in [Workers -> WorkerStates]
  BY DEF TypeOK
<1>2. worker[w] \in [pc : {"begin", "chats", "users", "message", "commit"},
                     update : Update, batch : Batches]
  BY <1>1 DEF WorkerStates, Idle
<1>3. worker'[w] = [worker[w] EXCEPT !.pc = pc, !.batch = batch]
  BY <1>1 DEF Goto
<1>4. /\ worker'[w] \in WorkerStates /\ worker'[w].pc = pc
      /\ worker'[w].update = worker[w].update
  BY <1>2, <1>3 DEF WorkerStates
<1>5. \A v \in Workers \ {w} : worker'[v] = worker[v]
  BY <1>1 DEF Goto
<1>6. worker' = [v \in Workers |-> worker'[v]]
  BY <1>1 DEF Goto
<1>7. worker'[w] # Idle
  BY <1>4 DEF Idle
<1>8. worker' \in [Workers -> WorkerStates]
  BY <1>1, <1>4, <1>5, <1>6
<1> QED BY <1>4, <1>5, <1>7, <1>8

(* A goroutine that returns is idle.                                       *)
LEMMA Returned ==
  ASSUME TypeOK, NEW w \in Workers, Return(w)
  PROVE  /\ worker' \in [Workers -> WorkerStates]
         /\ worker'[w] = Idle /\ worker'[w].pc = "idle"
         /\ \A v \in Workers \ {w} : worker'[v] = worker[v]
BY DEF TypeOK, Return, WorkerStates, Idle

(* A transaction that is rolled back leaves the tables as they were        *)
(* committed; nobody else's is under way if it was the one that wrote.     *)
LEMMA RollbackStep ==
  ASSUME TypeOK, MessageInv, NEW w \in Workers, Rollback(w), UNCHANGED <<name, sent>>
  PROVE  TypeOK' /\ MessageInv'
<1>1. /\ worker' \in [Workers -> WorkerStates]
      /\ worker'[w] = Idle /\ worker'[w].pc = "idle"
      /\ \A v \in Workers \ {w} : worker'[v] = worker[v]
  BY Returned DEF Rollback
<1>2. /\ UNCHANGED <<name, sent, cache, db, acked>>
      /\ \/ writer = w /\ tx' = db /\ writer' = NoOne
         \/ writer # w /\ UNCHANGED <<tx, writer>>
  BY DEF Rollback
<1>3. TypeOK'
  BY <1>1, <1>2 DEF TypeOK
<1>4. SameChat'
  BY <1>1, <1>2 DEF MessageInv, SameChat
<1>5. Committing'
  BY <1>1, <1>2 DEF MessageInv, Committing
<1>6. Kept' /\ Complete(db)' /\ Complete(tx)'
  BY <1>2 DEF MessageInv, Kept, Complete
<1> QED BY <1>3, <1>4, <1>5, <1>6 DEF MessageInv

(* A batch of rows is saved: rows are only added or changed, and whoever   *)
(* waits to commit excludes it.                                            *)
LEMMA SaveStep ==
  ASSUME TypeOK, MessageInv, NEW w \in Workers, worker[w].pc # "idle",
         Save(w, worker[w].batch),
         NEW pc \in {"users", "message"}, NEW batch \in Batches, Goto(w, pc, batch),
         UNCHANGED <<name, sent, db, acked>>
  PROVE  TypeOK' /\ MessageInv'
<1>1. worker[w] # Idle /\ worker[w].update \in Update /\ worker[w].batch \in Batches
  BY UnderWay
<1>2. /\ worker' \in [Workers -> WorkerStates]
      /\ worker'[w].pc = pc /\ worker'[w] # Idle
      /\ worker'[w].update = worker[w].update
      /\ \A v \in Workers \ {w} : worker'[v] = worker[v]
  BY MovedOn
<1>3. CASE worker[w].batch = NoBatch
  <2>1. UNCHANGED <<cache, tx, writer>>
    BY <1>3 DEF Save
  <2>2. TypeOK'
    BY <1>2, <2>1 DEF TypeOK
  <2>3. SameChat'
    BY <1>1, <1>2 DEF MessageInv, SameChat
  <2>4. Committing'
    BY <1>2, <2>1 DEF MessageInv, Committing
  <2>5. Kept' /\ Complete(db)' /\ Complete(tx)'
    BY <2>1 DEF MessageInv, Kept, Complete
  <2> QED BY <2>2, <2>3, <2>4, <2>5 DEF MessageInv
<1>4. CASE worker[w].batch # NoBatch
  <2> DEFINE rows == Updated(tx.rows, worker[w].batch)
  <2>1. /\ writer \in {NoOne, w} /\ writer' = w
        /\ tx' = [tx EXCEPT !.rows = rows] /\ CacheSet(worker[w].batch)
    BY <1>4 DEF Save, Lock
  <2>2. tx \in Tables /\ tx.rows \in [Entities -> Row \cup {NoRow}]
    BY DEF TypeOK, Tables
  <2>3. /\ rows \in [Entities -> Row \cup {NoRow}]
        /\ \A e \in Entities : tx.rows[e] # NoRow => rows[e] # NoRow
    BY <1>1, <2>2, SavedRows
  <2>4. tx' \in Tables /\ tx'.rows = rows /\ tx'.messages = tx.messages
    BY <2>1, <2>2, <2>3 DEF Tables
  <2>5. cache' \in [Entities -> Cell(Hashes)]
    BY <1>1, <2>1, CacheSetType DEF TypeOK
  <2>6. TypeOK'
    BY <1>2, <2>1, <2>4, <2>5, MessageAssumption DEF TypeOK
  <2>7. SameChat'
    BY <1>1, <1>2 DEF MessageInv, SameChat
  <2>8. Committing'
    BY <1>2, <2>1, <2>4, MessageAssumption DEF MessageInv, Committing
  <2>9. Kept' /\ Complete(db)'
    BY <2>4 DEF MessageInv, Kept, Complete
  <2>10. Complete(tx)'
    <3>1. SUFFICES ASSUME NEW i \in Ids, tx'.messages[i] # NoText
                   PROVE  /\ tx'.rows[tx'.messages[i].chat] # NoRow
                          /\ tx'.rows[tx'.messages[i].sender] # NoRow
      BY DEF Complete
    <3>2. tx.messages[i] \in Text /\ tx'.messages[i] = tx.messages[i]
      BY <2>2, <2>4, <3>1 DEF Tables
    <3>3. tx.rows[tx.messages[i].chat] # NoRow /\ tx.rows[tx.messages[i].sender] # NoRow
      BY <3>1, <3>2 DEF MessageInv, Complete
    <3> QED BY <2>3, <2>4, <3>2, <3>3, TextIsThere
  <2> QED BY <2>6, <2>7, <2>8, <2>9, <2>10 DEF MessageInv
<1> QED BY <1>3, <1>4

(* The message is in the tables it is saved to, with a row for all it      *)
(* refers to; nothing that was there is gone.                              *)
LEMMA MessageSaved ==
  ASSUME NEW t \in Tables, NEW u \in Update
  PROVE  /\ WithMessage(t, u) \in Tables
         /\ \A e \in Entities : t.rows[e] # NoRow => WithMessage(t, u).rows[e] # NoRow
         /\ \A e \in References(u) : WithMessage(t, u).rows[e] # NoRow
         /\ WithMessage(t, u).messages[u.id] = u.msg
         /\ \A i \in Ids : t.messages[i] # NoText => WithMessage(t, u).messages[i] # NoText
         /\ \A i \in Ids : WithMessage(t, u).messages[i] \in
              {t.messages[i], u.msg} \cup (IF u.reply # 0 THEN {u.replied} ELSE {})
<1>1. /\ u.id \in Ids /\ u.msg \in Text /\ u.replied \in Text \cup {NoText}
      /\ \A e \in Entities : Plain(u, e) \in Row
  BY DEF Update, Plain, Row
<1>2. t.rows \in [Entities -> Row \cup {NoRow}] /\ t.messages \in [Ids -> Text \cup {NoText}]
  BY DEF Tables
<1>3. References(u) \subseteq Entities
  BY <1>1, TextIsThere DEF References, NoText
<1>4. \A e \in Entities :
        /\ WithMessage(t, u).rows[e] \in Row \cup {NoRow}
        /\ t.rows[e] # NoRow => WithMessage(t, u).rows[e] # NoRow
        /\ e \in References(u) => WithMessage(t, u).rows[e] # NoRow
  BY <1>1, <1>2, RowHash DEF WithMessage
<1>5. ASSUME NEW i \in Ids
      PROVE  /\ WithMessage(t, u).messages[i] \in Text \cup {NoText}
             /\ i = u.id => WithMessage(t, u).messages[i] = u.msg
             /\ t.messages[i] # NoText => WithMessage(t, u).messages[i] # NoText
             /\ WithMessage(t, u).messages[i] \in
                  {t.messages[i], u.msg} \cup (IF u.reply # 0 THEN {u.replied} ELSE {})
  <2>1. WithMessage(t, u).messages[i] =
          IF i = u.id THEN u.msg
          ELSE IF i = u.reply /\ t.messages[i] = NoText THEN u.replied
          ELSE t.messages[i]
    BY DEF WithMessage
  <2>2. i # 0 /\ u.msg # NoText /\ t.messages[i] \in Text \cup {NoText}
    BY <1>1, <1>2, TextIsThere, MessageAssumption DEF Ids
  <2> QED BY <1>1, <2>1, <2>2
<1>6. WithMessage(t, u) \in Tables
  <2>1. WithMessage(t, u) = [rows |-> [e \in Entities |-> WithMessage(t, u).rows[e]],
                             messages |-> [i \in Ids |-> WithMessage(t, u).messages[i]]]
    BY DEF WithMessage
  <2> QED BY <1>4, <1>5, <2>1 DEF Tables
<1> QED BY <1>1, <1>3, <1>4, <1>5, <1>6

(* The message is saved, with what it refers to that was missing.          *)
LEMMA SaveMessageStep ==
  ASSUME TypeOK, MessageInv, NEW w \in Workers, SaveMessage(w)
  PROVE  TypeOK' /\ MessageInv'
<1>1. worker[w].pc # "idle"
  BY DEF SaveMessage, At
<1>2. worker[w] # Idle /\ worker[w].update \in Update
  BY <1>1, UnderWay
<1>3. CASE Rollback(w)
  BY <1>3, RollbackStep DEF SaveMessage
<1>4. CASE ~Rollback(w)
  <2> DEFINE u == worker[w].update
  <2>1. /\ writer \in {NoOne, w} /\ writer' = w
        /\ tx' = WithMessage(tx, u)
        /\ Goto(w, "commit", NoBatch)
        /\ UNCHANGED <<name, sent, cache, db, acked>>
    BY <1>4 DEF SaveMessage, Lock
  <2>2. /\ worker' \in [Workers -> WorkerStates]
        /\ worker'[w].pc = "commit" /\ worker'[w] # Idle
        /\ worker'[w].update = u
        /\ \A v \in Workers \ {w} : worker'[v] = worker[v]
    BY <1>1, <2>1, NoBatchIsOne, MovedOn
  <2>3. tx \in Tables /\ u.id \in Ids /\ u.msg \in Text /\ u.msg # NoText
    BY <1>2, TextIsThere DEF TypeOK, Update
  <2>4. /\ tx' \in Tables
        /\ \A e \in Entities : tx.rows[e] # NoRow => tx'.rows[e] # NoRow
        /\ \A e \in References(u) : tx'.rows[e] # NoRow
        /\ tx'.messages[u.id] = u.msg
        /\ \A i \in Ids : tx.messages[i] # NoText => tx'.messages[i] # NoText
        /\ \A i \in Ids : tx'.messages[i] \in
             {tx.messages[i], u.msg} \cup (IF u.reply # 0 THEN {u.replied} ELSE {})
    BY <1>2, <2>1, <2>3, MessageSaved
  <2>5. TypeOK'
    BY <2>1, <2>2, <2>4, MessageAssumption DEF TypeOK
  <2>6. SameChat'
    BY <1>2, <2>1, <2>2 DEF MessageInv, SameChat
  <2>7. Committing'
    BY <2>1, <2>2, <2>3, <2>4, MessageAssumption DEF MessageInv, Committing
  <2>8. Kept' /\ Complete(db)'
    BY <2>1, <2>4 DEF MessageInv, Kept, Complete
  <2>9. ASSUME NEW i \in Ids, tx'.messages[i] # NoText
        PROVE  tx'.rows[tx'.messages[i].chat] # NoRow /\ tx'.rows[tx'.messages[i].sender] # NoRow
    <3>1. CASE tx'.messages[i] = tx.messages[i]
      <4>1. /\ tx.messages[i] \in Text
            /\ tx.rows[tx.messages[i].chat] # NoRow /\ tx.rows[tx.messages[i].sender] # NoRow
        BY <2>3, <2>9, <3>1 DEF MessageInv, Complete, Tables
      <4> QED BY <2>4, <3>1, <4>1, TextIsThere
    <3>2. CASE tx'.messages[i] = u.msg
      <4>1. {u.msg.chat, u.msg.sender} \subseteq References(u)
        BY <2>3, TextIsThere, MessageAssumption DEF References
      <4> QED BY <2>4, <3>2, <4>1
    <3>3. CASE tx'.messages[i] = u.replied /\ u.reply # 0
      <4>1. u.replied \in Text /\ u.replied.chat = u.msg.chat
        BY <1>2, <3>3 DEF MessageInv, SameChat
      <4>2. {u.msg.chat, u.replied.sender} \subseteq References(u)
        BY <2>3, <4>1, TextIsThere, MessageAssumption DEF References
      <4> QED BY <2>4, <3>3, <4>1, <4>2
    <3> QED BY <2>4, <3>1, <3>2, <3>3
  <2>10. Complete(tx)'
    BY <2>9 DEF Complete
  <2> QED BY <2>5, <2>6, <2>7, <2>8, <2>10 DEF MessageInv
<1> QED BY <1>3, <1>4

(* What is committed has the message reported stored.                      *)
LEMMA CommitStep ==
  ASSUME TypeOK, MessageInv, NEW w \in Workers, Commit(w)
  PROVE  TypeOK' /\ MessageInv'
<1>1. worker[w].pc = "commit" /\ UNCHANGED <<name, sent>>
  BY DEF Commit, At
<1>2. worker[w].update \in Update /\ worker[w].update.msg.chat \in Chats
  <2>1. worker[w].update \in Update
    BY <1>1, UnderWay
  <2> QED BY <2>1 DEF Update, Text
<1>3. CASE Rollback(w)
  BY <1>1, <1>3, RollbackStep
<1>4. CASE ~Rollback(w)
  <2> DEFINE m == [id |-> worker[w].update.id, chat |-> worker[w].update.msg.chat]
  <2>1. /\ db' = tx /\ writer' = NoOne /\ acked' = acked \cup {m} /\ Return(w)
        /\ UNCHANGED <<cache, tx>>
    BY <1>4 DEF Commit
  <2>2. /\ worker' \in [Workers -> WorkerStates]
        /\ worker'[w] = Idle /\ worker'[w].pc = "idle"
        /\ \A v \in Workers \ {w} : worker'[v] = worker[v]
    BY <2>1, Returned
  <2>3. writer = w /\ tx.messages[m.id] # NoText
    BY <1>1 DEF MessageInv, Committing
  <2>4. TypeOK'
    <3>1. m \in [id : Ids, chat : Chats]
      BY <1>2 DEF Update
    <3> QED BY <1>1, <2>1, <2>2, <3>1 DEF TypeOK
  <2>5. SameChat'
    BY <1>1, <2>2 DEF MessageInv, SameChat
  <2>6. Committing'
    BY <2>2, <2>3 DEF MessageInv, Committing
  <2>7. Kept'
    <3>1. \A n \in acked : tx.messages[n.id] # NoText
      <4>1. \A n \in acked : n.id \in Ids /\ db.messages[n.id] # NoText
        BY DEF TypeOK, MessageInv, Kept
      <4> QED BY <4>1 DEF MessageInv, Kept
    <3> QED BY <2>1, <2>3, <3>1 DEF Kept
  <2>8. Complete(db)' /\ Complete(tx)'
    BY <2>1 DEF MessageInv, Complete
  <2> QED BY <2>4, <2>5, <2>6, <2>7, <2>8 DEF MessageInv
<1> QED BY <1>3, <1>4

(* A goroutine starts with a message of the chat it is for.                *)
LEMMA DeliverStep ==
  ASSUME TypeOK, MessageInv, NEW w \in Workers, NEW c \in Chats, NEW id \in Ids,
         NEW other \in Entities \cup {NoOne}, NEW reply \in Ids \cup {0},
         Deliver(w, c, id, other, reply),
         sent' \in [Chats -> Seq(Text)], \A d \in Chats : Len(sent'[d]) <= MaxSent,
         \A d \in Chats : \A i \in 1..Len(sent'[d]) : sent'[d][i].chat = d,
         id <= Len(sent'[c]), reply <= Len(sent'[c])
  PROVE  TypeOK' /\ MessageInv'
<1> DEFINE u == [id |-> id, msg |-> sent'[c][id], other |-> other, reply |-> reply,
                 replied |-> IF reply = 0 THEN NoText ELSE sent'[c][reply],
                 names |-> name]
<1>1. /\ UNCHANGED <<name, cache, db, tx, writer, acked>>
      /\ worker' = [worker EXCEPT ![w] = [pc |-> "begin", batch |-> NoBatch, update |-> u]]
  BY DEF Deliver
<1>2. /\ sent'[c] \in Seq(Text) /\ id \in 1..Len(sent'[c])
      /\ reply # 0 => reply \in 1..Len(sent'[c])
  BY MessageAssumption DEF Ids
<1>3. /\ u.msg \in Text /\ u.msg.chat = c
      /\ reply # 0 => u.replied \in Text /\ u.replied.chat = c
  BY <1>2
<1>4. u \in Update
  BY <1>3 DEF Update, TypeOK
<1>5. NoBatch \in Batches
  BY NoBatchIsOne
<1>6. /\ worker'[w] = [pc |-> "begin", batch |-> NoBatch, update |-> u]
      /\ \A v \in Workers \ {w} : worker'[v] = worker[v]
      /\ worker' \in [Workers -> WorkerStates]
  <2>1. [pc |-> "begin", batch |-> NoBatch, update |-> u] \in WorkerStates
    BY <1>4, <1>5 DEF WorkerStates
  <2>2. worker \in [Workers -> WorkerStates]
    BY DEF TypeOK
  <2> QED BY <1>1, <2>1, <2>2
<1>7. TypeOK'
  BY <1>1, <1>6 DEF TypeOK
<1>8. SameChat'
  <2>1. worker'[w].update = u
    BY <1>6
  <2> QED BY <1>3, <1>6, <2>1 DEF MessageInv, SameChat
<1>9. Committing'
  BY <1>1, <1>6 DEF MessageInv, Committing
<1>10. Kept' /\ Complete(db)' /\ Complete(tx)'
  BY <1>1 DEF MessageInv, Kept, Complete
<1> QED BY <1>7, <1>8, <1>9, <1>10 DEF MessageInv

(* A new message takes the next id of its chat,                            *)
LEMMA PostStep ==
  ASSUME TypeOK, MessageInv, NEW w \in Workers, NEW c \in Chats, NEW u \in Users,
         NEW other \in Entities \cup {NoOne}, NEW reply \in Ids \cup {0},
         Post(w, c, u, other, reply)
  PROVE  TypeOK' /\ MessageInv'
<1> DEFINE m == [chat |-> c, sender |-> u, text |-> 0]
           id == Len(sent[c]) + 1
<1>1. /\ Len(sent[c]) < MaxSent /\ reply \in 0..Len(sent[c])
      /\ sent' = [sent EXCEPT ![c] = Append(@, m)]
      /\ Deliver(w, c, id, other, reply)
  BY DEF Post
<1>2. /\ sent \in [Chats -> Seq(Text)] /\ \A d \in Chats : Len(sent[d]) <= MaxSent
      /\ \A d \in Chats : \A i \in 1..Len(sent[d]) : sent[d][i].chat = d
      /\ MaxSent \in Nat /\ MaxEdits \in Nat
  BY MessageAssumption DEF TypeOK, MessageInv, SameChat
<1>3. m \in Text /\ m.chat = c
  BY <1>2 DEF Text
<1>4. /\ sent'[c] = Append(sent[c], m)
      /\ \A d \in Chats \ {c} : sent'[d] = sent[d]
      /\ sent' = [d \in Chats |-> sent'[d]]
  BY <1>1, <1>2
<1>5. /\ sent'[c] \in Seq(Text) /\ Len(sent'[c]) = id
      /\ \A i \in 1..id : sent'[c][i] = IF i = id THEN m ELSE sent[c][i]
  BY <1>2, <1>3, <1>4
<1>6. \A i \in 1..Len(sent'[c]) : sent'[c][i].chat = c
  <2>1. SUFFICES ASSUME NEW i \in 1..id
                 PROVE  sent'[c][i].chat = c
    BY <1>5
  <2>2. CASE i = id
    BY <1>3, <1>5, <2>2
  <2>3. CASE i # id
    <3>1. i \in 1..Len(sent[c])
      BY <1>2, <2>3
    <3> QED BY <1>2, <1>5, <2>3, <3>1
  <2> QED BY <2>2, <2>3
<1>7. id \in Ids /\ id <= Len(sent'[c]) /\ reply <= Len(sent'[c]) /\ Len(sent'[c]) <= MaxSent
  BY <1>1, <1>2, <1>5 DEF Ids
<1>8. /\ sent' \in [Chats -> Seq(Text)]
      /\ \A d \in Chats : Len(sent'[d]) <= MaxSent
      /\ \A d \in Chats : \A i \in 1..Len(sent'[d]) : sent'[d][i].chat = d
  BY <1>2, <1>4, <1>5, <1>6, <1>7
<1> QED BY <1>1, <1>7, <1>8, DeliverStep

(* and an edited one keeps its id and its chat.                            *)
LEMMA EditStep ==
  ASSUME TypeOK, MessageInv, NEW w \in Workers, NEW c \in Chats, NEW id \in Ids,
         Edit(w, c, id)
  PROVE  TypeOK' /\ MessageInv'
<1> DEFINE m == [sent[c][id] EXCEPT !.text = @ + 1]
<1>1. /\ id \in DOMAIN sent[c] /\ sent[c][id].text < MaxEdits
      /\ sent' = [sent EXCEPT ![c][id].text = @ + 1]
      /\ Deliver(w, c, id, NoOne, 0)
  BY DEF Edit
<1>2. /\ sent \in [Chats -> Seq(Text)] /\ \A d \in Chats : Len(sent[d]) <= MaxSent
      /\ \A d \in Chats : \A i \in 1..Len(sent[d]) : sent[d][i].chat = d
      /\ MaxSent \in Nat /\ MaxEdits \in Nat
  BY MessageAssumption DEF TypeOK, MessageInv, SameChat
<1>3. id \in 1..Len(sent[c]) /\ sent[c][id] \in Text
  BY <1>1, <1>2
<1>4. m \in Text /\ m.chat = c
  <2>1. sent[c][id].text \in 0..MaxEdits /\ sent[c][id].text + 1 \in 0..MaxEdits
    BY <1>1, <1>2, <1>3 DEF Text
  <2>2. sent[c][id].chat = c
    BY <1>2, <1>3
  <2> QED BY <1>3, <2>1, <2>2 DEF Text
<1>5. sent' = [sent EXCEPT ![c] = [sent[c] EXCEPT ![id] = m]]
  BY <1>1, <1>2
<1>6. /\ sent'[c] = [sent[c] EXCEPT ![id] = m]
      /\ \A d \in Chats \ {c} : sent'[d] = sent[d]
      /\ sent' = [d \in Chats |-> sent'[d]]
  BY <1>2, <1>5
<1>7. /\ sent'[c] \in Seq(Text) /\ Len(sent'[c]) = Len(sent[c])
      /\ \A i \in 1..Len(sent[c]) : sent'[c][i] = IF i = id THEN m ELSE sent[c][i]
  BY <1>2, <1>3, <1>4, <1>6
<1>8. \A i \in 1..Len(sent'[c]) : sent'[c][i].chat = c
  BY <1>2, <1>4, <1>7
<1>9. id <= Len(sent'[c]) /\ 0 <= Len(sent'[c]) /\ Len(sent'[c]) <= MaxSent
  BY <1>2, <1>3, <1>7
<1>10. /\ sent' \in [Chats -> Seq(Text)]
       /\ \A d \in Chats : Len(sent'[d]) <= MaxSent
       /\ \A d \in Chats : \A i \in 1..Len(sent'[d]) : sent'[d][i].chat = d
  BY <1>2, <1>6, <1>7, <1>8, <1>9
<1> QED BY <1>1, <1>9, <1>10, DeliverStep

(* UpsertMessage, call by call.                                            *)
LEMMA ContinueStep ==
  ASSUME TypeOK, MessageInv, NEW w \in Workers, Continue(w)
  PROVE  TypeOK' /\ MessageInv'
<1>1. CASE Begin(w)
  <2>1. /\ worker[w].pc = "begin"
        /\ Goto(w, "chats", ChatsToSave(worker[w].update))
        /\ UNCHANGED <<name, sent, cache, db, tx, writer, acked>>
    BY <1>1 DEF Begin, At
  <2>2. worker[w] # Idle /\ ChatsToSave(worker[w].update) \in Batches
    BY <2>1, UnderWay, BatchesOf
  <2>3. /\ worker' \in [Workers -> WorkerStates]
        /\ worker'[w].pc = "chats" /\ worker'[w] # Idle
        /\ worker'[w].update = worker[w].update
        /\ \A v \in Workers \ {w} : worker'[v] = worker[v]
    BY <2>1, <2>2, MovedOn
  <2>4. TypeOK'
    BY <2>1, <2>3 DEF TypeOK
  <2>5. SameChat' /\ Committing'
    BY <2>1, <2>2, <2>3 DEF MessageInv, SameChat, Committing
  <2>6. Kept' /\ Complete(db)' /\ Complete(tx)'
    BY <2>1 DEF MessageInv, Kept, Complete
  <2> QED BY <2>4, <2>5, <2>6 DEF MessageInv
<1>2. CASE UpsertChats(w)
  <2>1. worker[w].pc = "chats" /\ UNCHANGED <<name, sent>>
    BY <1>2 DEF UpsertChats, At
  <2>2. UsersToSave(worker[w].update) \in Batches
    BY <2>1, UnderWay, BatchesOf
  <2>3. CASE Rollback(w)
    BY <2>1, <2>3, RollbackStep
  <2>4. CASE ~Rollback(w)
    <3>1. /\ Save(w, worker[w].batch) /\ Goto(w, "users", UsersToSave(worker[w].update))
          /\ UNCHANGED <<db, acked>>
      BY <1>2, <2>4 DEF UpsertChats
    <3> QED BY <2>1, <2>2, <3>1, SaveStep
  <2> QED BY <2>3, <2>4
<1>3. CASE UpsertUsers(w)
  <2>1. worker[w].pc = "users" /\ UNCHANGED <<name, sent>>
    BY <1>3 DEF UpsertUsers, At
  <2>2. CASE Rollback(w)
    BY <2>1, <2>2, RollbackStep
  <2>3. CASE ~Rollback(w)
    <3>1. /\ Save(w, worker[w].batch) /\ Goto(w, "message", NoBatch)
          /\ UNCHANGED <<db, acked>>
      BY <1>3, <2>3 DEF UpsertUsers
    <3> QED BY <2>1, <3>1, NoBatchIsOne, SaveStep
  <2> QED BY <2>2, <2>3
<1> QED BY <1>1, <1>2, <1>3, SaveMessageStep, CommitStep DEF Continue

(* The cache's own steps: they touch nothing a message depends on.         *)
LEMMA CacheStep ==
  ASSUME TypeOK, MessageInv, NEW e \in Entities, Drain(e) \/ Evict(e)
  PROVE  TypeOK' /\ MessageInv'
<1>1. cache \in [Entities -> Cell(Hashes)] /\ cache[e] \in Cell(Hashes)
  BY DEF TypeOK
<1>2. PICK cell \in Cell(Hashes) : cache' = [cache EXCEPT ![e] = cell]
  <2>1. CASE Drain(e)
    <3>1. PICK cell \in DrainOutcomes(cache[e]) : cache' = [cache EXCEPT ![e] = cell]
      BY <2>1 DEF Drain
    <3>2. cell \in Cell(Hashes)
      BY <1>1, <2>1, <3>1, DrainedCell, HashesAreValues DEF Drain
    <3> QED BY <3>1, <3>2
  <2>2. CASE Evict(e)
    BY <1>1, <2>2, EvictedCell DEF Evict
  <2> QED BY <2>1, <2>2
<1>3. UNCHANGED <<name, sent, db, tx, writer, worker, acked>>
  BY DEF Drain, Evict
<1>4. TypeOK'
  BY <1>1, <1>2, <1>3 DEF TypeOK
<1>5. MessageInv'
  BY <1>3 DEF MessageInv, SameChat, Committing, Kept, Complete
<1> QED BY <1>4, <1>5

(* After a restart there is no transaction, and the cache is empty.        *)
LEMMA CrashStep ==
  ASSUME TypeOK, MessageInv, Crash
  PROVE  TypeOK' /\ MessageInv'
<1>1. /\ cache' = [e \in Entities |-> EmptyCell] /\ tx' = db /\ writer' = NoOne
      /\ worker' = [w \in Workers |-> Idle] /\ UNCHANGED <<name, sent, db, acked>>
  BY DEF Crash
<1>2. cache' \in [Entities -> Cell(Hashes)]
  BY <1>1, EmptyCellType
<1>3. worker' \in [Workers -> WorkerStates] /\ \A w \in Workers : worker'[w] = Idle
  BY <1>1 DEF WorkerStates
<1>4. TypeOK'
  BY <1>1, <1>2, <1>3 DEF TypeOK
<1>5. SameChat' /\ Committing'
  BY <1>1, <1>3 DEF MessageInv, SameChat, Committing, Idle
<1>6. Kept' /\ Complete(db)' /\ Complete(tx)'
  BY <1>1 DEF MessageInv, Kept, Complete
<1> QED BY <1>4, <1>5, <1>6 DEF MessageInv

(* The tables are empty at first.                                          *)
LEMMA InitHolds == Init => TypeOK /\ MessageInv
<1> SUFFICES ASSUME Init PROVE TypeOK /\ MessageInv
  OBVIOUS
<1>1. /\ db \in Tables /\ tx = db /\ \A i \in Ids : db.messages[i] = NoText
  BY DEF Init, Tables
<1>2. cache \in [Entities -> Cell(Hashes)]
  BY EmptyCellType DEF Init
<1>3. TypeOK
  BY <1>1, <1>2, MessageAssumption DEF Init, TypeOK, Names, WorkerStates
<1>4. SameChat
  BY DEF Init, SameChat
<1>5. Committing
  BY DEF Init, Committing, Idle
<1>6. Kept /\ Complete(db) /\ Complete(tx)
  BY <1>1 DEF Init, Kept, Complete
<1> QED BY <1>3, <1>4, <1>5, <1>6 DEF MessageInv

(* Every step keeps the types and MessageInv.                              *)
LEMMA MessageStep == TypeOK /\ MessageInv /\ [Next]_vars => TypeOK' /\ MessageInv'
<1> SUFFICES ASSUME TypeOK, MessageInv, [Next]_vars
             PROVE  TypeOK' /\ MessageInv'
  OBVIOUS
<1>1. ASSUME NEW w \in Workers, NEW c \in Chats, NEW u \in Users,
             NEW other \in Entities \cup {NoOne}, NEW reply \in Ids \cup {0},
             Post(w, c, u, other, reply)
      PROVE  TypeOK' /\ MessageInv'
  BY <1>1, PostStep
<1>2. ASSUME NEW w \in Workers, NEW c \in Chats, NEW id \in Ids, Edit(w, c, id)
      PROVE  TypeOK' /\ MessageInv'
  BY <1>2, EditStep
<1>3. ASSUME NEW w \in Workers, Continue(w)
      PROVE  TypeOK' /\ MessageInv'
  BY <1>3, ContinueStep
<1>4. ASSUME NEW e \in Entities, Rename(e)
      PROVE  TypeOK' /\ MessageInv'
  <2>1. /\ name' = [name EXCEPT ![e] = "new"]
        /\ UNCHANGED <<sent, cache, db, tx, writer, worker, acked>>
    BY <1>4 DEF Rename
  <2>2. TypeOK'
    BY <2>1 DEF TypeOK, Names
  <2>3. MessageInv'
    BY <2>1 DEF MessageInv, SameChat, Committing, Kept, Complete
  <2> QED BY <2>2, <2>3
<1>5. ASSUME NEW e \in Entities, Drain(e) \/ Evict(e)
      PROVE  TypeOK' /\ MessageInv'
  BY <1>5, CacheStep
<1>6. CASE Crash
  BY <1>6, CrashStep
<1>7. CASE UNCHANGED vars
  <2>1. UNCHANGED <<name, sent, cache, db, tx, writer, worker, acked>>
    BY <1>7 DEF vars
  <2> QED BY <2>1 DEF TypeOK, MessageInv, SameChat, Committing, Kept, Complete
<1> QED BY <1>1, <1>2, <1>3, <1>4, <1>5, <1>6, <1>7 DEF Next

(* The types of MessageStore.                                              *)
THEOREM MessageTypeCorrect == Spec => []TypeOK
<1>1. TypeOK /\ MessageInv /\ [Next]_vars => TypeOK' /\ MessageInv'
  BY MessageStep
<1> QED BY InitHolds, <1>1, PTL DEF Spec

(* The inductive invariant.                                                *)
THEOREM MessagesAreSound == Spec => []MessageInv
<1>1. TypeOK /\ MessageInv /\ [Next]_vars => TypeOK' /\ MessageInv'
  BY MessageStep
<1> QED BY InitHolds, <1>1, PTL DEF Spec

(* No message is stored without the chat and the sender it refers to,      *)
(* though the cache claims chats that were rolled back.                    *)
THEOREM ReferencesStay == Spec => []ReferencesAreStored
<1>1. MessageInv => ReferencesAreStored
  BY DEF MessageInv, ReferencesAreStored
<1> QED BY <1>1, MessagesAreSound, PTL

(* Only the goroutines write to the tables.                                *)
LEMMA NextCommits ==
  ASSUME [Next]_vars
  PROVE  db' = db \/ \E w \in Workers : Continue(w)
<1>1. ASSUME NEW w, NEW c, NEW id, NEW other, NEW reply, Deliver(w, c, id, other, reply)
      PROVE  db' = db
  BY <1>1 DEF Deliver
<1>2. ASSUME NEW w \in Workers, NEW c \in Chats, NEW u \in Users,
             NEW other \in Entities \cup {NoOne}, NEW reply \in Ids \cup {0},
             Post(w, c, u, other, reply)
      PROVE  db' = db
  BY <1>1, <1>2 DEF Post
<1>3. ASSUME NEW w \in Workers, NEW c \in Chats, NEW id \in Ids, Edit(w, c, id)
      PROVE  db' = db
  BY <1>1, <1>3 DEF Edit
<1>4. ASSUME NEW e \in Entities, Rename(e) \/ Drain(e) \/ Evict(e)
      PROVE  db' = db
  BY <1>4 DEF Rename, Drain, Evict
<1>5. Crash \/ UNCHANGED vars => db' = db
  BY DEF Crash, vars
<1> QED BY <1>2, <1>3, <1>4, <1>5 DEF Next

(* And a goroutine reports a message stored when it commits.               *)
LEMMA NextReports ==
  ASSUME [Next]_vars
  PROVE  \/ db' = db /\ acked' = acked
         \/ \E w \in Workers : Commit(w) /\ ~Rollback(w)
<1>1. ASSUME NEW w, NEW c, NEW id, NEW other, NEW reply, Deliver(w, c, id, other, reply)
      PROVE  db' = db /\ acked' = acked
  BY <1>1 DEF Deliver
<1>2. ASSUME NEW w \in Workers, NEW c \in Chats, NEW u \in Users,
             NEW other \in Entities \cup {NoOne}, NEW reply \in Ids \cup {0},
             Post(w, c, u, other, reply)
      PROVE  db' = db /\ acked' = acked
  BY <1>1, <1>2 DEF Post
<1>3. ASSUME NEW w \in Workers, NEW c \in Chats, NEW id \in Ids, Edit(w, c, id)
      PROVE  db' = db /\ acked' = acked
  BY <1>1, <1>3 DEF Edit
<1>4. ASSUME NEW e \in Entities, Rename(e) \/ Drain(e) \/ Evict(e)
      PROVE  db' = db /\ acked' = acked
  BY <1>4 DEF Rename, Drain, Evict
<1>5. Crash \/ UNCHANGED vars => db' = db /\ acked' = acked
  BY DEF Crash, vars
<1>6. ASSUME NEW w \in Workers, Continue(w)
      PROVE  \/ db' = db /\ acked' = acked
             \/ Commit(w) /\ ~Rollback(w)
  BY <1>6 DEF Continue, Begin, UpsertChats, UpsertUsers, SaveMessage, Commit, Rollback
<1> QED BY <1>2, <1>3, <1>4, <1>5, <1>6 DEF Next

(* Whatever is rolled back, whoever dies: no committed message goes.       *)
THEOREM MessagesStay ==
  Spec => [][\A i \in Ids : db.messages[i] # NoText => db'.messages[i] # NoText]_vars
<1>1. MessageInv /\ [Next]_vars =>
        [\A i \in Ids : db.messages[i] # NoText => db'.messages[i] # NoText]_vars
  <2> SUFFICES ASSUME MessageInv, [Next]_vars
               PROVE  db' = db \/ db' = tx
    BY DEF MessageInv, Kept
  <2>1. ASSUME NEW w \in Workers, Continue(w)
        PROVE  db' = db \/ db' = tx
    BY <2>1 DEF Continue, Begin, UpsertChats, UpsertUsers, SaveMessage, Commit, Rollback
  <2> QED BY <2>1, NextCommits
<1> QED BY <1>1, MessagesAreSound, PTL DEF Spec

(* The messages a transaction commits do not depend on the rows it sees.   *)
LEMMA SameMessages ==
  ASSUME NEW s, NEW t, s.messages = t.messages, NEW u
  PROVE  WithMessage(s, u).messages = WithMessage(t, u).messages
BY DEF WithMessage

(* A step of one goroutine keeps Isolation if it keeps it for itself, and  *)
(* changes the tables only with the lock that excludes the others.         *)
LEMMA IsolationKept ==
  ASSUME TypeOK, TypeOK', MessageInv, Isolation, NEW w \in Workers,
         \A v \in Workers \ {w} : worker'[v] = worker[v],
         UNCHANGED <<db, tx, writer>> \/ (writer \in {NoOne, w} /\ writer' \in {NoOne, w}),
         writer' = w => worker'[w].pc \in {"users", "message", "commit"},
         IF worker'[w].pc = "commit"
         THEN tx'.messages = WithMessage(db', worker'[w].update).messages
         ELSE writer' = w => tx'.messages = db'.messages
  PROVE  Isolation'
<1>1. writer' # NoOne => worker'[writer'].pc \in {"users", "message", "commit"}
  BY DEF TypeOK, Isolation
<1>2. ASSUME NEW v \in Workers \ {w}
      PROVE  IF worker'[v].pc = "commit"
             THEN tx'.messages = WithMessage(db', worker'[v].update).messages
             ELSE writer' = v => tx'.messages = db'.messages
  <2>1. CASE UNCHANGED <<db, tx, writer>>
    BY <1>2, <2>1 DEF Isolation
  <2>2. CASE writer \in {NoOne, w} /\ writer' \in {NoOne, w}
    <3>1. worker[v].pc # "commit" /\ writer' # v
      BY <1>2, <2>2, MessageAssumption DEF MessageInv, Committing
    <3> QED BY <1>2, <3>1
  <2> QED BY <2>1, <2>2
<1> QED BY <1>1, <1>2 DEF Isolation

(* A transaction that is rolled back leaves the lock.                      *)
LEMMA IsolationAfterRollback ==
  ASSUME TypeOK, TypeOK', MessageInv, Isolation, NEW w \in Workers, Rollback(w)
  PROVE  Isolation'
<1>1. /\ worker'[w].pc = "idle" /\ \A v \in Workers \ {w} : worker'[v] = worker[v]
  BY Returned DEF Rollback
<1>2. /\ UNCHANGED <<db, tx, writer>> \/ (writer = w /\ writer' = NoOne)
      /\ writer' # w
  BY MessageAssumption DEF Rollback
<1> QED BY <1>1, <1>2, IsolationKept

(* A batch of rows: the lock was free, or its own since the batch before.  *)
LEMMA IsolationAfterSave ==
  ASSUME TypeOK, TypeOK', MessageInv, Isolation, NEW w \in Workers, worker[w].pc \in {"chats", "users"},
         Save(w, worker[w].batch), UNCHANGED db,
         NEW pc \in {"users", "message"}, NEW batch \in Batches, Goto(w, pc, batch)
  PROVE  Isolation'
<1>1. /\ worker'[w].pc = pc /\ \A v \in Workers \ {w} : worker'[v] = worker[v]
  BY MovedOn
<1>2. \/ UNCHANGED <<tx, writer>>
      \/ /\ writer \in {NoOne, w} /\ writer' = w
         /\ tx' = [tx EXCEPT !.rows = Updated(@, worker[w].batch)]
  BY DEF Save, Lock
<1>3. tx'.messages = tx.messages
  <2>1. tx = [rows |-> tx.rows, messages |-> tx.messages]
    BY DEF TypeOK, Tables
  <2> QED BY <1>2, <2>1
<1>4. writer' = w => tx'.messages = db'.messages
  BY <1>2, <1>3 DEF TypeOK, Isolation
<1> QED BY <1>1, <1>2, <1>4, IsolationKept

LEMMA IsolationStep ==
  ASSUME TypeOK, TypeOK', MessageInv, Isolation, [Next]_vars
  PROVE  Isolation'
<1>1. ASSUME NEW w \in Workers, NEW c, NEW id, NEW other, NEW reply, Deliver(w, c, id, other, reply)
      PROVE  Isolation'
  <2>1. /\ worker[w].pc = "idle" /\ UNCHANGED <<db, tx, writer>>
        /\ worker'[w].pc = "begin" /\ \A v \in Workers \ {w} : worker'[v] = worker[v]
    BY <1>1 DEF Deliver, At, TypeOK
  <2>2. writer # w
    BY <2>1, MessageAssumption DEF Isolation
  <2> QED BY <2>1, <2>2, IsolationKept
<1>2. ASSUME NEW w \in Workers, Begin(w)
      PROVE  Isolation'
  <2>1. worker[w].pc = "begin" /\ UNCHANGED <<db, tx, writer>>
    BY <1>2 DEF Begin, At
  <2>2. worker'[w].pc = "chats" /\ \A v \in Workers \ {w} : worker'[v] = worker[v]
    BY <1>2, <2>1, UnderWay, BatchesOf, MovedOn DEF Begin
  <2>3. writer # w
    BY <2>1, MessageAssumption DEF Isolation
  <2> QED BY <2>1, <2>2, <2>3, IsolationKept
<1>3. ASSUME NEW w \in Workers, UpsertChats(w)
      PROVE  Isolation'
  <2>1. worker[w].pc = "chats" /\ UsersToSave(worker[w].update) \in Batches
    BY <1>3, UnderWay, BatchesOf DEF UpsertChats, At
  <2> QED BY <1>3, <2>1, IsolationAfterRollback, IsolationAfterSave DEF UpsertChats
<1>4. ASSUME NEW w \in Workers, UpsertUsers(w)
      PROVE  Isolation'
  <2>1. worker[w].pc = "users"
    BY <1>4 DEF UpsertUsers, At
  <2> QED BY <1>4, <2>1, NoBatchIsOne, IsolationAfterRollback, IsolationAfterSave DEF UpsertUsers
<1>5. ASSUME NEW w \in Workers, SaveMessage(w)
      PROVE  Isolation'
  <2>1. CASE Rollback(w)
    BY <2>1, IsolationAfterRollback
  <2>2. CASE ~Rollback(w)
    <3>1. /\ worker[w].pc = "message" /\ writer \in {NoOne, w} /\ writer' = w /\ UNCHANGED db
          /\ tx' = WithMessage(tx, worker[w].update) /\ Goto(w, "commit", NoBatch)
      BY <1>5, <2>2 DEF SaveMessage, At, Lock
    <3>2. /\ worker'[w].pc = "commit" /\ worker'[w].update = worker[w].update
          /\ \A v \in Workers \ {w} : worker'[v] = worker[v]
      BY <3>1, NoBatchIsOne, MovedOn
    <3>3. tx.messages = db.messages
      BY <3>1 DEF TypeOK, Isolation
    <3>4. tx'.messages = WithMessage(db', worker'[w].update).messages
      BY <3>1, <3>2, <3>3, SameMessages
    <3> QED BY <3>1, <3>2, <3>4, IsolationKept
  <2> QED BY <2>1, <2>2
<1>6. ASSUME NEW w \in Workers, Commit(w)
      PROVE  Isolation'
  <2>1. CASE Rollback(w)
    BY <2>1, IsolationAfterRollback
  <2>2. CASE ~Rollback(w)
    <3>1. worker[w].pc = "commit" /\ writer' = NoOne /\ Return(w)
      BY <1>6, <2>2 DEF Commit, At
    <3>2. writer = w
      BY <3>1 DEF MessageInv, Committing
    <3>3. worker'[w].pc = "idle" /\ \A v \in Workers \ {w} : worker'[v] = worker[v]
      BY <3>1, Returned
    <3> QED BY <3>1, <3>2, <3>3, MessageAssumption, IsolationKept
  <2> QED BY <2>1, <2>2
<1>7. CASE Crash
  <2>1. writer' = NoOne /\ \A w \in Workers : worker'[w].pc = "idle"
    BY <1>7 DEF Crash, Idle
  <2> QED BY <2>1, MessageAssumption DEF Isolation
<1>8. ASSUME UNCHANGED <<db, tx, writer, worker>>
      PROVE  Isolation'
  BY <1>8 DEF Isolation
<1>9. ASSUME NEW e \in Entities, Rename(e) \/ Drain(e) \/ Evict(e)
      PROVE  UNCHANGED <<db, tx, writer, worker>>
  BY <1>9 DEF Rename, Drain, Evict
<1>10. ASSUME NEW w \in Workers, NEW c \in Chats, NEW u \in Users,
             NEW other \in Entities \cup {NoOne}, NEW reply \in Ids \cup {0},
             Post(w, c, u, other, reply)
      PROVE  Isolation'
  BY <1>1, <1>10 DEF Post
<1>11. ASSUME NEW w \in Workers, NEW c \in Chats, NEW id \in Ids, Edit(w, c, id)
       PROVE  Isolation'
  BY <1>1, <1>11 DEF Edit
<1>12. CASE UNCHANGED vars
  BY <1>8, <1>12 DEF vars
<1> QED
  BY <1>2, <1>3, <1>4, <1>5, <1>6, <1>7, <1>8, <1>9, <1>10, <1>11, <1>12 DEF Next, Continue

(* Every transaction sees what was committed and what it wrote.            *)
LEMMA TransactionsAreIsolated == Spec => []Isolation
<1>1. Init => Isolation
  BY MessageAssumption DEF Init, Isolation, Idle
<1>2. Spec => [](TypeOK /\ MessageInv)
  BY MessageTypeCorrect, MessagesAreSound, PTL
<1>3. TypeOK /\ TypeOK' /\ MessageInv /\ Isolation /\ [Next]_vars => Isolation'
  BY IsolationStep
<1> QED BY <1>1, <1>2, <1>3, PTL DEF Spec

(* Only a message that is reported stored takes the place of one that was, *)
(* in any number of chats: the counterexample of MCMessageStore_chats.cfg  *)
(* is all that can go wrong.                                               *)
THEOREM StoredStay == Spec => []StoredIsKept
<1>1. Init => StoredIsKept
  BY DEF Init, StoredIsKept
<1>2. ASSUME TypeOK, MessageInv, Isolation, StoredIsKept, [Next]_vars
      PROVE  StoredIsKept'
  <2>1. CASE db' = db /\ acked' = acked
    BY <1>2, <2>1 DEF StoredIsKept
  <2>2. ASSUME NEW w \in Workers, Commit(w), ~Rollback(w)
        PROVE  StoredIsKept'
    <3> DEFINE u == worker[w].update
               mine == [id |-> u.id, chat |-> u.msg.chat]
    <3>1. worker[w].pc = "commit" /\ db' = tx /\ acked' = acked \cup {mine}
      BY <2>2 DEF Commit, At
    <3>2. db'.messages = WithMessage(db, u).messages
      BY <1>2, <3>1 DEF Isolation
    <3>3. u \in Update
      BY <1>2, <3>1, UnderWay
    <3>4. db'.messages[u.id] = u.msg
      BY <3>2, <3>3 DEF WithMessage, Update
    <3>5. ASSUME NEW m \in acked, m.id # u.id
          PROVE  db'.messages[m.id] = db.messages[m.id]
      <4>1. m.id \in Ids /\ db.messages[m.id] # NoText
        BY <1>2 DEF TypeOK, MessageInv, Kept
      <4> QED BY <3>2, <3>5, <4>1 DEF WithMessage
    <3>6. ASSUME NEW m \in acked'
          PROVE  \E a \in acked' : a.id = m.id /\ db'.messages[m.id].chat = a.chat
      <4>1. CASE m.id = u.id
        <5>1. mine \in acked' /\ mine.id = m.id /\ mine.chat = u.msg.chat
          BY <3>1, <4>1
        <5>2. db'.messages[m.id].chat = mine.chat
          BY <3>4, <4>1, <5>1
        <5> HIDE DEF mine
        <5> QED BY <5>1, <5>2
      <4>2. CASE m.id # u.id
        <5>1. m \in acked
          BY <3>1, <4>2
        <5> QED BY <1>2, <3>1, <3>5, <4>2, <5>1 DEF StoredIsKept
      <4> QED BY <4>1, <4>2
    <3> QED BY <3>6 DEF StoredIsKept
  <2>3. \/ db' = db /\ acked' = acked
        \/ \E w \in Workers : Commit(w) /\ ~Rollback(w)
    BY <1>2, NextReports
  <2> QED BY <2>1, <2>2, <2>3
<1>3. TypeOK /\ MessageInv /\ Isolation /\ StoredIsKept /\ [Next]_vars => StoredIsKept'
  BY <1>2
<1> QED
  BY <1>1, <1>3, MessageTypeCorrect, MessagesAreSound, TransactionsAreIsolated, PTL DEF Spec

(* A commit stores its own message, and the one it replies to if that was  *)
(* missing; with any number of goroutines it loses none and brings none    *)
(* back.                                                                   *)
THEOREM CommitsTouchTheirOwn == Spec => CommitsItsOwn
<1> DEFINE Own(w, i) ==
      LET u == worker[w].update
      IN  /\ worker[w].pc = "commit" /\ worker'[w] = Idle
          /\ \/ i = u.id /\ db'.messages[i] = u.msg
             \/ i = u.reply /\ db.messages[i] = NoText /\ db'.messages[i] = u.replied
<1>1. ASSUME TypeOK, MessageInv, Isolation, [Next]_vars,
             NEW i \in Ids, db'.messages[i] # db.messages[i]
      PROVE  \E w \in Workers : Own(w, i)
  <2>1. PICK w \in Workers : Commit(w) /\ db' = tx /\ Return(w)
    <3>1. ASSUME NEW w \in Workers, Continue(w), ~(Commit(w) /\ db' = tx /\ Return(w))
          PROVE  db' = db
      BY <3>1 DEF Continue, Begin, UpsertChats, UpsertUsers, SaveMessage, Commit, Rollback
    <3>2. db' = db \/ \E w \in Workers : Continue(w)
      BY <1>1, NextCommits
    <3> QED BY <1>1, <3>1, <3>2
  <2>2. worker[w].pc = "commit" /\ worker'[w] = Idle
    BY <1>1, <2>1, Returned DEF Commit, At
  <2>3. db'.messages[i] = WithMessage(db, worker[w].update).messages[i]
    BY <1>1, <2>1, <2>2 DEF Isolation
  <2>4. Own(w, i)
    BY <1>1, <2>2, <2>3 DEF WithMessage
  <2> QED BY <2>4
<1>2. TypeOK /\ MessageInv /\ Isolation /\ [Next]_vars =>
        [\A i \in Ids : db'.messages[i] # db.messages[i] => \E w \in Workers : Own(w, i)]_vars
  BY <1>1
<1> QED
  BY <1>2, MessageTypeCorrect, MessagesAreSound, TransactionsAreIsolated, PTL DEF Spec, CommitsItsOwn
=============================================================================
