------------------------------ MODULE KVStore ------------------------------
(***************************************************************************)
(* The key-value store of storage.Storage: KVSet, KVDelete and KVGet over  *)
(* the table kv with a cache entry per key in front of it.  Nothing in the *)
(* program calls them yet; they are part of what Storage offers.           *)
(*                                                                         *)
(* A call waits for the database once, and other calls and the cache's own *)
(* goroutine go on while it does.                                          *)
(***************************************************************************)
EXTENDS Ristretto, FiniteSets

CONSTANTS
  Keys,          \* keys in use
  NoKey,         \* the key of a goroutine that is in no call
  Values,        \* values, after gob has encoded them
  None,          \* no value: no row, and nothing to answer
  Callers,       \* goroutines that may be inside a call
  PendingLimit   \* capacity of the cache's write buffer

ASSUME KVAssumption ==
  /\ NoKey \notin Keys /\ None \notin Values
  /\ {Absent, Delete} \cap Values = {}
  /\ PendingLimit \in Nat \ {0}

VARIABLES
  cache,   \* the cell of "_kv#<key>" of every key
  kv,      \* the table: the value of every key, None where there is no row
  call,    \* what every goroutine is doing
  got,     \* the answer of the last KVGet: its key, and the value or None
  tried,   \* history: the values KVSet was called with, for every key
  held     \* history: the values the row of every key has had

history == <<tried, held>>
vars == <<cache, kv, call, got, tried, held>>

(* pc is the statement a goroutine executes next:                          *)
(*   save    KVSet has set the cache, the upsert comes next                *)
(*   undo    the upsert failed, the cache entry is deleted next            *)
(*   delete  KVDelete has deleted the cache entry, the row comes next      *)
(*   query   KVGet missed the cache, its query comes next                  *)
(*   fill    the query has answered, the answer goes to the cache next     *)
Idle == [pc |-> "idle", key |-> NoKey, val |-> None]

CallStates ==
  {Idle} \cup [pc  : {"save", "undo", "delete", "query", "fill"},
               key : Keys,
               val : Values \cup {None}]

At(c, pc) == call[c].pc = pc
Start(c, k, v, pc) ==
  /\ At(c, "idle")
  /\ call' = [call EXCEPT ![c] = [pc |-> pc, key |-> k, val |-> v]]
Return(c) == call' = [call EXCEPT ![c] = Idle]

Put(k, v) ==
  \E cell \in SetOutcomes(cache[k], v, PendingLimit) : cache' = [cache EXCEPT ![k] = cell]

Del(k) ==
  /\ CanDelete(cache[k], PendingLimit)
  /\ cache' = [cache EXCEPT ![k] = Deleted(@)]

-----------------------------------------------------------------------------
Init ==
  /\ cache = [k \in Keys |-> EmptyCell]
  /\ kv = [k \in Keys |-> None]
  /\ call = [c \in Callers |-> Idle]
  /\ got \in [key : Keys, val : {None}]
  /\ tried = [k \in Keys |-> {}]
  /\ held = [k \in Keys |-> {}]

KVSet(c, k, v) ==
  /\ Start(c, k, v, "save")
  /\ Put(k, v)
  /\ tried' = [tried EXCEPT ![k] = @ \cup {v}]
  /\ UNCHANGED <<kv, got, held>>

Save(c) ==
  /\ At(c, "save")
  /\ \/ /\ kv' = [kv EXCEPT ![call[c].key] = call[c].val]
        /\ held' = [held EXCEPT ![call[c].key] = @ \cup {call[c].val}]
        /\ Return(c)
     \/ /\ call' = [call EXCEPT ![c].pc = "undo"]        \* the upsert failed
        /\ UNCHANGED <<kv, held>>
  /\ UNCHANGED <<cache, got, tried>>

(* Mutant: a failed upsert leaves the value in the cache.                  *)
UndoSaveForgotten(c) == At(c, "undo") /\ Return(c) /\ UNCHANGED <<cache, kv, got, history>>

UndoSave(c) ==
  /\ At(c, "undo")
  /\ Del(call[c].key)
  /\ Return(c)
  /\ UNCHANGED <<kv, got, history>>

KVDelete(c, k) ==
  /\ Start(c, k, None, "delete")
  /\ Del(k)
  /\ UNCHANGED <<kv, got, history>>

DeleteRow(c) ==
  /\ At(c, "delete")
  /\ kv' \in {kv, [kv EXCEPT ![call[c].key] = None]}     \* it may fail
  /\ Return(c)
  /\ UNCHANGED <<cache, got, history>>

KVGet(c, k) ==
  /\ \/ /\ Hit(cache[k]) /\ At(c, "idle")
        /\ got' = [key |-> k, val |-> cache[k].val]
        /\ UNCHANGED call
     \/ /\ ~Hit(cache[k])
        /\ Start(c, k, None, "query")
        /\ UNCHANGED got
  /\ UNCHANGED <<cache, kv, history>>

(* Mutant: that there is no value is cached too.                           *)
QueryCachesNone(c) ==
  /\ At(c, "query")
  /\ call' = [call EXCEPT ![c].pc = "fill", ![c].val = kv[call[c].key]]
  /\ UNCHANGED <<cache, kv, got, history>>

(* Mutant: a failed query is answered as if there were no row.             *)
QueryHidesFailure(c) ==
  /\ At(c, "query")
  /\ LET k == call[c].key
     IN  \/ /\ kv[k] # None
            /\ call' = [call EXCEPT ![c].pc = "fill", ![c].val = kv[k]]
            /\ UNCHANGED got
         \/ /\ got' = [key |-> k, val |-> None]
            /\ Return(c)
  /\ UNCHANGED <<cache, kv, history>>

Query(c) ==
  /\ At(c, "query")
  /\ LET k == call[c].key
     IN  \/ /\ kv[k] # None
            /\ call' = [call EXCEPT ![c].pc = "fill", ![c].val = kv[k]]
            /\ UNCHANGED got
         \/ /\ kv[k] = None                              \* record not found
            /\ got' = [key |-> k, val |-> None]
            /\ Return(c)
         \/ Return(c) /\ UNCHANGED got                   \* the query failed
  /\ UNCHANGED <<cache, kv, history>>

Fill(c) ==
  /\ At(c, "fill")
  /\ Put(call[c].key, call[c].val)
  /\ got' = [key |-> call[c].key, val |-> call[c].val]
  /\ Return(c)
  /\ UNCHANGED <<kv, history>>

(* The cache's own goroutine, and its eviction.                            *)
Drain(k) ==
  /\ cache[k].buf # <<>>
  /\ \E cell \in DrainOutcomes(cache[k]) : cache' = [cache EXCEPT ![k] = cell]
  /\ UNCHANGED <<kv, call, got, history>>

Evict(k) ==
  /\ Hit(cache[k])
  /\ cache' = [cache EXCEPT ![k] = Evicted(@)]
  /\ UNCHANGED <<kv, call, got, history>>

Continue(c) == Save(c) \/ UndoSave(c) \/ DeleteRow(c) \/ Query(c) \/ Fill(c)

Next ==
  \/ \E c \in Callers, k \in Keys :
       \/ \E v \in Values : KVSet(c, k, v)
       \/ KVDelete(c, k) \/ KVGet(c, k)
  \/ \E c \in Callers : Continue(c)
  \/ \E k \in Keys : Drain(k) \/ Evict(k)

Spec == Init /\ [][Next]_vars
-----------------------------------------------------------------------------
(* Every variable has its type.                                            *)
TypeOK ==
  /\ cache \in [Keys -> Cell(Values)]
  /\ kv \in [Keys -> Values \cup {None}]
  /\ call \in [Callers -> CallStates]
  /\ got \in [key : Keys, val : Values \cup {None}]
  /\ tried \in [Keys -> SUBSET Values]
  /\ held \in [Keys -> SUBSET Values]

(* A value of a key has been in its row, or a KVSet is still about to save *)
(* it there or to take it out of the cache.                                *)
Backed(k, v) ==
  \/ v \in held[k]
  \/ \E c \in Callers : call[c].pc \in {"save", "undo"} /\ call[c].key = k /\ call[c].val = v

(* A removal is queued behind place i of the buffer; 0 is the visible value.*)
Doomed(buf, i) == \E j \in DOMAIN buf : j > i /\ buf[j] = Delete

(* What the cache holds for a key, or has in its buffer for it, has been   *)
(* in the table, or is being saved by a KVSet under way (storage.go:358),  *)
(* or has its removal queued behind it: a value whose upsert failed (367)  *)
(* does not outlast the removal, however calls of the same key overlap and *)
(* however late the cache's goroutine is.                                  *)
CachedWasStored ==
  \A k \in Keys :
    LET cell == cache[k]
    IN  /\ Hit(cell) => Backed(k, cell.val) \/ Doomed(cell.buf, 0)
        /\ \A i \in DOMAIN cell.buf :
             cell.buf[i] # Delete => Backed(k, cell.buf[i]) \/ Doomed(cell.buf, i)

(* Between calls the cache holds what the table holds or nothing.  It does *)
(* not: calls of one key that overlap leave the cache with a value the row *)
(* has lost (see KVStore_race.cfg).                                        *)
CachedIsStored ==
  (\A c \in Callers : call[c] = Idle) /\ (\A k \in Keys : cache[k].buf = <<>>)
    => \A k \in Keys : Hit(cache[k]) => cache[k].val = kv[k]

(* The store implements a map whose gets may be late: the database's part  *)
(* of a call is the map's step, KVGet answers a value some KVSet of the    *)
(* key was called with, and says "not found" (storage.go:400) only while   *)
(* the row is not there.                                                   *)
Map == INSTANCE KVMap WITH map <- kv

ImplementsMap == Map!Spec
=============================================================================
