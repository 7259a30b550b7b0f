---------------------------- MODULE KVStoreProofs ----------------------------
(***************************************************************************)
(* Proofs about KVStore, for any keys, values and callers and a buffer of  *)
(* any length: its types, that what the cache holds was stored or is going *)
(* away, and that the store is a map whose gets may be late.               *)
(***************************************************************************)
EXTENDS KVStore, RistrettoProofs

USE DEF Absent, Delete, Idle, At, Return, history

-----------------------------------------------------------------------------
(* A goroutine in a call works on a key.                                   *)
LEMMA CallHasKey ==
  ASSUME TypeOK, NEW c \in Callers, call[c].pc # "idle"
  PROVE  /\ call[c] \in [pc : {"save", "undo", "delete", "query", "fill"},
                         key : Keys, val : Values \cup {None}]
         /\ call[c].key \in Keys /\ call[c].val \in Values \cup {None}
BY DEF TypeOK, CallStates

(* A value about to be cached or saved is one; TypeOK does not say so.     *)
CallValues ==
  \A c \in Callers : call[c].pc \in {"save", "undo", "fill"} => call[c].val \in Values

KVTypes == TypeOK /\ CallValues

LEMMA PutKeepsType ==
  ASSUME TypeOK, NEW k \in Keys, NEW v \in Values, Put(k, v)
  PROVE  cache' \in [Keys -> Cell(Values)]
<1>1. PICK cell \in SetOutcomes(cache[k], v, PendingLimit) : cache' = [cache EXCEPT ![k] = cell]
  BY DEF Put
<1>2. cache[k] \in Cell(Values) /\ PendingLimit \in Nat
  BY KVAssumption DEF TypeOK, KVAssumption
<1>3. cell \in Cell(Values)
  BY <1>2, SetCell
<1> QED BY <1>1, <1>3 DEF TypeOK

LEMMA DelKeepsType ==
  ASSUME TypeOK, NEW k \in Keys, Del(k)
  PROVE  cache' \in [Keys -> Cell(Values)]
<1>1. Deleted(cache[k]) \in Cell(Values)
  BY DeletedCell DEF TypeOK
<1> QED BY <1>1 DEF Del, TypeOK

LEMMA DrainKeepsType ==
  ASSUME TypeOK, NEW k \in Keys, Drain(k)
  PROVE  cache' \in [Keys -> Cell(Values)]
<1>1. PICK cell \in DrainOutcomes(cache[k]) : cache' = [cache EXCEPT ![k] = cell]
  BY DEF Drain
<1>2. cache[k] \in Cell(Values) /\ cache[k].buf # <<>>
  BY DEF TypeOK, Drain
<1>3. Absent \notin Values /\ Delete \notin Values
  BY KVAssumption DEF KVAssumption
<1>4. cell \in Cell(Values)
  BY <1>2, <1>3, DrainedCell
<1> QED BY <1>1, <1>4 DEF TypeOK

LEMMA TypesStart == Init => KVTypes
<1> SUFFICES ASSUME Init PROVE KVTypes
  OBVIOUS
<1>1. EmptyCell \in Cell(Values)
  BY EmptyCellType
<1> QED BY <1>1 DEF Init, KVTypes, TypeOK, CallStates, CallValues

LEMMA TypesKept == KVTypes /\ [Next]_vars => KVTypes'
<1> SUFFICES ASSUME KVTypes, [Next]_vars PROVE KVTypes'
  OBVIOUS
<1> USE DEF KVTypes, CallValues
<1>1. ASSUME NEW c \in Callers, NEW k \in Keys, NEW v \in Values, KVSet(c, k, v)
      PROVE  KVTypes'
  <2>1. cache' \in [Keys -> Cell(Values)]
    BY <1>1, PutKeepsType DEF KVSet
  <2>2. [pc |-> "save", key |-> k, val |-> v] \in CallStates
    BY DEF CallStates
  <2> QED BY <1>1, <2>1, <2>2 DEF KVSet, Start, TypeOK
<1>2. ASSUME NEW c \in Callers, NEW k \in Keys, KVDelete(c, k)
      PROVE  KVTypes'
  <2>1. cache' \in [Keys -> Cell(Values)]
    BY <1>2, DelKeepsType DEF KVDelete
  <2>2. [pc |-> "delete", key |-> k, val |-> None] \in CallStates
    BY DEF CallStates
  <2> QED BY <1>2, <2>1, <2>2 DEF KVDelete, Start, TypeOK
<1>3. ASSUME NEW c \in Callers, NEW k \in Keys, KVGet(c, k)
      PROVE  KVTypes'
  <2>1. [pc |-> "query", key |-> k, val |-> None] \in CallStates
    BY DEF CallStates
  <2>2. Hit(cache[k]) => cache[k].val \in Values
    BY DEF TypeOK, Cell, Hit
  <2> QED BY <1>3, <2>1, <2>2 DEF KVGet, Start, TypeOK
<1>4. ASSUME NEW c \in Callers, Save(c)
      PROVE  KVTypes'
  <2>1. call[c].key \in Keys /\ call[c].val \in Values
    BY <1>4, CallHasKey DEF Save
  <2>2. [call[c] EXCEPT !.pc = "undo"] \in CallStates
    BY <1>4, CallHasKey DEF Save, CallStates
  <2> QED BY <1>4, <2>1, <2>2 DEF Save, TypeOK, CallStates
<1>5. ASSUME NEW c \in Callers, UndoSave(c)
      PROVE  KVTypes'
  <2>1. call[c].key \in Keys
    BY <1>5, CallHasKey DEF UndoSave
  <2>2. cache' \in [Keys -> Cell(Values)]
    BY <1>5, <2>1, DelKeepsType DEF UndoSave
  <2> QED BY <1>5, <2>2 DEF UndoSave, TypeOK, CallStates
<1>6. ASSUME NEW c \in Callers, DeleteRow(c)
      PROVE  KVTypes'
  <2>1. call[c].key \in Keys
    BY <1>6, CallHasKey DEF DeleteRow
  <2> QED BY <1>6, <2>1 DEF DeleteRow, TypeOK, CallStates
<1>7. ASSUME NEW c \in Callers, Query(c)
      PROVE  KVTypes'
  <2>1. call[c].key \in Keys
    BY <1>7, CallHasKey DEF Query
  <2>2. kv[call[c].key] # None => kv[call[c].key] \in Values
    BY <2>1 DEF TypeOK
  <2>3. kv[call[c].key] # None =>
          [call[c] EXCEPT !.pc = "fill", !.val = kv[call[c].key]] \in CallStates
    BY <1>7, <2>2, CallHasKey DEF Query, CallStates
  <2> QED BY <1>7, <2>1, <2>2, <2>3 DEF Query, TypeOK, CallStates
<1>8. ASSUME NEW c \in Callers, Fill(c)
      PROVE  KVTypes'
  <2>1. call[c].key \in Keys /\ call[c].val \in Values
    BY <1>8, CallHasKey DEF Fill
  <2>2. cache' \in [Keys -> Cell(Values)]
    BY <1>8, <2>1, PutKeepsType DEF Fill
  <2> QED BY <1>8, <2>1, <2>2 DEF Fill, TypeOK, CallStates
<1>9. ASSUME NEW k \in Keys, Drain(k)
      PROVE  KVTypes'
  BY <1>9, DrainKeepsType DEF Drain, TypeOK
<1>10. ASSUME NEW k \in Keys, Evict(k)
       PROVE  KVTypes'
  <2>1. Evicted(cache[k]) \in Cell(Values)
    BY EvictedCell DEF TypeOK
  <2> QED BY <1>10, <2>1 DEF Evict, TypeOK
<1>11. CASE UNCHANGED vars
  BY <1>11 DEF vars, TypeOK
<1> QED BY <1>1, <1>2, <1>3, <1>4, <1>5, <1>6, <1>7, <1>8, <1>9, <1>10, <1>11
        DEF Next, Continue

(* The types of the store, for any keys, values and number of callers.     *)
THEOREM KVTypeCorrect == Spec => []TypeOK
<1>1. KVTypes => TypeOK
  BY DEF KVTypes
<1> QED BY <1>1, TypesStart, TypesKept, PTL DEF Spec

-----------------------------------------------------------------------------
(* What the calls and the cache carry about: a value to be filled in has   *)
(* been in the row, and every value has been tried.                        *)
FillsHeld == \A c \in Callers : call[c].pc = "fill" => call[c].val \in held[call[c].key]

CallsTried ==
  \A c \in Callers : call[c].pc \in {"save", "undo"} => call[c].val \in tried[call[c].key]

RowsHeld == \A k \in Keys : kv[k] # None => kv[k] \in held[k]

HeldTried == \A k \in Keys : held[k] \subseteq tried[k]

CellTried(cell, vals) ==
  cell.val \in vals \cup {Absent} /\ \A i \in DOMAIN cell.buf : cell.buf[i] \in vals \cup {Delete}

CacheTried == \A k \in Keys : CellTried(cache[k], tried[k])

(* CachedWasStored for one cell, for any account of what backs its values. *)
CellBacked(cell, backed) ==
  /\ Hit(cell) => cell.val \in backed \/ Doomed(cell.buf, 0)
  /\ \A i \in DOMAIN cell.buf :
       cell.buf[i] # Delete => cell.buf[i] \in backed \/ Doomed(cell.buf, i)

Backing(k) == {v \in Values : Backed(k, v)}

CacheBacked == \A k \in Keys : CellBacked(cache[k], Backing(k))

KVInv ==
  /\ KVTypes /\ FillsHeld /\ CallsTried /\ RowsHeld /\ HeldTried
  /\ CacheTried /\ CacheBacked

-----------------------------------------------------------------------------
(* What the cache's operations do to such cells.                           *)
LEMMA MoreBacked ==
  ASSUME NEW cell \in Cell(Values), NEW A, NEW B, A \subseteq B
  PROVE  /\ CellBacked(cell, A) => CellBacked(cell, B)
         /\ CellTried(cell, A) => CellTried(cell, B)
BY DEF CellBacked, CellTried

LEMMA AppendDoomed ==
  ASSUME NEW V, NEW buf \in Seq(V), NEW e \in V, NEW i \in Nat, Doomed(buf, i)
  PROVE  Doomed(Append(buf, e), i)
<1>1. PICK j \in DOMAIN buf : j > i /\ buf[j] = Delete
  BY DEF Doomed
<1>2. j \in DOMAIN Append(buf, e) /\ Append(buf, e)[j] = Delete
  BY <1>1
<1> QED BY <1>1, <1>2 DEF Doomed

LEMMA SetKeeps ==
  ASSUME NEW cell \in Cell(Values), NEW v \in Values, NEW limit \in Nat,
         NEW new \in SetOutcomes(cell, v, limit), NEW S, v \in S
  PROVE  /\ CellTried(cell, S) => CellTried(new, S)
         /\ CellBacked(cell, S) => CellBacked(new, S)
<1>1. /\ cell.buf \in Seq(Values \cup {Delete}) /\ v # Absent /\ v # Delete
      /\ v \in Values \cup {Delete}
  BY KVAssumption DEF Cell, KVAssumption
<1>2. CASE new = cell
  BY <1>2
<1>3. CASE new.val = v /\ new.buf = cell.buf
  BY <1>1, <1>3 DEF CellTried, CellBacked, Hit
<1>4. CASE new.val = cell.val /\ new.buf = Append(cell.buf, v)
  <2>1. CellTried(cell, S) => CellTried(new, S)
    BY <1>1, <1>4 DEF CellTried
  <2>2. ASSUME CellBacked(cell, S), Hit(new)
        PROVE  new.val \in S \/ Doomed(new.buf, 0)
    BY <1>1, <1>4, <2>2, AppendDoomed DEF CellBacked, Hit
  <2>3. ASSUME CellBacked(cell, S), NEW i \in DOMAIN new.buf, new.buf[i] # Delete
        PROVE  new.buf[i] \in S \/ Doomed(new.buf, i)
    <3>1. CASE i \in DOMAIN cell.buf
      <4>1. i \in Nat /\ new.buf[i] = cell.buf[i]
        BY <1>1, <1>4, <3>1
      <4> QED BY <1>1, <1>4, <2>3, <3>1, <4>1, AppendDoomed DEF CellBacked
    <3>2. CASE i \notin DOMAIN cell.buf
      BY <1>1, <1>4, <3>2
    <3> QED BY <3>1, <3>2
  <2> QED BY <2>1, <2>2, <2>3 DEF CellBacked
<1> QED BY <1>2, <1>3, <1>4, SetCell

(* After Del nothing needs backing: the removal is behind everything.      *)
LEMMA DelKeeps ==
  ASSUME NEW cell \in Cell(Values), NEW S
  PROVE  /\ CellTried(cell, S) => CellTried(Deleted(cell), S)
         /\ CellBacked(Deleted(cell), S)
<1> DEFINE new == Deleted(cell)
<1>1. /\ cell.buf \in Seq(Values \cup {Delete})
      /\ new.val = Absent /\ new.buf = Append(cell.buf, Delete)
  BY DeletedCell DEF Cell
<1>2. CellTried(cell, S) => CellTried(new, S)
  BY <1>1 DEF CellTried
<1>3. ASSUME NEW i \in DOMAIN new.buf, new.buf[i] # Delete
      PROVE  Doomed(new.buf, i)
  <2>1. /\ Len(cell.buf) + 1 \in DOMAIN new.buf /\ new.buf[Len(cell.buf) + 1] = Delete
        /\ i < Len(cell.buf) + 1
    BY <1>1, <1>3
  <2> QED BY <2>1 DEF Doomed
<1> QED BY <1>1, <1>2, <1>3 DEF CellBacked, Hit

LEMMA DrainKeeps ==
  ASSUME NEW cell \in Cell(Values), cell.buf # <<>>, NEW new \in DrainOutcomes(cell), NEW S
  PROVE  /\ CellTried(cell, S) => CellTried(new, S)
         /\ CellBacked(cell, S) => CellBacked(new, S)
<1> DEFINE buf == cell.buf
<1>1. buf \in Seq(Values \cup {Delete}) /\ Absent \notin Values /\ Delete \notin Values
  BY KVAssumption DEF Cell, KVAssumption
<1>2. /\ new.buf = Tail(buf)
      /\ new.val \in {cell.val, Absent, Head(buf)}
      /\ Head(buf) = Delete => new.val = Absent
  BY <1>1, DrainedCell
<1>3. 1 \in DOMAIN buf /\ Head(buf) = buf[1]
  BY <1>1
<1>4. \A i \in DOMAIN Tail(buf) : i \in Nat /\ i + 1 \in DOMAIN buf /\ Tail(buf)[i] = buf[i + 1]
  BY <1>1
<1>5. CellTried(cell, S) => CellTried(new, S)
  BY <1>2, <1>3, <1>4 DEF CellTried
<1>6. ASSUME NEW i \in Nat, Doomed(buf, i + 1)
      PROVE  Doomed(Tail(buf), i)
  <2>1. PICK j \in DOMAIN buf : j > i + 1 /\ buf[j] = Delete
    BY <1>6 DEF Doomed
  <2>2. j - 1 \in DOMAIN Tail(buf) /\ Tail(buf)[j - 1] = Delete /\ j - 1 > i
    BY <1>1, <2>1
  <2> QED BY <2>2 DEF Doomed
<1>7. ASSUME CellBacked(cell, S), Hit(new)
      PROVE  new.val \in S \/ Doomed(new.buf, 0)
  <2>1. Head(buf) # Delete
    BY <1>2, <1>7 DEF Hit
  <2>2. CASE new.val = cell.val
    <3>1. ASSUME Doomed(buf, 0) PROVE Doomed(buf, 0 + 1)
      <4>1. PICK j \in DOMAIN buf : j > 0 /\ buf[j] = Delete
        BY <3>1 DEF Doomed
      <4>2. j # 1 /\ j \in Nat
        BY <1>1, <1>3, <2>1, <4>1
      <4> QED BY <4>1, <4>2 DEF Doomed
    <3> QED BY <1>2, <1>6, <1>7, <2>2, <3>1 DEF CellBacked, Hit
  <2>3. CASE new.val = Head(buf)
    <3>1. buf[1] \in S \/ Doomed(buf, 0 + 1)
      BY <1>3, <1>7, <2>1 DEF CellBacked
    <3> QED BY <1>2, <1>3, <1>6, <2>3, <3>1
  <2> QED BY <1>2, <1>7, <2>2, <2>3 DEF Hit
<1>8. ASSUME CellBacked(cell, S), NEW i \in DOMAIN new.buf, new.buf[i] # Delete
      PROVE  new.buf[i] \in S \/ Doomed(new.buf, i)
  <2>1. i \in Nat /\ i + 1 \in DOMAIN buf /\ new.buf[i] = buf[i + 1]
    BY <1>2, <1>4, <1>8
  <2> QED BY <1>2, <1>6, <1>8, <2>1 DEF CellBacked
<1> QED BY <1>5, <1>7, <1>8 DEF CellBacked

LEMMA EvictKeeps ==
  ASSUME NEW cell \in Cell(Values), NEW S
  PROVE  /\ CellTried(cell, S) => CellTried(Evicted(cell), S)
         /\ CellBacked(cell, S) => CellBacked(Evicted(cell), S)
<1>1. Evicted(cell).val = Absent /\ Evicted(cell).buf = cell.buf
  BY DEF Evicted, Cell
<1> QED BY <1>1 DEF CellTried, CellBacked, Hit

-----------------------------------------------------------------------------
(* A value stays backed as long as no save of it ends without the row      *)
(* having had it.                                                          *)
LEMMA BackingKept ==
  ASSUME KVTypes, NEW k \in Keys, held[k] \subseteq held'[k],
         \A c \in Callers :
           call[c].pc \in {"save", "undo"} /\ call[c].key = k =>
             \/ call[c].val \in held'[k]
             \/ /\ call'[c].pc \in {"save", "undo"}
                /\ call'[c].key = k /\ call'[c].val = call[c].val
  PROVE  Backing(k) \subseteq Backing(k)'
BY DEF Backing, Backed

(* A step that only starts a call that is no KVSet, or ends one that has   *)
(* nothing to save, changes nothing that is stated about calls.            *)
Harmless(c) ==
  /\ call[c].pc \notin {"save", "undo"}
  /\ call'[c].pc \notin {"save", "undo"}
  /\ call'[c].pc = "fill" => call'[c].val \in held[call'[c].key]
  /\ \A d \in Callers \ {c} : call'[d] = call[d]
  /\ UNCHANGED history

LEMMA HarmlessKeeps ==
  ASSUME KVInv, NEW c \in Callers, Harmless(c)
  PROVE  /\ FillsHeld' /\ CallsTried' /\ HeldTried'
         /\ \A k \in Keys : Backing(k) \subseteq Backing(k)'
<1>1. \A k \in Keys : Backing(k) \subseteq Backing(k)'
  BY BackingKept DEF KVInv, Harmless, history
<1>2. FillsHeld'
  <2> SUFFICES ASSUME NEW d \in Callers, call'[d].pc = "fill"
               PROVE  call'[d].val \in held'[call'[d].key]
    BY DEF FillsHeld
  <2> QED BY DEF Harmless, KVInv, FillsHeld, history
<1>3. CallsTried'
  <2> SUFFICES ASSUME NEW d \in Callers, call'[d].pc \in {"save", "undo"}
               PROVE  call'[d].val \in tried'[call'[d].key]
    BY DEF CallsTried
  <2> QED BY DEF Harmless, KVInv, CallsTried, history
<1>4. HeldTried'
  BY DEF Harmless, KVInv, HeldTried, history
<1> QED BY <1>1, <1>2, <1>3, <1>4

(* The cells after a step that changes one of them, or none.               *)
LEMMA CellsKept ==
  ASSUME KVInv, NEW k \in Keys, NEW cell,
         cache' = [cache EXCEPT ![k] = cell],
         CellTried(cell, tried'[k]), CellBacked(cell, Backing(k)'),
         \A n \in Keys \ {k} : Backing(n) \subseteq Backing(n)' /\ tried[n] \subseteq tried'[n]
  PROVE  CacheTried' /\ CacheBacked'
<1>1. cache \in [Keys -> Cell(Values)]
  BY DEF KVInv, KVTypes, TypeOK
<1>2. ASSUME NEW n \in Keys
      PROVE  CellTried(cache'[n], tried'[n]) /\ CellBacked(cache'[n], Backing(n)')
  <2>1. CASE n = k
    BY <1>1, <2>1
  <2>2. CASE n # k
    <3>1. cache'[n] = cache[n] /\ cache[n] \in Cell(Values)
      BY <1>1, <2>2
    <3>2. CellTried(cache[n], tried[n]) /\ CellBacked(cache[n], Backing(n))
      BY DEF KVInv, CacheTried, CacheBacked
    <3>3. Backing(n) \subseteq Backing(n)' /\ tried[n] \subseteq tried'[n]
      BY <2>2
    <3> HIDE DEF Backing
    <3> QED BY <3>1, <3>2, <3>3, MoreBacked
  <2> QED BY <2>1, <2>2
<1> QED BY <1>2 DEF CacheTried, CacheBacked

LEMMA SameCellsKept ==
  ASSUME KVInv, UNCHANGED cache,
         \A n \in Keys : Backing(n) \subseteq Backing(n)' /\ tried[n] \subseteq tried'[n]
  PROVE  CacheTried' /\ CacheBacked'
<1>1. ASSUME NEW n \in Keys
      PROVE  CellTried(cache'[n], tried'[n]) /\ CellBacked(cache'[n], Backing(n)')
  <2>1. cache'[n] = cache[n] /\ cache[n] \in Cell(Values)
    BY DEF KVInv, KVTypes, TypeOK
  <2>2. CellTried(cache[n], tried[n]) /\ CellBacked(cache[n], Backing(n))
    BY DEF KVInv, CacheTried, CacheBacked
  <2> QED BY <2>1, <2>2, MoreBacked
<1> QED BY <1>1 DEF CacheTried, CacheBacked

-----------------------------------------------------------------------------
(* Every step keeps the invariant.                                         *)
LEMMA InvStarts == Init => KVInv
<1> SUFFICES ASSUME Init PROVE KVInv
  OBVIOUS
<1>1. FillsHeld /\ CallsTried /\ RowsHeld /\ HeldTried
  BY DEF Init, FillsHeld, CallsTried, RowsHeld, HeldTried
<1>2. CacheTried /\ CacheBacked
  BY DEF Init, CacheTried, CacheBacked, CellTried, CellBacked, EmptyCell, Hit
<1> QED BY <1>1, <1>2, TypesStart DEF KVInv

LEMMA SetInv ==
  ASSUME KVInv, KVTypes', NEW c \in Callers, NEW k \in Keys, NEW v \in Values, KVSet(c, k, v)
  PROVE  KVInv'
<1>1. /\ kv' = kv /\ held' = held
      /\ tried'[k] = tried[k] \cup {v} /\ \A n \in Keys \ {k} : tried'[n] = tried[n]
      /\ call[c].pc = "idle" /\ call'[c] = [pc |-> "save", key |-> k, val |-> v]
      /\ \A d \in Callers \ {c} : call'[d] = call[d]
  BY DEF KVSet, Start, KVInv, KVTypes, TypeOK
<1>2. \A n \in Keys : Backing(n) \subseteq Backing(n)'
  <2> TAKE n \in Keys
  <2> QED BY <1>1, BackingKept DEF KVInv
<1>3. v \in Backing(k)'
  BY <1>1 DEF Backing, Backed
<1>4. FillsHeld'
  BY <1>1 DEF FillsHeld, KVInv
<1>5. CallsTried'
  <2> SUFFICES ASSUME NEW d \in Callers, call'[d].pc \in {"save", "undo"}
               PROVE  call'[d].val \in tried'[call'[d].key]
    BY DEF CallsTried
  <2>1. CASE d = c
    BY <1>1, <2>1
  <2>2. CASE d # c
    <3>1. call[d].pc \in {"save", "undo"} /\ call[d].val \in tried[call[d].key] /\ call[d].key \in Keys
      BY <1>1, <2>2, CallHasKey DEF KVInv, KVTypes, CallsTried
    <3> QED BY <1>1, <2>2, <3>1
  <2> QED BY <2>1, <2>2
<1>6. RowsHeld' /\ HeldTried'
  BY <1>1 DEF RowsHeld, HeldTried, KVInv
<1>7. PICK cell \in SetOutcomes(cache[k], v, PendingLimit) : cache' = [cache EXCEPT ![k] = cell]
  BY DEF KVSet, Put
<1>8. cache[k] \in Cell(Values) /\ PendingLimit \in Nat
  BY KVAssumption DEF KVInv, KVTypes, TypeOK, KVAssumption
<1>9. CellTried(cell, tried'[k])
  <2>1. CellTried(cache[k], tried'[k])
    BY <1>1, <1>8, MoreBacked DEF KVInv, CacheTried
  <2>2. v \in tried'[k]
    BY <1>1
  <2> QED BY <1>7, <1>8, <2>1, <2>2, SetKeeps
<1>10. CellBacked(cell, Backing(k)')
  <2>1. CellBacked(cache[k], Backing(k)')
    BY <1>2, <1>8, MoreBacked DEF KVInv, CacheBacked
  <2> QED BY <1>3, <1>7, <1>8, <2>1, SetKeeps
<1>11. CacheTried' /\ CacheBacked'
  BY <1>1, <1>2, <1>7, <1>9, <1>10, CellsKept
<1> QED BY <1>4, <1>5, <1>6, <1>11 DEF KVInv

LEMMA SaveInv ==
  ASSUME KVInv, KVTypes', NEW c \in Callers, Save(c)
  PROVE  KVInv'
<1> DEFINE k == call[c].key
           v == call[c].val
<1>1. /\ call[c].pc = "save" /\ k \in Keys /\ v \in Values /\ v \in tried[k]
      /\ cache' = cache /\ tried' = tried
      /\ call[c] \in [pc : {"save", "undo", "delete", "query", "fill"},
                      key : Keys, val : Values \cup {None}]
  BY CallHasKey DEF Save, KVInv, KVTypes, CallValues, CallsTried
<1>2. \A d \in Callers \ {c} : call'[d] = call[d]
  BY DEF Save, KVInv, KVTypes, TypeOK
<1>3. CASE /\ kv' = [kv EXCEPT ![k] = v] /\ held' = [held EXCEPT ![k] = @ \cup {v}]
           /\ call' = [call EXCEPT ![c] = Idle]
  <2>1. /\ held'[k] = held[k] \cup {v} /\ \A n \in Keys \ {k} : held'[n] = held[n]
        /\ kv'[k] = v /\ \A n \in Keys \ {k} : kv'[n] = kv[n]
        /\ call'[c] = Idle
    BY <1>1, <1>3 DEF KVInv, KVTypes, TypeOK
  <2>2. ASSUME NEW n \in Keys
        PROVE  held[n] \subseteq held'[n] /\ Backing(n) \subseteq Backing(n)'
    BY <1>1, <1>2, <2>1, BackingKept DEF KVInv
  <2>3. FillsHeld'
    <3> SUFFICES ASSUME NEW d \in Callers, call'[d].pc = "fill"
                 PROVE  call'[d].val \in held'[call'[d].key]
      BY DEF FillsHeld
    <3>1. call'[d] = call[d] /\ call[d].key \in Keys /\ call[d].val \in held[call[d].key]
      BY <1>2, <2>1, CallHasKey DEF KVInv, KVTypes, FillsHeld
    <3> QED BY <2>2, <3>1
  <2>4. CallsTried'
    BY <1>1, <1>2, <2>1 DEF CallsTried, KVInv
  <2>5. RowsHeld' /\ HeldTried'
    BY <1>1, <2>1 DEF RowsHeld, HeldTried, KVInv
  <2>6. CacheTried' /\ CacheBacked'
    BY <1>1, <2>2, SameCellsKept
  <2> QED BY <2>3, <2>4, <2>5, <2>6 DEF KVInv
<1>4. CASE call' = [call EXCEPT ![c].pc = "undo"] /\ UNCHANGED <<kv, held>>
  <2>1. call'[c].pc = "undo" /\ call'[c].key = k /\ call'[c].val = v
    BY <1>1, <1>4 DEF KVInv, KVTypes, TypeOK
  <2>2. \A n \in Keys : Backing(n) \subseteq Backing(n)'
    BY <1>2, <1>4, <2>1, BackingKept DEF KVInv
  <2>3. FillsHeld' /\ CallsTried' /\ RowsHeld' /\ HeldTried'
    BY <1>1, <1>2, <1>4, <2>1 DEF FillsHeld, CallsTried, RowsHeld, HeldTried, KVInv
  <2>4. CacheTried' /\ CacheBacked'
    BY <1>1, <2>2, SameCellsKept
  <2> QED BY <2>3, <2>4 DEF KVInv
<1> QED BY <1>3, <1>4 DEF Save

LEMMA UndoInv ==
  ASSUME KVInv, KVTypes', NEW c \in Callers, UndoSave(c)
  PROVE  KVInv'
<1>0. PICK k \in Keys : k = call[c].key
  BY CallHasKey DEF UndoSave, KVInv, KVTypes
<1>1. /\ call[c].pc = "undo" /\ cache[k] \in Cell(Values)
      /\ cache' = [cache EXCEPT ![k] = Deleted(@)] /\ kv' = kv
      /\ tried' = tried /\ held' = held
      /\ call'[c] = Idle /\ \A d \in Callers \ {c} : call'[d] = call[d]
  BY <1>0 DEF UndoSave, Del, KVInv, KVTypes, TypeOK
<1>2. FillsHeld' /\ CallsTried' /\ RowsHeld' /\ HeldTried'
  BY <1>1 DEF FillsHeld, CallsTried, RowsHeld, HeldTried, KVInv
<1>3. ASSUME NEW n \in Keys \ {k}
      PROVE  Backing(n) \subseteq Backing(n)'
  BY <1>0, <1>1, <1>3, BackingKept DEF KVInv
<1>4. CellTried(Deleted(cache[k]), tried'[k]) /\ CellBacked(Deleted(cache[k]), Backing(k)')
  BY <1>1, DelKeeps DEF KVInv, CacheTried
<1>5. cache' = [cache EXCEPT ![k] = Deleted(cache[k])]
  BY <1>1
<1>6. CacheTried' /\ CacheBacked'
  BY <1>1, <1>3, <1>4, <1>5, CellsKept
<1> QED BY <1>2, <1>6 DEF KVInv

LEMMA DeleteInv ==
  ASSUME KVInv, KVTypes', NEW c \in Callers, NEW k \in Keys, KVDelete(c, k)
  PROVE  KVInv'
<1>1. Harmless(c) /\ cache' = [cache EXCEPT ![k] = Deleted(cache[k])] /\ kv' = kv
  BY DEF KVDelete, Del, Start, Harmless, KVInv, KVTypes, TypeOK
<1>2. cache[k] \in Cell(Values) /\ tried' = tried /\ held' = held
  BY <1>1 DEF Harmless, KVInv, KVTypes, TypeOK
<1>3. CellTried(Deleted(cache[k]), tried'[k]) /\ CellBacked(Deleted(cache[k]), Backing(k)')
  BY <1>2, DelKeeps DEF KVInv, CacheTried
<1>4. CacheTried' /\ CacheBacked'
  BY <1>1, <1>2, <1>3, CellsKept, HarmlessKeeps
<1>5. RowsHeld'
  BY <1>1, <1>2 DEF RowsHeld, KVInv
<1> QED BY <1>1, <1>4, <1>5, HarmlessKeeps DEF KVInv

(* Steps of a call that touch neither the cache nor what is saved.         *)
LEMMA QuietInv ==
  ASSUME KVInv, KVTypes', NEW c \in Callers, Harmless(c), UNCHANGED cache,
         \A k \in Keys : kv'[k] \in {kv[k], None}
  PROVE  KVInv'
<1>1. tried' = tried /\ held' = held
  BY DEF Harmless, history
<1>2. CacheTried' /\ CacheBacked'
  BY <1>1, SameCellsKept, HarmlessKeeps
<1>3. RowsHeld'
  BY <1>1 DEF RowsHeld, KVInv
<1> QED BY <1>2, <1>3, HarmlessKeeps DEF KVInv

LEMMA GetInv ==
  ASSUME KVInv, KVTypes', NEW c \in Callers, NEW k \in Keys, KVGet(c, k)
  PROVE  KVInv'
<1>1. Harmless(c)
  BY DEF KVGet, Start, Harmless, KVInv, KVTypes, TypeOK
<1> QED BY <1>1, QuietInv DEF KVGet

LEMMA DeleteRowInv ==
  ASSUME KVInv, KVTypes', NEW c \in Callers, DeleteRow(c)
  PROVE  KVInv'
<1>1. Harmless(c)
  BY DEF DeleteRow, Harmless, KVInv, KVTypes, TypeOK
<1>2. call[c].key \in Keys
  BY CallHasKey DEF DeleteRow, KVInv, KVTypes
<1>3. \A k \in Keys : kv'[k] \in {kv[k], None}
  BY <1>2 DEF DeleteRow, KVInv, KVTypes, TypeOK
<1> QED BY <1>1, <1>3, QuietInv DEF DeleteRow

LEMMA QueryInv ==
  ASSUME KVInv, KVTypes', NEW c \in Callers, Query(c)
  PROVE  KVInv'
<1>1. /\ call[c].key \in Keys
      /\ call[c] \in [pc : {"save", "undo", "delete", "query", "fill"},
                      key : Keys, val : Values \cup {None}]
  BY CallHasKey DEF Query, KVInv, KVTypes
<1>2. kv[call[c].key] # None => kv[call[c].key] \in held[call[c].key]
  BY <1>1 DEF KVInv, RowsHeld
<1>3. Harmless(c)
  BY <1>1, <1>2 DEF Query, Harmless, KVInv, KVTypes, TypeOK
<1> QED BY <1>3, QuietInv DEF Query

LEMMA FillInv ==
  ASSUME KVInv, KVTypes', NEW c \in Callers, Fill(c)
  PROVE  KVInv'
<1>0. PICK k \in Keys, v \in Values : k = call[c].key /\ v = call[c].val
  BY CallHasKey DEF Fill, KVInv, KVTypes, CallValues
<1>1. /\ v \in held[k] /\ v \in tried[k]
      /\ cache[k] \in Cell(Values) /\ PendingLimit \in Nat
  BY <1>0, KVAssumption
     DEF Fill, KVInv, KVTypes, FillsHeld, HeldTried, TypeOK, KVAssumption
<1>2. Harmless(c) /\ kv' = kv /\ tried' = tried /\ held' = held
  BY DEF Fill, Harmless, KVInv, KVTypes, TypeOK
<1>3. PICK cell \in SetOutcomes(cache[k], v, PendingLimit) : cache' = [cache EXCEPT ![k] = cell]
  BY <1>0 DEF Fill, Put
<1>4. CellTried(cell, tried'[k])
  BY <1>1, <1>2, <1>3, SetKeeps DEF KVInv, CacheTried
<1>5. v \in Backing(k)'
  BY <1>1, <1>2 DEF Backing, Backed
<1>6. CellBacked(cell, Backing(k)')
  <2>1. CellBacked(cache[k], Backing(k)')
    BY <1>1, <1>2, MoreBacked, HarmlessKeeps DEF KVInv, CacheBacked
  <2> QED BY <1>1, <1>3, <1>5, <2>1, SetKeeps
<1>7. CacheTried' /\ CacheBacked'
  BY <1>1, <1>2, <1>3, <1>4, <1>6, CellsKept, HarmlessKeeps
<1>8. RowsHeld'
  BY <1>2 DEF RowsHeld, KVInv
<1> QED BY <1>2, <1>7, <1>8, HarmlessKeeps DEF KVInv

(* The cache's own steps.                                                  *)
LEMMA OwnStepInv ==
  ASSUME KVInv, KVTypes', NEW k \in Keys, NEW cell,
         cache' = [cache EXCEPT ![k] = cell], UNCHANGED <<kv, call, got, history>>,
         \A S : /\ CellTried(cache[k], S) => CellTried(cell, S)
                /\ CellBacked(cache[k], S) => CellBacked(cell, S)
  PROVE  KVInv'
<1>1. tried' = tried /\ held' = held
  BY DEF history
<1>2. \A n \in Keys : Backing(n)' = Backing(n)
  BY <1>1 DEF Backing, Backed
<1>3. CellTried(cell, tried'[k]) /\ CellBacked(cell, Backing(k)')
  BY <1>1, <1>2 DEF KVInv, CacheTried, CacheBacked
<1>4. CacheTried' /\ CacheBacked'
  BY <1>1, <1>2, <1>3, CellsKept
<1>5. FillsHeld' /\ CallsTried' /\ RowsHeld' /\ HeldTried'
  BY <1>1 DEF FillsHeld, CallsTried, RowsHeld, HeldTried, KVInv
<1> QED BY <1>4, <1>5 DEF KVInv

LEMMA DrainInv ==
  ASSUME KVInv, KVTypes', NEW k \in Keys, Drain(k)
  PROVE  KVInv'
<1>1. PICK cell \in DrainOutcomes(cache[k]) : cache' = [cache EXCEPT ![k] = cell]
  BY DEF Drain
<1>2. cache[k] \in Cell(Values) /\ cache[k].buf # <<>>
  BY DEF Drain, KVInv, KVTypes, TypeOK
<1>3. \A S : /\ CellTried(cache[k], S) => CellTried(cell, S)
             /\ CellBacked(cache[k], S) => CellBacked(cell, S)
  BY <1>1, <1>2, DrainKeeps
<1> QED BY <1>1, <1>3, OwnStepInv DEF Drain

LEMMA EvictInv ==
  ASSUME KVInv, KVTypes', NEW k \in Keys, Evict(k)
  PROVE  KVInv'
<1>1. cache[k] \in Cell(Values) /\ cache' = [cache EXCEPT ![k] = Evicted(cache[k])]
  BY DEF Evict, KVInv, KVTypes, TypeOK
<1>2. \A S : /\ CellTried(cache[k], S) => CellTried(Evicted(cache[k]), S)
             /\ CellBacked(cache[k], S) => CellBacked(Evicted(cache[k]), S)
  BY <1>1, EvictKeeps
<1> QED BY <1>1, <1>2, OwnStepInv DEF Evict

LEMMA InvKept == KVInv /\ [Next]_vars => KVInv'
<1> SUFFICES ASSUME KVInv, [Next]_vars PROVE KVInv'
  OBVIOUS
<1>1. KVTypes'
  BY TypesKept DEF KVInv
<1>2. CASE \E c \in Callers, k \in Keys :
             \/ \E v \in Values : KVSet(c, k, v)
             \/ KVDelete(c, k) \/ KVGet(c, k)
  BY <1>1, <1>2, SetInv, DeleteInv, GetInv
<1>3. CASE \E c \in Callers : Continue(c)
  BY <1>1, <1>3, SaveInv, UndoInv, DeleteRowInv, QueryInv, FillInv DEF Continue
<1>4. CASE \E k \in Keys : Drain(k) \/ Evict(k)
  BY <1>1, <1>4, DrainInv, EvictInv
<1>5. CASE UNCHANGED vars
  <2>1. \A n \in Keys : Backing(n)' = Backing(n)
    BY <1>5 DEF vars, Backing, Backed
  <2> QED BY <1>1, <1>5, <2>1
          DEF vars, KVInv, FillsHeld, CallsTried, RowsHeld, HeldTried, CacheTried, CacheBacked
<1> QED BY <1>2, <1>3, <1>4, <1>5 DEF Next

(* What the cache holds was in the table, or is being saved, or is going   *)
(* away: for any callers at once and a buffer of any length.               *)
THEOREM CacheHoldsStored == Spec => []CachedWasStored
<1>1. KVInv => CachedWasStored
  <2> SUFFICES ASSUME KVInv, NEW k \in Keys
               PROVE  /\ Hit(cache[k]) => Backed(k, cache[k].val) \/ Doomed(cache[k].buf, 0)
                      /\ \A i \in DOMAIN cache[k].buf :
                           cache[k].buf[i] # Delete =>
                             Backed(k, cache[k].buf[i]) \/ Doomed(cache[k].buf, i)
    BY DEF CachedWasStored
  <2>1. CellBacked(cache[k], Backing(k))
    BY DEF KVInv, CacheBacked
  <2> QED BY <2>1 DEF CellBacked, Backing
<1> QED BY <1>1, InvStarts, InvKept, PTL DEF Spec

(* Every step of the store is a step of the map, or none, whatever calls   *)
(* overlap and whatever the cache drops or delays.                         *)
THEOREM StoreIsAMap == Spec => ImplementsMap
<1>1. Init => Map!Init
  BY DEF Init, Map!Init
<1>2. KVInv /\ [Next]_vars => [Map!Next]_(Map!vars)
  <2> SUFFICES ASSUME KVInv, [Next]_vars
               PROVE  Map!Next \/ UNCHANGED <<kv, tried, got>>
    BY DEF Map!vars
  <2>1. ASSUME NEW c \in Callers, NEW k \in Keys, NEW v \in Values, KVSet(c, k, v)
        PROVE  Map!Next
    BY <2>1 DEF KVSet, Map!Next, Map!Try
  <2>2. ASSUME NEW c \in Callers, Save(c)
        PROVE  Map!Next \/ UNCHANGED <<kv, tried, got>>
    <3>1. /\ call[c].key \in Keys /\ call[c].val \in Values
          /\ call[c].val \in tried[call[c].key]
      BY <2>2, CallHasKey DEF Save, KVInv, KVTypes, CallValues, CallsTried
    <3> QED BY <2>2, <3>1 DEF Save, Map!Next, Map!Set
  <2>3. ASSUME NEW c \in Callers, DeleteRow(c)
        PROVE  Map!Next \/ UNCHANGED <<kv, tried, got>>
    <3>1. call[c].key \in Keys
      BY <2>3, CallHasKey DEF DeleteRow, KVInv, KVTypes
    <3> QED BY <2>3, <3>1 DEF DeleteRow, Map!Next, Map!Remove
  <2>4. ASSUME NEW c \in Callers, NEW k \in Keys, KVGet(c, k)
        PROVE  Map!Next \/ UNCHANGED <<kv, tried, got>>
    <3>1. CASE Hit(cache[k]) /\ got' = [key |-> k, val |-> cache[k].val]
      <4>1. cache[k].val \in tried[k] /\ cache[k].val \in Values
        BY <3>1 DEF KVInv, KVTypes, TypeOK, CacheTried, CellTried, Hit
      <4> QED BY <2>4, <3>1, <4>1 DEF KVGet, Map!Next, Map!Find
    <3> QED BY <2>4, <3>1 DEF KVGet
  <2>5. ASSUME NEW c \in Callers, Query(c)
        PROVE  Map!Next \/ UNCHANGED <<kv, tried, got>>
    <3>1. call[c].key \in Keys
      BY <2>5, CallHasKey DEF Query, KVInv, KVTypes
    <3> QED BY <2>5, <3>1 DEF Query, Map!Next, Map!FindNone
  <2>6. ASSUME NEW c \in Callers, Fill(c)
        PROVE  Map!Next
    <3>1. /\ call[c].key \in Keys /\ call[c].val \in Values
          /\ call[c].val \in tried[call[c].key]
      BY <2>6, CallHasKey DEF Fill, KVInv, KVTypes, CallValues, FillsHeld, HeldTried
    <3> QED BY <2>6, <3>1 DEF Fill, Map!Next, Map!Find
  <2>7. CASE \E c \in Callers, k \in Keys : KVDelete(c, k)
    BY <2>7 DEF KVDelete
  <2>8. CASE \E c \in Callers : UndoSave(c)
    BY <2>8 DEF UndoSave
  <2>9. CASE \E k \in Keys : Drain(k) \/ Evict(k)
    BY <2>9 DEF Drain, Evict
  <2>10. CASE UNCHANGED vars
    BY <2>10 DEF vars
  <2> QED BY <2>1, <2>2, <2>3, <2>4, <2>5, <2>6, <2>7, <2>8, <2>9, <2>10 DEF Next, Continue
<1> QED BY <1>1, <1>2, InvStarts, InvKept, PTL DEF Spec, ImplementsMap, Map!Spec
=============================================================================
