--------------------------- MODULE RistrettoProofs ---------------------------
(***************************************************************************)
(* What the operations of the cache do to a cell, of whatever values.      *)
(***************************************************************************)
EXTENDS Ristretto, TLAPS

USE DEF Absent, Delete

(* Set either leaves a cell, or replaces its value, or buffers the new one.*)
LEMMA SetCell ==
  ASSUME NEW V, NEW cell \in Cell(V), NEW v \in V, NEW limit \in Nat,
         NEW new \in SetOutcomes(cell, v, limit)
  PROVE  /\ new \in Cell(V)
         /\ \/ new = cell
            \/ new.val = v /\ new.buf = cell.buf
            \/ new.val = cell.val /\ new.buf = Append(cell.buf, v)
BY DEF SetOutcomes, Cell, Hit

(* Del empties the cell at once and queues a removal.                      *)
LEMMA DeletedCell ==
  ASSUME NEW V, NEW cell \in Cell(V)
  PROVE  /\ Deleted(cell) \in Cell(V)
         /\ Deleted(cell).val = Absent
         /\ Deleted(cell).buf = Append(cell.buf, Delete)
BY DEF Deleted, Cell

(* Draining takes the buffer's head and applies or drops it.               *)
LEMMA DrainedCell ==
  ASSUME NEW V, NEW cell \in Cell(V), cell.buf # <<>>,
         Absent \notin V, Delete \notin V,
         NEW new \in DrainOutcomes(cell)
  PROVE  /\ new \in Cell(V)
         /\ new.buf = Tail(cell.buf)
         /\ new.val \in {cell.val, Absent, Head(cell.buf)}
         /\ Head(cell.buf) = Delete => new.val = Absent
         /\ Head(cell.buf) # Delete => new.val # Absent \/ cell.val = Absent
<1>1. Head(cell.buf) \in V \cup {Delete} /\ Tail(cell.buf) \in Seq(V \cup {Delete})
  BY DEF Cell
<1>2. CASE Head(cell.buf) = Delete
  BY <1>1, <1>2 DEF DrainOutcomes, Cell, Hit
<1>3. CASE Head(cell.buf) # Delete
  BY <1>1, <1>3 DEF DrainOutcomes, Cell, Hit
<1> QED BY <1>2, <1>3

(* An empty cell is a cell.                                                *)
LEMMA EmptyCellType ==
  ASSUME NEW V
  PROVE  EmptyCell \in Cell(V)
BY DEF EmptyCell, Cell

(* Eviction leaves a cell.                                                 *)
LEMMA EvictedCell ==
  ASSUME NEW V, NEW cell \in Cell(V)
  PROVE  Evicted(cell) \in Cell(V)
BY DEF Evicted, Cell
=============================================================================
