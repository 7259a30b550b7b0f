------------------------------ MODULE Ristretto ------------------------------
(***************************************************************************)
(* The in-process cache behind storage.Storage, a ristretto.Cache: a       *)
(* third-party library, modelled from the calls storage.go makes of it     *)
(* (Get, Set, Del, Clear) and from its documented contract.  A key is one  *)
(* cell, and cells of different keys do not interact except by eviction    *)
(* and by the shared write buffer filling up, both of which are choices    *)
(* here.                                                                   *)
(*                                                                         *)
(* Set of a key the cache holds replaces the value at once.  Set of any    *)
(* other key only hands the value to a background goroutine through a      *)
(* buffer: it may be dropped when the buffer is full, it becomes visible   *)
(* when the goroutine takes it, and the admission policy may refuse it (it *)
(* always does when the key has meanwhile got a value).  Del removes the   *)
(* value at once and also queues a removal behind the values still         *)
(* buffered.                                                               *)
(***************************************************************************)
EXTENDS Naturals, Sequences

(* No value is held for the key, and the queued removal of the key.        *)
Absent == "absent"
Delete == "delete"

(* A key's cell: the value Get returns and the operations the background   *)
(* goroutine has still to take for the key, in order.                      *)
Cell(Values) == [val : Values \cup {Absent}, buf : Seq(Values \cup {Delete})]

EmptyCell == [val |-> Absent, buf |-> <<>>]

Hit(cell) == cell.val # Absent

(* The cells Set(key, v) can leave; limit is the capacity of the buffer.   *)
SetOutcomes(cell, v, limit) ==
  IF Hit(cell) THEN {[cell EXCEPT !.val = v]}
  ELSE IF Len(cell.buf) < limit
       THEN {cell, [cell EXCEPT !.buf = Append(cell.buf, v)]}
       ELSE {cell}

(* Del(key) waits while the buffer is full, the only call that blocks.     *)
CanDelete(cell, limit) == Len(cell.buf) < limit

Deleted(cell) == [val |-> Absent, buf |-> Append(cell.buf, Delete)]

(* The cells the background goroutine can leave by taking the oldest       *)
(* buffered operation of the key.                                          *)
DrainOutcomes(cell) ==
  LET rest == [cell EXCEPT !.buf = Tail(cell.buf)]
      head == Head(cell.buf)
  IN  IF head = Delete THEN {[rest EXCEPT !.val = Absent]}
      ELSE IF Hit(cell) THEN {rest}
      ELSE {rest, [rest EXCEPT !.val = head]}

Evicted(cell) == [cell EXCEPT !.val = Absent]
=============================================================================
