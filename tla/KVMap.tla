------------------------------- MODULE KVMap -------------------------------
(***************************************************************************)
(* What the key-value store of storage.Storage promises: a map, with gets  *)
(* that may answer late.  Setting has two steps, the attempt and the map's *)
(* own change, and may stop after the first; deleting happens at once.  A  *)
(* get never makes a value up, and never misses a value that is there.     *)
(***************************************************************************)
CONSTANTS Keys, Values, None

VARIABLES
  map,     \* the value of every key, None for no value
  tried,   \* the values somebody has tried to set, for every key
  got      \* the answer of the last get: the key and its value

vars == <<map, tried, got>>

Init ==
  /\ map = [k \in Keys |-> None]
  /\ tried = [k \in Keys |-> {}]
  /\ got \in [key : Keys, val : {None}]

Try(k, v) == tried' = [tried EXCEPT ![k] = @ \cup {v}] /\ UNCHANGED <<map, got>>

Set(k, v) ==
  /\ v \in tried[k]
  /\ map' = [map EXCEPT ![k] = v]
  /\ UNCHANGED <<tried, got>>

Remove(k) == map' = [map EXCEPT ![k] = None] /\ UNCHANGED <<tried, got>>

(* A get answers a value of the key, maybe an old one or one not yet set.  *)
Find(k, v) ==
  /\ v \in tried[k]
  /\ got' = [key |-> k, val |-> v]
  /\ UNCHANGED <<map, tried>>

(* Only of a key without a value does it answer that there is none.        *)
FindNone(k) ==
  /\ map[k] = None
  /\ got' = [key |-> k, val |-> None]
  /\ UNCHANGED <<map, tried>>

Next ==
  \E k \in Keys :
    \/ \E v \in Values : Try(k, v) \/ Set(k, v) \/ Find(k, v)
    \/ Remove(k)
    \/ FindNone(k)

Spec == Init /\ [][Next]_vars
=============================================================================
