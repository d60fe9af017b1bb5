------------------------------ MODULE LossyMap ------------------------------
(***************************************************************************)
(* What the callers of app/services/cache.py rely on: a map that may       *)
(* forget any entry at any time, but that never changes one by itself and  *)
(* never answers with a value other than the last one put under that key.  *)
(* TTLCache.tla implements it; StorageService.tla uses it for the cache.   *)
(***************************************************************************)
CONSTANTS Keys, Vals, None

VARIABLES map,   \* what is remembered: [Keys -> Vals \cup {None}]
          call   \* the last call: its name, its key, the value given or returned

vars == <<map, call>>

Maps == [Keys -> Vals \cup {None}]

Called(op, k, v) == call' = [op |-> op, key |-> k, value |-> v]

\* The entries of every key but k are kept or forgotten, never changed.
OthersFade(k) == \A j \in Keys \ {k} : map'[j] \in {map[j], None}

Init ==
  /\ map = [k \in Keys |-> None]
  /\ call = [op |-> "clear", key |-> None, value |-> None]

\* What is put is remembered; making room may cost any other entry.
Put(k, v) ==
  /\ map' \in Maps
  /\ map'[k] = v
  /\ OthersFade(k)
  /\ Called("set", k, v)

\* A hit answers with what was put and forgets nothing.
Hit(k) ==
  /\ map[k] # None
  /\ UNCHANGED map
  /\ Called("get", k, map[k])

\* A get that misses, and a delete, leave nothing under the key.
Miss(k) ==
  /\ map' = [map EXCEPT ![k] = None]
  /\ Called("get", k, None)

Remove(k) ==
  /\ map' = [map EXCEPT ![k] = None]
  /\ Called("delete", k, None)

\* A call about no key in particular may forget any entries; clear(), all.
Forget(op) ==
  /\ map' \in Maps
  /\ \A j \in Keys : map'[j] \in (IF op = "clear" THEN {} ELSE {map[j]}) \cup {None}
  /\ Called(op, None, None)

Next ==
  \/ \E k \in Keys, v \in Vals : Put(k, v)
  \/ \E k \in Keys : Hit(k) \/ Miss(k) \/ Remove(k)
  \/ \E op \in {"clear", "len"} : Forget(op)

Spec == Init /\ [][Next]_vars
=============================================================================
