------------------------------ MODULE Dictionary ------------------------------
(***************************************************************************)
(* What an IndexTable promises (Table.h): at most one value for each key,  *)
(* inserted, looked up and removed by key.  reply says whether the last    *)
(* call found what it looked for, and the value.                           *)
(***************************************************************************)
CONSTANTS Key, Value, Absent

VARIABLES map, reply

vars == <<map, reply>>

Answer(ok, v) == [ok |-> ok, value |-> v]

Init == map = [k \in Key |-> Absent] /\ reply = Answer(TRUE, Absent)

(* A key that is present keeps its value. *)
Insert(k, v) ==
  /\ map' = IF map[k] = Absent THEN [map EXCEPT ![k] = v] ELSE map
  /\ reply' = Answer(map[k] = Absent, Absent)

Remove(k) ==
  /\ map' = [map EXCEPT ![k] = Absent]
  /\ reply' = Answer(map[k] # Absent, Absent)

Query(k) == reply' = Answer(map[k] # Absent, map[k]) /\ UNCHANGED map

Next == \E k \in Key : Remove(k) \/ Query(k) \/ \E v \in Value : Insert(k, v)

Spec == Init /\ [][Next]_vars
==============================================================================
