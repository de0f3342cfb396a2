------------------------------ MODULE FiniteMap -------------------------------
(***************************************************************************)
(* What the users of ds/hash_map.h rely on: a map from keys to values that *)
(* holds at most Capacity entries, changed and read by one call at a time. *)
(* reply is what the last call gave back: whether it succeeded, and the    *)
(* value it found.                                                         *)
(***************************************************************************)
EXTENDS Integers, FiniteSets

CONSTANTS Key, Value, Capacity,
          Absent              \* no value

VARIABLES map, reply

vars == <<map, reply>>

Present == {k \in Key : map[k] # Absent}

Reply(ok, v) == [ok |-> ok, value |-> v]

Init == map = [k \in Key |-> Absent] /\ reply = Reply(TRUE, Absent)

Insert(k, v) ==
  LET stored == k \notin Present /\ Cardinality(Present) < Capacity
  IN /\ map' = IF stored THEN [map EXCEPT ![k] = v] ELSE map
     /\ reply' = Reply(stored, Absent)

Find(k) == reply' = Reply(k \in Present, map[k]) /\ UNCHANGED map

Remove(k) ==
  /\ map' = [map EXCEPT ![k] = Absent]
  /\ reply' = Reply(k \in Present, Absent)

Next == \E k \in Key : Find(k) \/ Remove(k) \/ \E v \in Value : Insert(k, v)

Spec == Init /\ [][Next]_vars
==============================================================================
