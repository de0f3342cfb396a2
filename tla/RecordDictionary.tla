--------------------------- MODULE RecordDictionary ----------------------------
(***************************************************************************)
(* What a table with index promises (WithIndexTable.h, "a dictionary"): at *)
(* most one record for each key, found by the key.                         *)
(*   contents  [Key -> Value \cup {Nothing}]                               *)
(*   reply     what the last call gave back                                *)
(*   broken    a record went to a page the file system may give away       *)
(***************************************************************************)
EXTENDS Integers, Sequences

CONSTANTS Key, Value, Nothing, Done, Exists, Ascending

VARIABLES contents, reply, broken

vars == <<contents, reply, broken>>

Init == contents = [k \in Key |-> Nothing] /\ reply = Done /\ broken = FALSE

Put(k, v) == contents' = [contents EXCEPT ![k] = v]

(* A second record for a key is refused, but it may be the first that is   *)
(* given up for it.                                                        *)
Insert(k, v) ==
  \/ contents[k] = Nothing /\ Put(k, v) /\ reply' = Done
  \/ contents[k] # Nothing /\ (Put(k, v) \/ UNCHANGED contents) /\ reply' = Exists

Update(k, v) ==
  /\ IF contents[k] = Nothing THEN UNCHANGED contents ELSE Put(k, v)
  /\ reply' = Done

Remove(k) == Put(k, Nothing) /\ reply' = Done

Query(k) == reply' = contents[k] /\ UNCHANGED contents

(* The keys of K, in their order. *)
KeysIn(K) ==
  LET first[n \in 0 .. Len(Ascending)] ==
        IF n = 0 THEN <<>>
        ELSE IF Ascending[n] \in K THEN Append(first[n - 1], Ascending[n]) ELSE first[n - 1]
  IN first[Len(Ascending)]

(* The iterator: the records in the order of their keys. *)
Scan ==
  LET present == KeysIn({k \in Key : contents[k] # Nothing})
  IN /\ reply' = [i \in DOMAIN present |-> [key |-> present[i], value |-> contents[present[i]]]]
     /\ UNCHANGED contents

Next ==
  \/ /\ UNCHANGED broken
     /\ \/ \E k \in Key : \/ Query(k) \/ Remove(k)
                          \/ \E v \in Value : Insert(k, v) \/ Update(k, v)
        \/ Scan
  \/ broken'

Spec == Init /\ [][Next]_vars
==============================================================================
