----------------------------- MODULE PriorityQueue -----------------------------
(***************************************************************************)
(* priority_queue.h: a binary heap, least key first.  A heap is the        *)
(* sequence of its entries (content from place 1 on; size is Len + 1); an  *)
(* entry is a record and the number of a run, 0 while runs are made.       *)
(***************************************************************************)
EXTENDS IndexPart

Entry(r, run) == [row |-> r, run |-> run]

(* Whether entry i of the heap comes after entry j. *)
Larger(h, part, i, j) == Before(GetIndex(h[j].row, part), GetIndex(h[i].row, part))

Swapped(h, i, j) == [h EXCEPT ![i] = h[j], ![j] = h[i]]

Slots(words) == HEAP_WORDS \div words

(* Slip: place 0 is taken for a place. *)
FullByCount(h, words) == Len(h) >= Slots(words)

(* Full(): the places in content, place 0 being unused, are all taken. *)
Full(h, words) == Len(h) + 1 >= Slots(words)

RECURSIVE UpAdjust(_, _, _)
UpAdjust(h, part, i) ==
  IF i = 1 \/ ~Larger(h, part, i \div 2, i) THEN h
  ELSE UpAdjust(Swapped(h, i \div 2, i), part, i \div 2)

Push(h, part, e) == UpAdjust(Append(h, e), part, Len(h) + 1)

(* Slip: the larger child is taken. *)
ChildOfLarger(h, part, i) ==
  IF 2 * i + 1 <= Len(h) /\ Larger(h, part, 2 * i + 1, 2 * i) THEN 2 * i + 1 ELSE 2 * i

(* The child that DownAdjust looks at: the lesser, the right one of equals. *)
Child(h, part, i) ==
  IF 2 * i + 1 <= Len(h) /\ ~Larger(h, part, 2 * i + 1, 2 * i) THEN 2 * i + 1 ELSE 2 * i

RECURSIVE DownAdjust(_, _, _)
DownAdjust(h, part, i) ==
  LET x == Child(h, part, i)
  IN IF 2 * i > Len(h) \/ ~Larger(h, part, i, x) THEN h
     ELSE DownAdjust(Swapped(h, i, x), part, x)

(* Pop() gives back the first entry; what is left: the last takes its place. *)
Popped(h, part) ==
  IF Len(h) = 1 THEN <<>>
  ELSE DownAdjust(Seqs!Front([h EXCEPT ![1] = Seqs!Last(h)]), part, 1)

(* The order the heap keeps. *)
HeapOrdered(h, part) == \A i \in 2 .. Len(h) : ~Larger(h, part, i \div 2, i)
==============================================================================
