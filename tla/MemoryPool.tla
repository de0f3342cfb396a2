------------------------------ MODULE MemoryPool ------------------------------
(***************************************************************************)
(* The slot allocator of ds/MemoryManager.h (class Memory<T, N>) over the  *)
(* bounded stack of ds/stack.h.  A pool is a record:                       *)
(*   free      the stack of free slots, its top last        (e_s)          *)
(*   max_page  the slots 0 .. max_page-1 have been introduced              *)
(*   size      how many slots are handed out                               *)
(* The operators return the pool after a call; the modules that own a      *)
(* pool keep it in a variable of theirs.                                   *)
(***************************************************************************)
EXTENDS Integers, Sequences, FiniteSets

CONSTANT N                  \* the capacity: Memory's template argument

ASSUME NAssumption == N \in Nat \ {0}

NULL_ID == -1               \* definition.h

Slot == 0 .. N - 1

Top(s)  == s[Len(s)]
Rest(s) == SubSeq(s, 1, Len(s) - 1)

(* Stack::Push refuses silently when the stack is full. *)
Push(s, i) == IF Len(s) = N THEN s ELSE Append(s, i)

(* The constructor: slot 0 is free, the others not yet introduced. *)
NewPool == [free |-> <<0>>, max_page |-> 1, size |-> 0]

Exhausted(p) == p.free = <<>>

(* The slot Create() would return. *)
NextId(p) == IF Exhausted(p) THEN NULL_ID ELSE Top(p.free)

(* Slips that the properties are tested against: the bound is off by one;  *)
(* a slot given back is not counted.                                       *)
TakenPastEnd(p) ==
  LET grows == Rest(p.free) = <<>> /\ p.max_page <= N
  IN IF Exhausted(p) THEN p
     ELSE [free     |-> IF grows THEN <<p.max_page>> ELSE Rest(p.free),
           max_page |-> IF grows THEN p.max_page + 1 ELSE p.max_page,
           size     |-> p.size + 1]
ReleasedUncounted(p, i) ==
  [free |-> Push(p.free, i), max_page |-> p.max_page, size |-> p.size]

(* e_pop(): the slot that empties the stack introduces the next one.  The  *)
(* pool is left alone when there is nothing to pop.                        *)
Taken(p) ==
  LET grows == Rest(p.free) = <<>> /\ p.max_page < N
  IN IF Exhausted(p) THEN p
     ELSE [free     |-> IF grows THEN <<p.max_page>> ELSE Rest(p.free),
           max_page |-> IF grows THEN p.max_page + 1 ELSE p.max_page,
           size     |-> p.size + 1]

(* Remove(i) *)
Released(p, i) ==
  [free |-> Push(p.free, i), max_page |-> p.max_page, size |-> p.size - 1]

-----------------------------------------------------------------------------
FreeSlots(p) == {p.free[k] : k \in 1 .. Len(p.free)}

(* The pool p is consistent with the set U of slots its owner holds: the   *)
(* free stack lists the other introduced slots, each once, and runs dry    *)
(* only when every slot of the memory is held.                             *)
PoolOK(p, U) ==
  /\ p.free \in Seq(Slot) /\ p.max_page \in 1 .. N
  /\ \A j, k \in 1 .. Len(p.free) : j # k => p.free[j] # p.free[k]
  /\ FreeSlots(p) \cap U = {}
  /\ FreeSlots(p) \cup U = 0 .. p.max_page - 1
  /\ IsFiniteSet(U) /\ p.size = Cardinality(U)
  /\ Len(p.free) + p.size = p.max_page
  /\ Exhausted(p) => p.max_page = N
==============================================================================
