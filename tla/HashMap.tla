------------------------------- MODULE HashMap --------------------------------
(***************************************************************************)
(* ds/hash_map.h: BASKET_NUM linked lists that share one node memory h of  *)
(* N entries.  Its one client, LRUBuffer::Get, calls Remove(k) only right  *)
(* after a Find(k) (LRUBuffer.h:37-38); the history variable found keeps   *)
(* that discipline.                                                        *)
(***************************************************************************)
EXTENDS DoubleLinkedList

CONSTANTS Key, Value, BASKET_NUM

ASSUME BasketAssumption == BASKET_NUM \in Nat \ {0} /\ Key \subseteq Nat

(* The values of LRUBuffer's table are memory pages, never NULL_ID. *)
ASSUME ValueAssumption == NULL_ID \notin Value

VARIABLES baskets,   \* [0 .. BASKET_NUM-1 -> [head, tail]]
          h,         \* [node, pool]: the shared memory
          found,     \* the key of the Find just made, or NULL_ID
          reply

mapVars == <<baskets, h, found, reply>>

Absent == NULL_ID
NoEntry == [key |-> NULL_ID, value |-> Absent]
Answer(ok, v) == [ok |-> ok, value |-> v]

Hash(k) == k % BASKET_NUM

(* Basket b as a list of its own, and putting it back. *)
Basket(b) == [head |-> baskets[b].head, tail |-> baskets[b].tail,
              node |-> h.node, pool |-> h.pool]
SetBasket(b, d) ==
  /\ baskets' = [baskets EXCEPT ![b] = [head |-> d.head, tail |-> d.tail]]
  /\ h' = [node |-> d.node, pool |-> d.pool]

(* The slots that the search loop, going down the chain, stops at for k. *)
Locate(k) == {s \in Reached(Basket(Hash(k))) : h.node[s].t.key = k}
SlotOf(k) == CHOOSE s \in Locate(k) : TRUE

-----------------------------------------------------------------------------
MapInit ==
  LET l == NewList(NoEntry)
  IN /\ baskets = [b \in 0 .. BASKET_NUM - 1 |-> [head |-> l.head, tail |-> l.tail]]
     /\ h = [node |-> l.node, pool |-> l.pool]
     /\ found = NULL_ID
     /\ reply = Answer(TRUE, Absent)

(* Find(k, v): a hit moves the entry to the front of its basket. *)
FindHit(k) ==
  /\ Locate(k) # {}
  /\ SetBasket(Hash(k), MoveToFront(Basket(Hash(k)), SlotOf(k)))
  /\ reply' = Answer(TRUE, h.node[SlotOf(k)].t.value)
  /\ found' = k

FindMiss(k) ==
  /\ Locate(k) = {}
  /\ reply' = Answer(FALSE, Absent)
  /\ found' = NULL_ID
  /\ UNCHANGED <<baskets, h>>

(* Slip: Insert without the look-up. *)
InsertAgain(k, v) ==
  /\ Locate(k) # {}
  /\ SetBasket(Hash(k), PushFront(Basket(Hash(k)), [key |-> k, value |-> v]))
  /\ reply' = Answer(~Exhausted(h.pool), Absent)
  /\ found' = NULL_ID

(* Insert(k, v): looks k up first, which moves it to the front when it is  *)
(* there; otherwise the result is PushFront's, false when the memory is    *)
(* full.                                                                   *)
InsertPresent(k, v) ==
  /\ Locate(k) # {}
  /\ SetBasket(Hash(k), MoveToFront(Basket(Hash(k)), SlotOf(k)))
  /\ reply' = Answer(FALSE, Absent)
  /\ found' = NULL_ID

InsertNew(k, v) ==
  /\ Locate(k) = {}
  /\ SetBasket(Hash(k), PushFront(Basket(Hash(k)), [key |-> k, value |-> v]))
  /\ reply' = Answer(~Exhausted(h.pool), Absent)
  /\ found' = NULL_ID

(* Remove(k) of the key just found. *)
RemoveFound(k) ==
  /\ found = k /\ Locate(k) # {}
  /\ SetBasket(Hash(k), Remove(Basket(Hash(k)), SlotOf(k)))
  /\ reply' = Answer(TRUE, Absent)
  /\ found' = NULL_ID

(* Remove(k) of a key that is in no basket. *)
RemoveMissing(k) ==
  /\ Locate(k) = {}
  /\ reply' = Answer(FALSE, Absent)
  /\ found' = NULL_ID
  /\ UNCHANGED <<baskets, h>>

MapNext == \E k \in Key : \/ FindHit(k) \/ FindMiss(k)
                       \/ RemoveFound(k) \/ RemoveMissing(k)
                       \/ \E v \in Value : InsertPresent(k, v) \/ InsertNew(k, v)

MapSpec == MapInit /\ [][MapNext]_mapVars

-----------------------------------------------------------------------------
Stored == UNION {Reached(Basket(b)) : b \in 0 .. BASKET_NUM - 1}

(* The chain of every basket ends, so every search loop of hash_map.h      *)
(* (lines 36 and 46) does, although MoveToFront leaves tail and prev stale. *)
SearchesEnd == \A b \in 0 .. BASKET_NUM - 1 : ~Cyclic(Basket(b))

(* The entries in use are exactly those some basket reaches: Find, Insert  *)
(* and Remove lose no node of the shared memory and free none that a       *)
(* basket still links (hash_map.h with MemoryManager.h).                   *)
NoEntryLost == PoolOK(h.pool, Stored)

(* The hash table is a finite map of capacity N. *)
Contents == [k \in Key |-> IF Locate(k) = {} THEN Absent ELSE h.node[SlotOf(k)].t.value]

Abstract == INSTANCE FiniteMap WITH map <- Contents, Capacity <- N
RefinesFiniteMap == Abstract!Spec
==============================================================================
