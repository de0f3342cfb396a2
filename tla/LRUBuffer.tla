------------------------------ MODULE LRUBuffer -------------------------------
(***************************************************************************)
(* fs/Buffer/LRUBuffer.h: which memory page (a slot) holds which physical  *)
(* page.  The state of the buffer is a record:                             *)
(*   list    the DoubleLinkedList of physical pages, meant to be in order  *)
(*           of use, over list_mem                                         *)
(*   table   hash_map: the slot of every cached page, NULL_ID for others   *)
(* hash_map is taken as the finite map that module HashMap is shown to be. *)
(* It holds one entry per slot of list_mem in use, so its own memory, of   *)
(* the same capacity, has room whenever Get inserts (FramesInUse).         *)
(***************************************************************************)
EXTENDS DoubleLinkedList

CONSTANT Page               \* physical page ids

ASSUME PageAssumption == Page \subseteq Nat

NewBuffer == [list  |-> NewList(NULL_ID), table |-> [p \in Page |-> NULL_ID]]

Cached(b) == {p \in Page : b.table[p] # NULL_ID}
Used(b)   == {b.table[p] : p \in Cached(b)}

(* Get(i, replace_key, replace_value, miss): the buffer after the call and *)
(* its four results.  A hit moves the node to the front.  A miss takes a   *)
(* fresh slot while there is one; then it pops the tail of the list,       *)
(* forgets the page x found there, and pushes i into the slot just freed.  *)
Hit(b, i) ==
  [buffer |-> [list |-> MoveToFront(b.list, b.table[i]), table |-> b.table],
   ret |-> b.table[i], replace_key |-> NULL_ID, replace_value |-> NULL_ID,
   miss |-> FALSE]

Fill(b, i) ==
  LET l == PushFront(b.list, i)
  IN [buffer |-> [list |-> l, table |-> [b.table EXCEPT ![i] = l.head]],
      ret |-> l.head, replace_key |-> NULL_ID, replace_value |-> NULL_ID,
      miss |-> TRUE]

(* Slip: the page that goes is not forgotten. *)
EvictKeepsMapping(b, i) ==
  LET x == b.list.node[b.list.tail].t
      l == PushFront(PopBack(b.list), i)
  IN [buffer |-> [list  |-> l, table |-> [b.table EXCEPT ![i] = l.head]],
      ret |-> l.head, replace_key |-> x, replace_value |-> b.table[x],
      miss |-> TRUE]

Evict(b, i) ==
  LET x == b.list.node[b.list.tail].t
      l == PushFront(PopBack(b.list), i)
  IN [buffer |-> [list  |-> l,
                  table |-> [[b.table EXCEPT ![x] = NULL_ID] EXCEPT ![i] = l.head]],
      ret |-> l.head, replace_key |-> x, replace_value |-> b.table[x],
      miss |-> TRUE]

(* Slip: a page is evicted while there are free slots. *)
BufferGetEager(b, i) ==
  IF b.table[i] # NULL_ID THEN Hit(b, i)
  ELSE IF Cached(b) = {} THEN Fill(b, i)
  ELSE Evict(b, i)

BufferGet(b, i) ==
  IF b.table[i] # NULL_ID THEN Hit(b, i)
  ELSE IF ~Exhausted(b.list.pool) THEN Fill(b, i)
  ELSE Evict(b, i)

-----------------------------------------------------------------------------
NodeType == [t : Page \cup {NULL_ID}, prev : Link, next : Link]
ListType == [head : Link, tail : Link, node : [Slot -> NodeType],
             pool : [free : Seq(Slot), max_page : 1 .. N, size : 0 .. N]]
BufferType == [list : ListType, table : [Page -> Link]]

(* A slot serves one page, and the node in it names that page: the victim  *)
(* that Get reads from the tail node is the page whose frame it hands on   *)
(* (LRUBuffer.h:33-41), whatever has become of the order of the list.      *)
TableOK(b) ==
  /\ \A p, q \in Cached(b) : b.table[p] = b.table[q] => p = q
  /\ \A p \in Cached(b) : b.list.node[b.table[p]].t = p

(* A list with a page in it has both ends, and every link of a node in use *)
(* leads to a node in use.                                                 *)
LinksOK(b) ==
  /\ {b.list.head, b.list.tail} \subseteq Used(b) \cup {NULL_ID}
  /\ Cached(b) # {} => b.list.head # NULL_ID /\ b.list.tail # NULL_ID
  /\ \A s \in Used(b) :
       {b.list.node[s].prev, b.list.node[s].next} \subseteq Used(b) \cup {NULL_ID}
==============================================================================
