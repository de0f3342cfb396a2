--------------------------- MODULE DoubleLinkedList ---------------------------
(***************************************************************************)
(* ds/double_linked_list.h: a doubly linked list whose nodes live in a     *)
(* Memory<ListNode<T>, N>.  A list is a record:                            *)
(*   head, tail   slots, or NULL_ID                                        *)
(*   node         [Slot -> [t, prev, next]], the pool's mem array          *)
(*   pool         the allocator                                            *)
(* Each operator returns the list after the call.  The pointer writes are  *)
(* kept in the order of the code: prev, next and tail may be out of date   *)
(* (see MoveToFront), so the order decides the outcome.                    *)
(***************************************************************************)
EXTENDS MemoryPool

Link == Slot \cup {NULL_ID}

(* Set one link of one node, doing nothing when the node is NULL_ID. *)
SetPrev(node, i, v) == IF i = NULL_ID THEN node ELSE [node EXCEPT ![i].prev = v]
SetNext(node, i, v) == IF i = NULL_ID THEN node ELSE [node EXCEPT ![i].next = v]

(* A list over a memory with no node handed out. *)
NewList(blank) ==
  [head |-> NULL_ID, tail |-> NULL_ID,
   node |-> [s \in Slot |-> [t |-> blank, prev |-> NULL_ID, next |-> NULL_ID]],
   pool |-> NewPool]

(* Create(t, nxt, pre) once the pool has handed out slot i. *)
Created(node, i, t, nxt, pre) == [node EXCEPT ![i] = [t |-> t, prev |-> pre, next |-> nxt]]

(* PushFront(t, i): false, with nothing changed, when the pool is empty.   *)
(* Otherwise NextId(d.pool) is the slot the caller receives.               *)
PushFront(d, t) ==
  LET i    == NextId(d.pool)
      made == Created(d.node, i, t, d.head, NULL_ID)
  IN IF Exhausted(d.pool) THEN d
     ELSE [head |-> i,
           tail |-> IF d.head = NULL_ID THEN i ELSE d.tail,
           node |-> SetPrev(made, d.head, i),
           pool |-> Taken(d.pool)]

(* PopFront() *)
PopFront(d) ==
  LET h == d.node[d.head].next
  IN IF d.head = NULL_ID THEN d
     ELSE [head |-> h,
           tail |-> IF h = NULL_ID THEN NULL_ID ELSE d.tail,
           node |-> SetPrev(d.node, h, NULL_ID),
           pool |-> Released(d.pool, d.head)]

(* Slip: the head outlives the last node. *)
PopBackKeepsHead(d) ==
  LET t == d.node[d.tail].prev
  IN IF d.tail = NULL_ID THEN d
     ELSE [head |-> d.head,
           tail |-> t,
           node |-> SetNext(d.node, t, NULL_ID),
           pool |-> Released(d.pool, d.tail)]

(* PopBack(): the released slot keeps its node, so its prev is still read. *)
PopBack(d) ==
  LET t == d.node[d.tail].prev
  IN IF d.tail = NULL_ID THEN d
     ELSE [head |-> IF t = NULL_ID THEN NULL_ID ELSE d.head,
           tail |-> t,
           node |-> SetNext(d.node, t, NULL_ID),
           pool |-> Released(d.pool, d.tail)]

(* The two unlinking writes that Remove and MoveToFront share.  The second *)
(* reads i's links after the first has been done.                          *)
Unlinked(node, i) ==
  LET n1 == SetPrev(node, node[i].next, node[i].prev)
  IN SetNext(n1, n1[i].prev, n1[i].next)

(* Slip: the ends are not told apart. *)
RemoveAnywhere(d, i) ==
  IF i = NULL_ID THEN d
  ELSE [d EXCEPT !.node = Unlinked(@, i), !.pool = Released(@, i)]

(* Remove(i): the ends go through PopFront and PopBack. *)
Remove(d, i) ==
  IF i = NULL_ID THEN d
  ELSE IF i = d.head THEN PopFront(d)
  ELSE IF i = d.tail THEN PopBack(d)
  ELSE [d EXCEPT !.node = Unlinked(@, i), !.pool = Released(@, i)]

(* Slips: the node is not taken out of its old place; it is not moved. *)
MoveToFrontLinked(d, i) ==
  IF i \in {NULL_ID, d.head} THEN d
  ELSE [head |-> i,
        tail |-> d.tail,
        node |-> SetNext(SetPrev(d.node, d.head, i), i, d.head),
        pool |-> d.pool]
MoveToFrontNot(d, i) == d

(* MoveToFront(i): neither tail nor i's own prev is brought up to date. *)
MoveToFront(d, i) ==
  IF i \in {NULL_ID, d.head} THEN d
  ELSE [head |-> i,
        tail |-> d.tail,
        node |-> SetNext(SetPrev(Unlinked(d.node, i), d.head, i), i, d.head),
        pool |-> d.pool]

-----------------------------------------------------------------------------
(* Position n of the forward chain that starts at head; NULL_ID past its end. *)
Chain(d) ==
  LET at[n \in 0 .. N] ==
        IF n = 0 THEN d.head
        ELSE IF at[n - 1] = NULL_ID THEN NULL_ID ELSE d.node[at[n - 1]].next
  IN at

(* Following next from head comes back to a slot it has passed: Traverse() *)
(* and the loops of HashMap would not end.                                 *)
Cyclic(d) == Chain(d)[N] # NULL_ID

Reached(d) == {Chain(d)[n] : n \in 0 .. N} \ {NULL_ID}

(* Traverse(): what the nodes hold, head first, for a chain that ends. *)
Traverse(d) ==
  LET len == CHOOSE n \in 0 .. N : /\ Chain(d)[n] = NULL_ID
                                   /\ \A m \in 0 .. n - 1 : Chain(d)[m] # NULL_ID
  IN [k \in 1 .. len |-> d.node[Chain(d)[k - 1]].t]
==============================================================================
