--------------------------- MODULE ReplacementOrder ---------------------------
(***************************************************************************)
(* The LRUBuffer under any sequence of Get calls, with a history of the    *)
(* order in which the pages were used to judge its choices by.             *)
(***************************************************************************)
EXTENDS LRUBuffer

VARIABLES lru,       \* the buffer
          since,     \* history: the cached pages used since a cached page was
          exact      \* history: no hit has found its page at the tail so far

vars == <<lru, since, exact>>

Init == lru = NewBuffer /\ since = [p \in Page |-> {}] /\ exact = TRUE

(* i has just been used: every other cached page has seen it. *)
UsedNow(i) ==
  since' = [p \in Page |-> IF p \in Cached(lru') \ {i}
                           THEN (since[p] \cup {i}) \cap Cached(lru') ELSE {}]

(* The hit that DoubleLinkedList::MoveToFront does not serve properly. *)
HitsTail(i) == lru.table[i] = lru.list.tail /\ lru.list.tail # lru.list.head

Get(i) == /\ lru' = BufferGet(lru, i).buffer
          /\ UsedNow(i)
          /\ exact' = (exact /\ ~ HitsTail(i))

GetHit(i)   == i \in Cached(lru) /\ Get(i)
GetFill(i)  == i \notin Cached(lru) /\ ~Exhausted(lru.list.pool) /\ Get(i)
GetEvict(i) == i \notin Cached(lru) /\ Exhausted(lru.list.pool) /\ Get(i)

Next == \E i \in Page : GetHit(i) \/ GetFill(i) \/ GetEvict(i)

Spec == Init /\ [][Next]_vars

-----------------------------------------------------------------------------
TypeOK == lru \in BufferType

(* The page table and the nodes agree (TableOK), so the frame that Get     *)
(* reports as replace_value is the frame of replace_key                    *)
(* (LRUBuffer.h:33-41).                                                    *)
PageTableConsistent == TableOK(lru)

(* The slots of list_mem in use are those of the cached pages: no frame is *)
(* lost to the pool and none is free while a page is mapped to it          *)
(* (LRUBuffer.h:33-42 with MemoryManager.h).                               *)
FramesInUse == PoolOK(lru.list.pool, Used(lru))

(* PopBack(x) finds a victim whenever the memory is full, although tail    *)
(* and prev may be stale (LRUBuffer.h:33-36, double_linked_list.h:102).    *)
VictimExists == LinksOK(lru)

(* Get evicts only when all N slots are taken, exactly one page then, and  *)
(* that page's slot goes to the page asked for; every other cached page    *)
(* stays where it is (LRUBuffer.h:21-46).                                  *)
EvictsOneForOne ==
  [][ LET gone == Cached(lru) \ Cached(lru')
          come == Cached(lru') \ Cached(lru)
      IN /\ gone # {} => Cardinality(Cached(lru)) = N
         /\ \A p \in gone, q \in come : lru'.table[q] = lru.table[p]
         /\ Cardinality(gone) <= Cardinality(come) /\ Cardinality(come) <= 1
         /\ \A p \in Cached(lru) \cap Cached(lru') : lru'.table[p] = lru.table[p]
    ]_vars

(* Every other cached page has been used since p was. *)
LeastRecent(p) == \A q \in Cached(lru) \ {p} : q \in since[p]

(* MoveToFront relinks neither tail nor the moved node's prev              *)
(* (double_linked_list.h:102).  The replacement is that of an LRU buffer   *)
(* for as long as no hit has found its page at the tail: the prev pointers *)
(* left stale by other hits are made good before PopBack reads them.       *)
LRUUntilTailHit ==
  [][ exact => \A p \in Cached(lru) \ Cached(lru') : LeastRecent(p) ]_vars

(* LRUBuffer.h:12, "LRUBuffer, which uses the LRU algorithm (by a hash     *)
(* linked list) as the replacement algorithm": the page that Get drops is  *)
(* the one used least recently.                                            *)
EvictsLeastRecentlyUsed ==
  [][ \A p \in Cached(lru) \ Cached(lru') : LeastRecent(p) ]_vars
==============================================================================
