--------------------------- MODULE QueueRecordTable ---------------------------
(***************************************************************************)
(* QueueRecordTable.h: one table of RecordPages, with one iterator that    *)
(* lives across other calls.                                               *)
(* lost is history: a record was put into a page that is not in the chain. *)
(***************************************************************************)
EXTENDS RecordPages

CONSTANTS Record, Nothing

VARIABLES table,
          it_page, it_record, it_open,  \* the iterator
          reply, lost

vars == <<table, it_page, it_record, it_open, reply, lost>>

Init ==
  /\ table = NewTable
  /\ it_page = NULL_ID /\ it_record = 0 /\ it_open = FALSE
  /\ reply = Nothing /\ lost = FALSE

Insert(r) ==
  /\ TailFull(table) => CanNew(table)
  /\ table' = Inserted(table, r)
  /\ lost' = (lost \/ table.tail \notin Chained(table) \cup {NULL_ID})
  /\ reply' = Nothing
  /\ UNCHANGED <<it_page, it_record, it_open>>

(* Remove and Update of a record in the table.  No client keeps an         *)
(* iterator open while it removes.                                         *)
Remove(p, i) ==
  /\ p \in Chained(table) /\ i \in 1 .. Size(table, p)
  /\ table' = Removed(table, p, i)
  /\ reply' = table.list[p].records[i]
  /\ it_open' = FALSE /\ it_page' = NULL_ID /\ it_record' = 0
  /\ UNCHANGED lost

Update(p, i, r) ==
  /\ p \in Chained(table) /\ i \in 1 .. Size(table, p)
  /\ table' = Updated(table, p, i, r)
  /\ reply' = table.list[p].records[i]
  /\ UNCHANGED <<it_page, it_record, it_open, lost>>

(* Empty(), which like Recycle() reads the head. *)
Empty ==
  /\ table' = HeadRead(table)
  /\ reply' = (table'.head = NULL_ID)
  /\ UNCHANGED <<it_page, it_record, it_open, lost>>

OpenIterator ==
  /\ table' = HeadRead(table)
  /\ it_page' = table'.head /\ it_record' = 0 /\ it_open' = TRUE
  /\ reply' = Nothing
  /\ UNCHANGED lost

(* The iterator's Get() and Next() within a page, and to the next page. *)
IteratorStep ==
  /\ it_open /\ it_page # NULL_ID
  /\ reply' = table.list[it_page].records[it_record + 1]
  /\ it_record + 1 # Size(table, it_page)
  /\ it_record' = it_record + 1
  /\ UNCHANGED <<table, it_page, it_open, lost>>

(* Slip: the next page's number is read before empty pages are dropped. *)
IteratorTurnStale ==
  /\ it_open /\ it_page # NULL_ID
  /\ reply' = table.list[it_page].records[it_record + 1]
  /\ it_record + 1 = Size(table, it_page)
  /\ it_record' = 0
  /\ table' = Skipped(table, it_page)
  /\ it_page' = table.list[it_page].next
  /\ UNCHANGED <<it_open, lost>>

IteratorTurn ==
  /\ it_open /\ it_page # NULL_ID
  /\ reply' = table.list[it_page].records[it_record + 1]
  /\ it_record + 1 = Size(table, it_page)
  /\ it_record' = 0
  /\ table' = Skipped(table, it_page)
  /\ it_page' = table'.list[it_page].next
  /\ UNCHANGED <<it_open, lost>>

Next ==
  \/ \E r \in Record : Insert(r) \/ \E p \in PageId, i \in 1 .. MAX_RECORDS : Update(p, i, r)
  \/ \E p \in PageId, i \in 1 .. MAX_RECORDS : Remove(p, i)
  \/ Empty \/ OpenIterator \/ IteratorStep \/ IteratorTurn

Spec == Init /\ [][Next]_vars

-----------------------------------------------------------------------------
Cell == PageId \cup {NULL_ID}

(* Like the other invariants it is claimed until a record is lost: its     *)
(* page may be handed out again, and what it links to is anybody's.        *)
TypeOK ==
  ~lost =>
    /\ table.head \in Cell /\ table.tail \in Cell /\ table.size \in 0 .. PAGES
    /\ \A p \in PageId : /\ table.list[p].next \in Cell
                         /\ Size(table, p) <= MAX_RECORDS
                         /\ \A i \in 1 .. Size(table, p) : table.list[p].records[i] \in Record
    /\ Given(table) \subseteq 0 .. table.size - 1
    /\ it_page \in Cell /\ it_record \in 0 .. MAX_RECORDS - 1

(* No page in the chain has been given back to the file system, and none   *)
(* has been given back twice (list_page.h:44-57, Next deletes the empty    *)
(* pages it passes, from several callers).                                 *)
FreePagesUnlinked ==
  ~lost => /\ Given(table) \cap Chained(table) = {}
           /\ Seqs!IsInjective(table.e_s)

(* An iterator that is not at its end stands on a record of the table,     *)
(* whatever empty pages have been dropped and records inserted meanwhile   *)
(* (QueueRecordTable.h:172-178).                                           *)
IteratorInside ==
  ~lost /\ it_open /\ it_page # NULL_ID =>
     it_page \in Chained(table) /\ it_record < Size(table, it_page)

(* The place of record i of page p (from 0) among all records. *)
Place(t, p, i) ==
  LET c == Chain(t)
      n == CHOOSE n \in DOMAIN c : c[n] = p
  IN Len(RecordsUpTo(t, c)[n - 1]) + i + 1

(* The table is a queue of records with an iterator, as RecordQueue.tla    *)
(* promises, as long as no record goes to a page that has left the chain.  *)
Queue == INSTANCE RecordQueue
           WITH queue <- RecordsIn(table, Chain(table)), open <- it_open, broken <- lost,
                cursor <- IF lost \/ it_page = NULL_ID THEN 0 ELSE Place(table, it_page, it_record)
RefinesRecordQueue == Queue!Spec

(* list_page.h:18, "next is the position of the page after this one, all   *)
(* pages are organised as one linked list": a page with records in it is   *)
(* in the list.                                                            *)
EveryPageLinked == \A p \in PageId : Size(table, p) # 0 => p \in Chained(table)
==============================================================================
