------------------------------ MODULE RecordPages ------------------------------
(***************************************************************************)
(* QueueRecordTable.h over list_page.h: records in a chain of pages, of    *)
(* which two cells of a root page hold the first and the last.  An empty   *)
(* page leaves the chain only when somebody asks its predecessor for Next, *)
(* or when the head cell is read.                                          *)
(* A table is a record, and each method an operator on it:                 *)
(*   head, tail   the two cells                                            *)
(*   list         [PageId -> [next, records]]                              *)
(*   e_s, size    the file system: its deleted pages, and how many it has  *)
(***************************************************************************)
EXTENDS Integers, Sequences

CONSTANTS PAGES,       \* the pages the file system can hand out
          MAX_RECORDS  \* get_list_table_record_max_num

ASSUME TableAssumption == PAGES \in Nat \ {0} /\ MAX_RECORDS \in Nat \ {0}

NULL_ID == -1
PageId  == 0 .. PAGES - 1

Seqs == INSTANCE SequencesExt

NewTable == [head |-> NULL_ID, tail |-> NULL_ID,
             list |-> [p \in PageId |-> [next |-> NULL_ID, records |-> <<>>]],
             e_s |-> <<>>, size |-> 0]

Size(t, p) == Len(t.list[p].records)

(* fs.New, and ListPage::New(NULL_ID): an empty page without successor. *)
CanNew(t)  == t.e_s # <<>> \/ t.size < PAGES
NewPage(t) == IF t.e_s # <<>> THEN Seqs!Last(t.e_s) ELSE t.size
WithNew(t) ==
  [t EXCEPT !.list[NewPage(t)] = [next |-> NULL_ID, records |-> <<>>],
            !.e_s  = IF @ # <<>> THEN Seqs!Front(@) ELSE @,
            !.size = IF t.e_s # <<>> THEN @ ELSE @ + 1]

-----------------------------------------------------------------------------
(* The page n links after page p, for n up to PAGES; NULL_ID past the end. *)
Linked(t, p) ==
  LET next == [q \in PageId \cup {NULL_ID} |-> IF q = NULL_ID THEN q ELSE t.list[q].next]
      page[n \in 0 .. PAGES] == IF n = 0 THEN p ELSE next[page[n - 1]]
  IN page

(* The first n whose page after p has records, or is none. *)
Stop(t, p) ==
  LET Stops(n) == Linked(t, p)[n] = NULL_ID \/ Size(t, Linked(t, p)[n]) # 0
  IN CHOOSE n \in 1 .. PAGES : Stops(n) /\ \A i \in 1 .. n - 1 : ~Stops(i)

(* The empty pages that follow page p. *)
Emptied(t, p) == [n \in 1 .. Stop(t, p) - 1 |-> Linked(t, p)[n]]

(* Slip: the pages are deleted but stay linked. *)
SkippedLinked(t, p) == [t EXCEPT !.e_s = @ \o Seqs!Reverse(Emptied(t, p))]

(* ListPage::Next() of page p: the empty pages after it are unlinked and   *)
(* deleted, the last of them first, because the loop asks each for its own *)
(* Next(); each comes to name the page after the last of them.  What the   *)
(* call returns is p's next in the table after it.                         *)
Skipped(t, p) ==
  LET es == Emptied(t, p)
  IN [t EXCEPT !.list = [q \in PageId |->
                           IF q \in {p} \cup Seqs!ToSet(es)
                           THEN [@[q] EXCEPT !.next = Linked(t, p)[Stop(t, p)]] ELSE @[q]],
               !.e_s = @ \o Seqs!Reverse(es)]

(* The HeadPage() getter moves an empty head on, and deletes nothing then. *)
HeadRead(t) ==
  LET u == Skipped(t, t.head)
  IN IF t.head = NULL_ID \/ Size(t, t.head) # 0 THEN t
     ELSE [u EXCEPT !.head = u.list[t.head].next]

(* Insert(record): into the tail page, or into a new one when that is full *)
(* or there is none.                                                       *)
(* Slip: a page is full only when it holds more than it can. *)
TailFullLate(t) == t.tail = NULL_ID \/ Size(t, t.tail) > MAX_RECORDS

TailFull(t) == t.tail = NULL_ID \/ Size(t, t.tail) = MAX_RECORDS

InsertPage(t) == IF TailFull(t) THEN NewPage(t) ELSE t.tail

(* Slip: a full tail page is not linked to the new one. *)
InsertedUnlinked(t, r) ==
  LET p == NewPage(t)
      n == WithNew(t)
  IN IF TailFull(t)
     THEN [n EXCEPT !.head = IF t.tail = NULL_ID THEN p ELSE @,
                    !.tail = p, !.list[p].records = Append(@, r)]
     ELSE [t EXCEPT !.list[t.tail].records = Append(@, r)]

Inserted(t, r) ==
  LET p == NewPage(t)
      n == WithNew(t)
      linked == IF t.tail # NULL_ID THEN [n EXCEPT !.list[t.tail].next = p] ELSE [n EXCEPT !.head = p]
  IN IF TailFull(t)
     THEN [linked EXCEPT !.tail = p, !.list[p].records = Append(@, r)]
     ELSE [t EXCEPT !.list[t.tail].records = Append(@, r)]

(* Remove(value, page, i), of an empty value, as every caller passes: that *)
(* is compared with no byte of the record and never refused.  By the time  *)
(* the emptied page is compared with the head, reading the head has moved  *)
(* it on, so the branch that resets the tail is never taken.               *)
Removed(t, p, i) ==
  LET h == HeadRead([t EXCEPT !.list[p].records = Seqs!RemoveAt(@, i)])
      u == Skipped(h, p)
  IN IF p = h.head /\ Size(h, p) = 0
     THEN [u EXCEPT !.head = u.list[p].next, !.tail = IF @ = p THEN NULL_ID ELSE @]
     ELSE h

(* Update(record, page, i). *)
Updated(t, p, i, r) == [t EXCEPT !.list[p].records[i] = r]

-----------------------------------------------------------------------------
(* The pages from p on, as they are linked.  A chain that closes on itself *)
(* is followed for PAGES pages.                                            *)
ChainFrom(t, p) ==
  LET page == Linked(t, p)
  IN [n \in {i \in 1 .. PAGES : page[i - 1] # NULL_ID} |-> page[n - 1]]

Chain(t)   == ChainFrom(t, t.head)
Chained(t) == Seqs!ToSet(Chain(t))

(* The pages given back to the file system, and those that are in use. *)
Given(t) == Seqs!ToSet(t.e_s)
InUse(t) == (0 .. t.size - 1) \ Given(t)

(* The records in a sequence of pages, up to each of them and in all. *)
RecordsUpTo(t, pages) ==
  LET first[n \in 0 .. Len(pages)] ==
        IF n = 0 THEN <<>> ELSE first[n - 1] \o t.list[pages[n]].records
  IN first

RecordsIn(t, pages) == RecordsUpTo(t, pages)[Len(pages)]
==============================================================================
