--------------------------------- MODULE Disk ---------------------------------
(***************************************************************************)
(* fs/Disk: FileDisk.h and MemoryDisk.h behind the interface of Disk.h.  A *)
(* disk is a record: max_id, a number in memory, says that the pages below *)
(* it exist; the file holds length pages, and data at their places.        *)
(***************************************************************************)
EXTENDS Integers

CONSTANTS DISK_PAGES,       \* the bound of MemoryDisk: MEMORY_PAGE_NUM
          Part,             \* the places inside a page that are told apart
          Data,             \* what a client may write at a place
          White             \* what bytes of 0xff read as

ASSUME DiskAssumption == DISK_PAGES \in Nat \ {0}

DiskPage  == 0 .. DISK_PAGES - 1
Content   == [Part -> Data \cup {White}]
WhitePage == [x \in Part |-> White]

(* Every page that exists is in the file. *)
DiskType ==
  {d \in [max_id : 0 .. DISK_PAGES, length : 0 .. DISK_PAGES, data : [DiskPage -> Content]] :
     d.length = d.max_id}

NewDisk == [max_id |-> 0, length |-> 0, data |-> [i \in DiskPage |-> WhitePage]]

(* Read(i) and Write(i) fail, and change nothing, from max_id on. *)
InBound(d, i) == i < d.max_id

Stored(d, i, c) ==
  [max_id |-> d.max_id,
   length |-> IF i < d.length THEN d.length ELSE i + 1,
   data   |-> [d.data EXCEPT ![i] = c]]

DiskFull(d) == d.max_id = DISK_PAGES

(* Slip: the new page is not written, so the file does not grow with it.   *)
GrownUnwritten(d) == [d EXCEPT !.max_id = @ + 1]

(* New(i): the next page number, its place filled with white_page. *)
Grown(d) == Stored([d EXCEPT !.max_id = @ + 1], d.max_id, WhitePage)

(* FileDisk's constructor counts the pages of the file it opens.           *)
Reopened(d) == [max_id |-> d.length, length |-> d.length, data |-> d.data]
==============================================================================
